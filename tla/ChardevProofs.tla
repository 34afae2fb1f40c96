---------------------------- MODULE ChardevProofs ----------------------------
(***************************************************************************)
(* The file operations implement CharFile, for any threads, files, disk,   *)
(* block and transfer sizes, when every length and every seek is a         *)
(* multiple of the block and transfers do not overlap.                     *)
(***************************************************************************)
EXTENDS Chardev, TLAPS

(* The calls the programs make are for whole blocks.                       *)
WholeBlocks ==
  /\ \A n \in Counts : n % LbaSize = 0
  /\ \A p \in Positions : p % LbaSize = 0

(* The errors of CharFile are those that the code returns.                 *)
ErrorsKnown ==
  /\ {EIO, EINVAL, ESPIPE} \subseteq Errors
  /\ \A r \in Results : r < 0 => r \in Errors

(* The locals of a call agree: what is left, the buffer and the offset     *)
(* advance together, in whole blocks.                                      *)
LocalsInv(t) ==
  /\ call[t] \in Calls
  /\ remaining[t] \in Nat /\ remaining[t] <= call[t].count
  /\ buffer[t] = call[t].buf + (call[t].count - remaining[t])
  /\ off[t] = call[t].pos + (call[t].count - remaining[t])
  /\ call[t].count % LbaSize = 0
  /\ off[t] % LbaSize = 0
  /\ remaining[t] % LbaSize = 0

CallsInv ==
  /\ DOMAIN disk = 0 .. DiskBytes - 1
  /\ mem = [t \in Threads |-> mem[t]]
  /\ \A t \in Threads : DOMAIN mem[t] = 0 .. MemBytes - 1
  /\ f_pos \in [Files -> Nat]
  /\ \A f \in Files : f_pos[f] % LbaSize = 0
  /\ call \in [Threads -> Calls \cup {NoCall}]
  /\ pc \in [Threads -> {"user", "loop", "wait", "advance"}]
  /\ remaining \in [Threads -> Int]
  /\ buffer \in [Threads -> Int]
  /\ off \in [Threads -> Int]
  /\ \A t \in Threads : pc[t] = "user" <=> call[t] = NoCall
  /\ \A t \in Threads : pc[t] # "user" => LocalsInv(t)
  /\ lost \in [Threads -> BOOLEAN]

(* The bytes of the call that the driver is at work on.                    *)
Sent(t) == call[t].count - remaining[t] .. Submitted(t) - 1

(* One transfer is under way at a time, and the bytes in flight are its.   *)
FlightInv ==
  /\ \A t, u \in Threads : pc[t] = "wait" /\ pc[u] = "wait" => t = u
  /\ \A b \in inflight :
       /\ b.thread \in Threads /\ pc[b.thread] = "wait"
       /\ \E k \in Sent(b.thread) : b = CallByte(b.thread, k)

(* The contents of the disk and of every memory are functions.             *)
ContentsInv ==
  /\ disk = [k \in DOMAIN disk |-> disk[k]]
  /\ \A t \in Threads : mem[t] = [k \in DOMAIN mem[t] |-> mem[t][k]]

IInv == CallsInv /\ FlightInv /\ ContentsInv

-----------------------------------------------------------------------------
(* Blocks.                                                                 *)

(* Sums and differences of whole blocks are whole blocks.                  *)
LEMMA BlocksAdd ==
  ASSUME NEW a \in Int, NEW b \in Int, a % LbaSize = 0, b % LbaSize = 0
  PROVE  (a + b) % LbaSize = 0 /\ (a - b) % LbaSize = 0
<1> DEFINE x == a \div LbaSize
           y == b \div LbaSize
<1>1. LbaSize \in Nat \ {0}
  BY ChardevAssumption
<1>2. x \in Int /\ y \in Int /\ a = x * LbaSize /\ b = y * LbaSize
  BY <1>1
<1> HIDE DEF x, y
<1>3. a + b = (x + y) * LbaSize /\ a - b = (x - y) * LbaSize
  BY <1>1, <1>2
<1>4. \A z \in Int : (z * LbaSize) % LbaSize = 0
  BY <1>1
<1> QED BY <1>2, <1>3, <1>4

(* A transfer of whole blocks has the address and the size of its bytes:   *)
(* neither the rounding nor the __u16 of the block count loses any.        *)
LEMMA BlocksExact ==
  ASSUME NEW len \in Nat \ {0}, NEW o \in Nat, len <= MAX_BYTES,
         len % LbaSize = 0, o % LbaSize = 0
  PROVE  (nblocks(len) + 1) * LbaSize = len /\ slba(o) * LbaSize = o
<1> DEFINE x == len \div LbaSize
<1>1. LbaSize \in Nat \ {0} /\ U16 \in Nat \ {0} /\ len <= U16 * LbaSize
  BY ChardevAssumption
<1>2. x \in Int /\ len = x * LbaSize
  BY <1>1
<1> HIDE DEF x
<1>3. x >= 1
  BY <1>1, <1>2
<1>4. x <= U16
  BY <1>1, <1>2
<1>5. len - 1 = (x - 1) * LbaSize + (LbaSize - 1) /\ LbaSize - 1 \in 0 .. LbaSize - 1
  BY <1>1, <1>2
<1>6. (len - 1) \div LbaSize = x - 1
  BY <1>1, <1>2, <1>5
<1>7. (x - 1) % U16 = x - 1
  BY <1>1, <1>2, <1>3, <1>4
<1>8. nblocks(len) + 1 = x
  BY <1>6, <1>7, <1>2 DEF nblocks
<1>9. slba(o) * LbaSize = o
  BY <1>1 DEF slba
<1> QED BY <1>2, <1>8, <1>9

-----------------------------------------------------------------------------
(* The invariant.                                                          *)

(* It holds when the device file is opened first.                          *)
LEMMA InitInv == Init => IInv
<1> SUFFICES ASSUME Init PROVE IInv
  OBVIOUS
<1>1. 0 % LbaSize = 0
  BY ChardevAssumption
<1>2. /\ DOMAIN disk = 0 .. DiskBytes - 1 /\ mem = [t \in Threads |-> mem[t]]
      /\ \A t \in Threads : DOMAIN mem[t] = 0 .. MemBytes - 1
  BY DEF Init
<1>3. /\ f_pos \in [Files -> Nat] /\ \A f \in Files : f_pos[f] % LbaSize = 0
  BY <1>1 DEF Init
<1>4. /\ call \in [Threads -> Calls \cup {NoCall}]
      /\ pc \in [Threads -> {"user", "loop", "wait", "advance"}]
      /\ remaining \in [Threads -> Int] /\ buffer \in [Threads -> Int] /\ off \in [Threads -> Int]
      /\ \A t \in Threads : pc[t] = "user" /\ call[t] = NoCall
  BY DEF Init
<1>5. lost \in [Threads -> BOOLEAN] /\ inflight = {}
  BY DEF Init
<1>6. ContentsInv
  BY DEF Init, ContentsInv
<1> QED BY <1>2, <1>3, <1>4, <1>5, <1>6 DEF IInv, CallsInv, FlightInv

(* A call begins at the position of its file.                              *)
LEMMA EnterInv ==
  ASSUME WholeBlocks, CallsInv, NEW t \in Threads, Enter(t)
  PROVE  CallsInv'
<1>1. PICK f \in Files, op \in Ops, b \in Buffers, n \in Counts :
        /\ f_pos[f] + n <= DiskBytes /\ b + n <= MemBytes
        /\ call' = [call EXCEPT ![t] = [op |-> op, file |-> f, buf |-> b,
                                        count |-> n, pos |-> f_pos[f]]]
        /\ buffer' = [buffer EXCEPT ![t] = b]
        /\ remaining' = [remaining EXCEPT ![t] = n]
        /\ off' = [off EXCEPT ![t] = f_pos[f]]
  BY Zenon DEF Enter
<1> DEFINE c == [op |-> op, file |-> f, buf |-> b, count |-> n, pos |-> f_pos[f]]
<1>2. b \in Nat /\ n \in Nat /\ f_pos[f] \in Nat
  BY ChardevAssumption DEF CallsInv
<1>3. c \in Calls /\ c # NoCall
  BY <1>2, ChardevAssumption DEF Calls
<1>4. /\ c.buf = b /\ c.count = n /\ c.pos = f_pos[f]
  OBVIOUS
<1>5. pc' = [pc EXCEPT ![t] = "loop"] /\ UNCHANGED <<disk, mem, f_pos>>
  BY DEF Enter
<1> HIDE DEF c
<1>6. /\ call' \in [Threads -> Calls \cup {NoCall}] /\ pc' \in [Threads -> {"user", "loop", "wait", "advance"}]
      /\ remaining' \in [Threads -> Int] /\ buffer' \in [Threads -> Int] /\ off' \in [Threads -> Int]
  BY <1>1, <1>2, <1>3, <1>5 DEF CallsInv, c
<1>7. /\ call'[t] = c /\ pc'[t] = "loop" /\ remaining'[t] = n /\ buffer'[t] = b
      /\ off'[t] = f_pos[f]
  BY <1>1, <1>5 DEF CallsInv, c
<1>8. \A u \in Threads \ {t} : /\ call'[u] = call[u] /\ pc'[u] = pc[u]
                               /\ remaining'[u] = remaining[u] /\ buffer'[u] = buffer[u]
                               /\ off'[u] = off[u]
  BY <1>1, <1>5 DEF CallsInv
<1>9. LocalsInv(t)'
  <2>1. n % LbaSize = 0 /\ f_pos[f] % LbaSize = 0
    BY DEF WholeBlocks, CallsInv
  <2> QED BY <1>2, <1>3, <1>4, <1>7, <2>1 DEF LocalsInv
<1>10. \A u \in Threads \ {t} : LocalsInv(u)' = LocalsInv(u)
  BY <1>8 DEF LocalsInv
<1>11. \A u \in Threads : pc'[u] = "user" <=> call'[u] = NoCall
  BY <1>3, <1>7, <1>8, ZenonT(30) DEF CallsInv
<1>12. \A u \in Threads : pc'[u] # "user" => LocalsInv(u)'
  BY <1>8, <1>9, <1>10, Zenon DEF CallsInv
<1>13. lost' \in [Threads -> BOOLEAN]
  BY Zenon DEF CallsInv, Enter
<1> QED BY <1>5, <1>6, <1>11, <1>12, <1>13 DEF CallsInv

(* Submitting a transfer changes the place of the thread.                  *)
LEMMA SubmitInv ==
  ASSUME CallsInv, NEW t \in Threads, ReadSubmits(t) \/ WriteSubmits(t) \/ PhysSubmits(t)
  PROVE  CallsInv'
<1>1. /\ pc[t] = "loop"
      /\ UNCHANGED <<disk, mem, f_pos, call, remaining, buffer, off, lost>>
      /\ \/ pc' = [pc EXCEPT ![t] = "wait"]
         \/ pc' = [pc EXCEPT ![t] = "advance"]
  BY DEF ReadSubmits, WriteSubmits, PhysSubmits, SubmitIo
<1>2. /\ pc' \in [Threads -> {"user", "loop", "wait", "advance"}]
      /\ \A u \in Threads : pc'[u] = "user" <=> pc[u] = "user"
  BY <1>1 DEF CallsInv
<1>3. \A u \in Threads : LocalsInv(u)' = LocalsInv(u)
  BY <1>1 DEF LocalsInv
<1> QED BY <1>1, <1>2, <1>3 DEF CallsInv

(* The controller changes contents and nothing else of the calls.          *)
LEMMA SettleInv ==
  ASSUME CallsInv, NEW b, b.thread \in Threads, MoveBlock(b) \/ LoseBlock(b)
  PROVE  CallsInv'
<1>1. UNCHANGED <<f_pos, call, pc, remaining, buffer, off>>
  BY DEF MoveBlock, LoseBlock
<1>2. lost' \in [Threads -> BOOLEAN]
  BY Zenon DEF MoveBlock, LoseBlock, CallsInv
<1>3. DOMAIN disk' = 0 .. DiskBytes - 1
  BY DEF MoveBlock, LoseBlock, CallsInv
<1>4. /\ mem' = [u \in Threads |-> mem'[u]]
      /\ \A u \in Threads : DOMAIN mem'[u] = 0 .. MemBytes - 1
  <2>1. CASE UNCHANGED mem
    BY Zenon, <2>1 DEF CallsInv
  <2>2. ASSUME NEW m, mem' = [mem EXCEPT ![b.thread] = m], DOMAIN m = DOMAIN mem[b.thread]
        PROVE  /\ mem' = [u \in Threads |-> mem'[u]]
               /\ \A u \in Threads : DOMAIN mem'[u] = 0 .. MemBytes - 1
    BY <2>2 DEF CallsInv
  <2> QED BY <2>1, <2>2 DEF MoveBlock, LoseBlock
<1>5. \A u \in Threads : LocalsInv(u)' = LocalsInv(u)
  BY <1>1 DEF LocalsInv
<1> QED BY <1>1, <1>2, <1>3, <1>4, <1>5 DEF CallsInv

(* After a transfer of the loop what is left shrinks by whole blocks.      *)
LEMMA TransferReturnsInv ==
  ASSUME CallsInv, NEW t \in Threads, TransferReturns(t)
  PROVE  CallsInv'
<1>1. /\ pc[t] = "wait"
      /\ UNCHANGED <<disk, mem, f_pos, call, lost>>
      /\ \/ /\ remaining[t] > MAX_BYTES
            /\ pc' = [pc EXCEPT ![t] = "loop"]
            /\ remaining' = [remaining EXCEPT ![t] = @ - MAX_BYTES]
            /\ buffer' = [buffer EXCEPT ![t] = @ + MAX_BYTES]
            /\ off' = [off EXCEPT ![t] = @ + MAX_BYTES]
         \/ /\ pc' = [pc EXCEPT ![t] = "advance"]
            /\ UNCHANGED <<remaining, buffer, off>>
  BY DEF TransferReturns, Consume
<1>2. /\ pc' \in [Threads -> {"user", "loop", "wait", "advance"}]
      /\ \A u \in Threads : pc'[u] = "user" <=> pc[u] = "user"
  BY <1>1 DEF CallsInv
<1>3. CASE UNCHANGED <<remaining, buffer, off>>
  <2>1. \A u \in Threads : LocalsInv(u)' = LocalsInv(u)
    BY <1>1, <1>3 DEF LocalsInv
  <2> QED BY <1>1, <1>2, <1>3, <2>1 DEF CallsInv
<1>4. CASE /\ remaining[t] > MAX_BYTES
           /\ remaining' = [remaining EXCEPT ![t] = @ - MAX_BYTES]
           /\ buffer' = [buffer EXCEPT ![t] = @ + MAX_BYTES]
           /\ off' = [off EXCEPT ![t] = @ + MAX_BYTES]
  <2>1. MAX_BYTES \in Nat \ {0} /\ MAX_BYTES % LbaSize = 0
    BY ChardevAssumption
  <2>2. /\ remaining' \in [Threads -> Int] /\ buffer' \in [Threads -> Int] /\ off' \in [Threads -> Int]
        /\ remaining'[t] = remaining[t] - MAX_BYTES /\ buffer'[t] = buffer[t] + MAX_BYTES
        /\ off'[t] = off[t] + MAX_BYTES
        /\ \A u \in Threads \ {t} : /\ remaining'[u] = remaining[u] /\ buffer'[u] = buffer[u]
                                   /\ off'[u] = off[u]
    BY <1>4, <2>1 DEF CallsInv
  <2>3. LocalsInv(t)'
    <3>1. LocalsInv(t) /\ remaining[t] \in Int /\ off[t] \in Int
      BY <1>1 DEF CallsInv
    <3>2. (remaining[t] - MAX_BYTES) % LbaSize = 0 /\ (off[t] + MAX_BYTES) % LbaSize = 0
      <4>1. /\ remaining[t] \in Int /\ off[t] \in Int /\ MAX_BYTES \in Int
            /\ remaining[t] % LbaSize = 0 /\ off[t] % LbaSize = 0 /\ MAX_BYTES % LbaSize = 0
        BY <3>1, <2>1 DEF LocalsInv
      <4> QED BY <4>1, BlocksAdd, Zenon
    <3>3. call[t].count \in Nat /\ call[t].buf \in Nat /\ call[t].pos \in Nat
      BY <3>1, ChardevAssumption, Zenon DEF LocalsInv, Calls
    <3> QED BY <3>1, <3>2, <3>3, <1>1, <1>4, <2>1, <2>2 DEF LocalsInv
  <2>4. \A u \in Threads \ {t} : LocalsInv(u)' = LocalsInv(u)
    BY <1>1, <2>2 DEF LocalsInv
  <2>5. \A u \in Threads : pc'[u] # "user" => LocalsInv(u)'
    BY <1>2, <2>3, <2>4, Zenon DEF CallsInv
  <2> QED BY <1>1, <1>2, <2>2, <2>5 DEF CallsInv
<1> QED BY <1>1, <1>3, <1>4

(* A call ends.                                                            *)
LEMMA EndInv ==
  ASSUME CallsInv, NEW t \in Threads, pc' = [pc EXCEPT ![t] = "user"],
         call' = [call EXCEPT ![t] = NoCall],
         UNCHANGED <<disk, mem, remaining, buffer, off, lost>>,
         f_pos' \in [Files -> Nat], \A f \in Files : f_pos'[f] % LbaSize = 0
  PROVE  CallsInv'
<1>1. /\ pc' \in [Threads -> {"user", "loop", "wait", "advance"}]
      /\ call' \in [Threads -> Calls \cup {NoCall}]
      /\ pc'[t] = "user" /\ call'[t] = NoCall
      /\ \A u \in Threads \ {t} : pc'[u] = pc[u] /\ call'[u] = call[u]
  BY DEF CallsInv
<1>2. \A u \in Threads \ {t} : LocalsInv(u)' = LocalsInv(u)
  BY <1>1 DEF LocalsInv
<1>3. /\ \A u \in Threads : pc'[u] = "user" <=> call'[u] = NoCall
      /\ \A u \in Threads : pc'[u] # "user" => LocalsInv(u)'
  BY <1>1, <1>2 DEF CallsInv
<1> QED BY <1>1, <1>3 DEF CallsInv

(* With an error, or with its count added to the position.                 *)
LEMMA ReturnsInv ==
  ASSUME CallsInv, NEW t \in Threads, SubmitFails(t) \/ ReadReturns(t) \/ PhysReturns(t)
  PROVE  CallsInv'
<1>1. /\ pc[t] # "user" /\ pc' = [pc EXCEPT ![t] = "user"]
      /\ call' = [call EXCEPT ![t] = NoCall]
      /\ UNCHANGED <<disk, mem, remaining, buffer, off, lost>>
  BY DEF SubmitFails, ReadReturns, PhysReturns
<1> DEFINE c == call[t]
<1>2. /\ c.file \in Files /\ c.count \in Nat /\ c.pos \in Nat
      /\ (c.pos + c.count) % LbaSize = 0 /\ c.count % LbaSize = 0
  <2>1. LocalsInv(t)
    BY <1>1 DEF CallsInv
  <2>2. c.file \in Files /\ c.count \in Nat /\ c.pos \in Nat
    BY <2>1, ChardevAssumption, Zenon DEF LocalsInv, Calls
  <2>3. off[t] + remaining[t] = c.pos + c.count
    BY <2>1, <2>2 DEF LocalsInv
  <2>4. off[t] \in Int /\ remaining[t] \in Int
    BY DEF CallsInv
  <2>5. (c.pos + c.count) % LbaSize = 0
    <3>1. (off[t] + remaining[t]) % LbaSize = 0
      BY <2>1, <2>4, BlocksAdd, Zenon DEF LocalsInv
    <3> QED BY <3>1, <2>3
  <2>6. c.count % LbaSize = 0
    BY <2>1 DEF LocalsInv
  <2> QED BY <2>2, <2>5, <2>6
<1> HIDE DEF c
<1>3. CASE SubmitFails(t)
  BY <1>1, <1>3, EndInv, Zenon DEF SubmitFails, CallsInv
<1>4. CASE ReadReturns(t)
  <2>1. f_pos' = [f_pos EXCEPT ![c.file] = c.pos + c.count]
    BY <1>4 DEF ReadReturns, c
  <2>2. f_pos' \in [Files -> Nat] /\ \A f \in Files : f_pos'[f] % LbaSize = 0
    BY <2>1, <1>2 DEF CallsInv
  <2> QED BY <1>1, <2>2, EndInv, Zenon
<1>5. CASE PhysReturns(t)
  <2>1. f_pos' = [f_pos EXCEPT ![c.file] = f_pos[c.file] + c.count]
    BY <1>5 DEF PhysReturns, c
  <2>2. f_pos[c.file] \in Nat /\ f_pos[c.file] % LbaSize = 0
    BY <1>2 DEF CallsInv
  <2>3. (f_pos[c.file] + c.count) % LbaSize = 0
    <3>1. f_pos[c.file] \in Int /\ c.count \in Int
      BY <2>2, <1>2
    <3> QED BY <3>1, <2>2, <1>2, BlocksAdd, Zenon
  <2>4. f_pos' \in [Files -> Nat] /\ \A f \in Files : f_pos'[f] % LbaSize = 0
    BY <2>1, <2>2, <2>3, <1>2 DEF CallsInv
  <2> QED BY <1>1, <2>4, EndInv, Zenon
<1> QED BY <1>3, <1>4, <1>5

(* Seeking moves a position by whole blocks.                               *)
LEMMA LlseekInv ==
  ASSUME WholeBlocks, CallsInv, NEW t \in Threads, Llseek(t)
  PROVE  CallsInv'
<1>1. UNCHANGED <<disk, mem, call, pc, remaining, buffer, off, lost>>
  BY DEF Llseek
<1>2. f_pos' \in [Files -> Nat] /\ \A f \in Files : f_pos'[f] % LbaSize = 0
  <2>1. CASE UNCHANGED f_pos
    BY <2>1 DEF CallsInv
  <2>2. ASSUME NEW f \in Files, NEW o \in Positions, NEW cur \in BOOLEAN,
               NEW newpos, newpos = o + IF cur THEN f_pos[f] ELSE 0,
               newpos >= 0, f_pos' = [f_pos EXCEPT ![f] = newpos]
        PROVE  f_pos' \in [Files -> Nat] /\ \A g \in Files : f_pos'[g] % LbaSize = 0
    <3>1. o \in Int /\ o % LbaSize = 0 /\ f_pos[f] \in Nat /\ f_pos[f] % LbaSize = 0
      BY ChardevAssumption DEF WholeBlocks, CallsInv
    <3>2. newpos \in Nat /\ newpos % LbaSize = 0
      <4>1. CASE cur
        <5>1. (o + f_pos[f]) % LbaSize = 0
          <6>1. f_pos[f] \in Int
            BY <3>1
          <6> QED BY <6>1, <3>1, BlocksAdd, Zenon
        <5> QED BY <4>1, <5>1, <3>1, <2>2
      <4>2. CASE ~cur
        BY <4>2, <3>1, <2>2
      <4> QED BY <4>1, <4>2
    <3> QED BY <3>2, <2>2 DEF CallsInv
  <2> QED BY <2>1, <2>2 DEF Llseek
<1>3. \A u \in Threads : LocalsInv(u)' = LocalsInv(u)
  BY <1>1 DEF LocalsInv
<1> QED BY <1>1, <1>2, <1>3 DEF CallsInv

-----------------------------------------------------------------------------
(* The bytes in flight.                                                    *)

(* The next transfer is of whole blocks of the call.                       *)
LEMMA NextLenFacts ==
  ASSUME CallsInv, NEW t \in Threads, pc[t] # "user"
  PROVE  /\ NextLen(t) \in Nat /\ NextLen(t) <= MAX_BYTES /\ NextLen(t) <= remaining[t]
         /\ NextLen(t) % LbaSize = 0
         /\ call[t].count \in Nat /\ call[t].buf \in Nat /\ call[t].pos \in Nat
         /\ remaining[t] \in Nat /\ call[t].count - remaining[t] \in Nat
         /\ Submitted(t) \in Nat /\ Submitted(t) <= call[t].count
<1>1. LocalsInv(t) /\ MAX_BYTES \in Nat /\ MAX_BYTES % LbaSize = 0
  BY ChardevAssumption DEF CallsInv
<1>2. call[t].count \in Nat /\ call[t].buf \in Nat /\ call[t].pos \in Nat
  BY <1>1, ChardevAssumption, Zenon DEF LocalsInv, Calls
<1>3. remaining[t] \in Nat /\ remaining[t] <= call[t].count /\ remaining[t] % LbaSize = 0
  BY <1>1 DEF LocalsInv
<1>4. /\ NextLen(t) \in Nat /\ NextLen(t) <= MAX_BYTES /\ NextLen(t) <= remaining[t]
      /\ NextLen(t) % LbaSize = 0
  BY <1>1, <1>3 DEF NextLen
<1>5. Submitted(t) \in Nat /\ Submitted(t) <= call[t].count
  BY <1>2, <1>3, <1>4 DEF Submitted
<1> QED BY <1>2, <1>3, <1>4, <1>5

(* The bytes of a transfer are the next bytes of the call, each with its   *)
(* own place: nothing is lost in block numbers.                            *)
LEMMA TransferIs ==
  ASSUME CallsInv, NEW t \in Threads, pc[t] = "loop", NextLen(t) # 0,
         NEW d, d = call[t].count - remaining[t]
  PROVE  TransferBytes(t, nblocks(NextLen(t)), slba(off[t])) =
           {CallByte(t, k) : k \in d .. (d + NextLen(t)) - 1}
<1> DEFINE c == call[t]
           b == buffer[t]
           o == off[t]
           len == NextLen(t)
<1>1. /\ len \in Nat \ {0} /\ len <= MAX_BYTES /\ len % LbaSize = 0
      /\ c.count \in Nat /\ c.buf \in Nat /\ c.pos \in Nat /\ d \in Nat
  BY NextLenFacts
<1>2. LocalsInv(t)
  BY DEF CallsInv
<1>3. b = c.buf + d /\ o = c.pos + d /\ o % LbaSize = 0 /\ o \in Nat
  BY <1>1, <1>2 DEF LocalsInv
<1>4. (nblocks(len) + 1) * LbaSize = len /\ slba(o) * LbaSize = o
  BY <1>1, <1>3, BlocksExact, Zenon
<1>5. TransferBytes(t, nblocks(len), slba(o)) = {ByteMove(t, b + k, o + k) : k \in 0 .. len - 1}
  BY <1>4 DEF TransferBytes
<1> HIDE DEF c, b, o, len
<1>6. ASSUME NEW k \in 0 .. len - 1
      PROVE  /\ d + k \in d .. (d + len) - 1
             /\ b + k = c.buf + (d + k) /\ o + k = c.pos + (d + k)
  BY <1>1, <1>3
<1>7. ASSUME NEW k \in d .. (d + len) - 1
      PROVE  /\ k - d \in 0 .. len - 1
             /\ b + (k - d) = c.buf + k /\ o + (k - d) = c.pos + k
  BY <1>1, <1>3
<1>8. {ByteMove(t, b + k, o + k) : k \in 0 .. len - 1} =
        {ByteMove(t, c.buf + k, c.pos + k) : k \in d .. (d + len) - 1}
  <2>1. ASSUME NEW k \in 0 .. len - 1
        PROVE  \E j \in d .. (d + len) - 1 :
                 ByteMove(t, b + k, o + k) = ByteMove(t, c.buf + j, c.pos + j)
    BY Zenon, <1>6
  <2>2. ASSUME NEW k \in d .. (d + len) - 1
        PROVE  \E j \in 0 .. len - 1 :
                 ByteMove(t, c.buf + k, c.pos + k) = ByteMove(t, b + j, o + j)
    <3>1. PICK j \in 0 .. len - 1 : b + j = c.buf + k /\ o + j = c.pos + k
      BY Zenon, <1>7
    <3>2. ByteMove(t, c.buf + k, c.pos + k) = ByteMove(t, b + j, o + j)
      BY <3>1 DEF ByteMove
    <3> QED BY Zenon, <3>2
  <2> DEFINE A == {ByteMove(t, b + k, o + k) : k \in 0 .. len - 1}
             B == {ByteMove(t, c.buf + k, c.pos + k) : k \in d .. (d + len) - 1}
  <2>3. ASSUME NEW x \in A PROVE x \in B
    BY Zenon, <2>1
  <2>4. ASSUME NEW x \in B PROVE x \in A
    BY Zenon, <2>2
  <2> HIDE DEF A, B
  <2>5. A = B
    BY Zenon, <2>3, <2>4
  <2> QED BY <2>5 DEF A, B
<1> QED BY Zenon, <1>5, <1>8 DEF CallByte, c, o, len

(* A thread that does not wait has nothing in flight.                      *)
LEMMA NoFlight ==
  ASSUME FlightInv, NEW t, pc[t] # "wait"
  PROVE  \A b \in inflight : b.thread # t
BY DEF FlightInv

(* Steps that leave the waiting call and what is in flight alone.          *)
LEMMA FlightFrame ==
  ASSUME FlightInv, inflight' \subseteq inflight,
         \A t, u \in Threads : pc'[t] = "wait" /\ pc'[u] = "wait" => t = u,
         \A b \in inflight' : /\ pc'[b.thread] = pc[b.thread]
                             /\ call'[b.thread] = call[b.thread]
                             /\ remaining'[b.thread] = remaining[b.thread]
  PROVE  FlightInv'
<1>1. ASSUME NEW b \in inflight'
      PROVE  /\ b.thread \in Threads /\ pc'[b.thread] = "wait"
             /\ \E k \in Sent(b.thread)' :
                  b = CallByte(b.thread, k)'
  <2>1. /\ b.thread \in Threads /\ pc[b.thread] = "wait"
        /\ \E k \in Sent(b.thread) :
             b = CallByte(b.thread, k)
    BY DEF FlightInv
  <2>2. Sent(b.thread)' = Sent(b.thread)
    BY DEF Sent, Submitted, NextLen
  <2>3. \A k : CallByte(b.thread, k)' =
                 CallByte(b.thread, k)
    BY DEF CallByte, ByteMove
  <2> QED BY Zenon, <2>1, <2>2, <2>3
<1> QED BY Zenon, <1>1 DEF FlightInv

(* A step of a thread that neither waits before nor after it.              *)
LEMMA FlightOther ==
  ASSUME IInv, NEW t \in Threads, pc[t] # "wait", pc'[t] # "wait", UNCHANGED inflight,
         \A u \in Threads \ {t} : /\ pc'[u] = pc[u] /\ call'[u] = call[u]
                                  /\ remaining'[u] = remaining[u]
  PROVE  FlightInv'
<1>1. \A b \in inflight : b.thread \in Threads \ {t}
  BY NoFlight DEF IInv, FlightInv
<1>2. \A u, v \in Threads : pc'[u] = "wait" /\ pc'[v] = "wait" => u = v
  BY DEF IInv, FlightInv
<1> QED BY <1>1, <1>2, FlightFrame DEF IInv

(* A transfer is submitted while no other is under way.                    *)
LEMMA SubmitFlight ==
  ASSUME Serialised, IInv, NEW t \in Threads,
         ReadSubmits(t) \/ WriteSubmits(t) \/ PhysSubmits(t)
  PROVE  FlightInv'
<1>1. pc[t] = "loop" /\ SubmitIo(t) /\ UNCHANGED <<call, remaining>>
  BY DEF ReadSubmits, WriteSubmits, PhysSubmits, SubmitIo
<1>2. CASE pc' = [pc EXCEPT ![t] = "advance"] /\ UNCHANGED inflight
  <2>1. pc'[t] # "wait" /\ \A u \in Threads \ {t} : pc'[u] = pc[u]
    BY <1>2 DEF IInv, CallsInv
  <2> QED BY <1>1, <1>2, <2>1, FlightOther
<1>3. CASE /\ NextLen(t) # 0 /\ \A u \in Threads : pc[u] # "wait"
           /\ inflight' = inflight \cup TransferBytes(t, nblocks(NextLen(t)), slba(off[t]))
           /\ pc' = [pc EXCEPT ![t] = "wait"]
  <2> DEFINE d == call[t].count - remaining[t]
  <2>1. inflight = {}
    BY <1>3 DEF IInv, FlightInv
  <2>2. inflight' = {CallByte(t, k) : k \in d .. (d + NextLen(t)) - 1}
    BY <1>1, <1>3, <2>1, TransferIs DEF IInv
  <2>3. pc'[t] = "wait" /\ \A u \in Threads : pc'[u] = "wait" => u = t
    BY <1>3 DEF IInv, CallsInv
  <2>4. Sent(t)' = d .. (d + NextLen(t)) - 1
    BY <1>1, <2>3 DEF Sent, Submitted, NextLen
  <2>5. \A k : CallByte(t, k)' =
                 CallByte(t, k)
    BY <1>1 DEF CallByte, ByteMove
  <2>6. \A b \in inflight' : b.thread = t /\ \E k \in Sent(t)' :
           b = CallByte(t, k)'
    <3>1. ASSUME NEW k PROVE CallByte(t, k).thread = t
      BY DEF CallByte, ByteMove
    <3> QED BY Zenon, <2>2, <2>4, <2>5, <3>1
  <2> QED BY Zenon, <2>3, <2>6 DEF FlightInv
<1> QED BY <1>1, <1>2, <1>3 DEF SubmitIo

(* The bytes in flight stay those of the transfer under way.               *)
LEMMA NextFlight == Serialised /\ IInv /\ [Next]_vars => FlightInv'
<1> SUFFICES ASSUME Serialised, IInv, [Next]_vars PROVE FlightInv'
  OBVIOUS
<1>1. CASE UNCHANGED vars
  <2>1. UNCHANGED <<inflight, pc, call, remaining>>
    BY <1>1 DEF vars
  <2> QED BY <2>1, FlightFrame DEF IInv, FlightInv
<1>2. ASSUME NEW t \in Threads, Enter(t) PROVE FlightInv'
  <2>1. pc[t] = "user" /\ pc'[t] = "loop" /\ UNCHANGED inflight
    BY <1>2 DEF Enter, IInv, CallsInv
  <2>2. \A u \in Threads \ {t} : /\ pc'[u] = pc[u] /\ call'[u] = call[u]
                                 /\ remaining'[u] = remaining[u]
    BY <1>2 DEF Enter, IInv, CallsInv
  <2> QED BY <2>1, <2>2, FlightOther
<1>3. ASSUME NEW t \in Threads, SubmitFails(t) \/ ReadReturns(t) \/ PhysReturns(t)
      PROVE  FlightInv'
  <2>1. /\ pc[t] \in {"loop", "advance"} /\ UNCHANGED <<inflight, remaining>>
        /\ pc' = [pc EXCEPT ![t] = "user"] /\ call' = [call EXCEPT ![t] = NoCall]
    BY <1>3 DEF SubmitFails, ReadReturns, PhysReturns
  <2>2. /\ pc[t] # "wait" /\ pc'[t] # "wait"
        /\ \A u \in Threads \ {t} : /\ pc'[u] = pc[u] /\ call'[u] = call[u]
                                    /\ remaining'[u] = remaining[u]
    BY <2>1 DEF IInv, CallsInv
  <2> QED BY <2>1, <2>2, FlightOther
<1>4. ASSUME NEW t \in Threads, Llseek(t) PROVE FlightInv'
  <2>1. UNCHANGED <<inflight, pc, call, remaining>>
    BY <1>4 DEF Llseek
  <2> QED BY <2>1, FlightFrame DEF IInv, FlightInv
<1>5. ASSUME NEW t \in Threads, TransferReturns(t) PROVE FlightInv'
  <2>1. /\ pc[t] = "wait" /\ UNCHANGED <<inflight, call>>
        /\ \/ pc' = [pc EXCEPT ![t] = "loop"] /\ remaining' = [remaining EXCEPT ![t] = @ - MAX_BYTES]
           \/ pc' = [pc EXCEPT ![t] = "advance"] /\ UNCHANGED remaining
    BY <1>5 DEF TransferReturns, Consume
  <2>2. \A u \in Threads \ {t} : pc[u] # "wait"
    BY <2>1 DEF IInv, FlightInv
  <2>3. \A b \in inflight : b.thread # t
    BY <1>5, <2>2 DEF TransferReturns
  <2>4. inflight = {}
    BY <2>2, <2>3 DEF IInv, FlightInv
  <2>5. \A u \in Threads : pc'[u] # "wait"
    BY <2>1, <2>2 DEF IInv, CallsInv
  <2> QED BY Zenon, <2>1, <2>4, <2>5 DEF FlightInv
<1>6. ASSUME NEW b \in FirstBytes, MoveBlock(b) \/ LoseBlock(b) PROVE FlightInv'
  <2>1. inflight' \subseteq inflight /\ UNCHANGED <<pc, call, remaining>>
    BY <1>6 DEF MoveBlock, LoseBlock
  <2> QED BY <2>1, FlightFrame DEF IInv, FlightInv
<1> QED BY <1>1, <1>2, <1>3, <1>4, <1>5, <1>6, SubmitFlight DEF Next

(* Contents stay functions.                                                *)
LEMMA NextContents == IInv /\ [Next]_vars => ContentsInv'
<1> SUFFICES ASSUME IInv, [Next]_vars PROVE ContentsInv'
  OBVIOUS
<1>1. CASE UNCHANGED <<disk, mem>>
  BY Zenon, <1>1 DEF IInv, ContentsInv
<1>2. ASSUME NEW b \in FirstBytes, MoveBlock(b) PROVE ContentsInv'
  <2>1. b.thread \in Threads
    BY DEF FirstBytes, IInv, FlightInv
  <2>2. CASE b.read
    <3> DEFINE m == [k \in DOMAIN mem[b.thread] |->
                       IF \E c \in BlockOf(b) : c.mem = k THEN disk[k + (b.disk - b.mem)]
                                                       ELSE mem[b.thread][k]]
    <3>1. mem' = [mem EXCEPT ![b.thread] = m] /\ UNCHANGED disk
      BY <1>2, <2>2 DEF MoveBlock
    <3>2. m = [k \in DOMAIN m |-> m[k]]
      OBVIOUS
    <3> HIDE DEF m
    <3>3. \A t \in Threads : mem'[t] = IF t = b.thread THEN m ELSE mem[t]
      BY Zenon, <3>1 DEF IInv, CallsInv
    <3>4. ASSUME NEW t \in Threads PROVE mem'[t] = [k \in DOMAIN mem'[t] |-> mem'[t][k]]
      <4>1. CASE t = b.thread
        <5>1. mem'[t] = m
          BY Zenon, <3>3, <4>1
        <5> QED BY Zenon, <3>2, <5>1
      <4>2. CASE t # b.thread
        <5>1. mem'[t] = mem[t]
          BY Zenon, <3>3, <4>2
        <5>2. mem[t] = [k \in DOMAIN mem[t] |-> mem[t][k]]
          BY Zenon DEF IInv, ContentsInv
        <5> QED BY Zenon, <5>1, <5>2
      <4> QED BY <4>1, <4>2
    <3> QED BY Zenon, <3>1, <3>4 DEF IInv, ContentsInv
  <2>3. CASE ~b.read
    <3> DEFINE m == [k \in DOMAIN disk |->
                       IF \E c \in BlockOf(b) : c.disk = k THEN mem[b.thread][k - (b.disk - b.mem)]
                                                        ELSE disk[k]]
    <3>1. disk' = m /\ UNCHANGED mem
      BY <1>2, <2>3 DEF MoveBlock
    <3>2. m = [k \in DOMAIN m |-> m[k]]
      OBVIOUS
    <3> HIDE DEF m
    <3> QED BY Zenon, <3>1, <3>2 DEF IInv, ContentsInv
  <2> QED BY <2>2, <2>3
<1>3. CASE UNCHANGED vars
  BY <1>1, <1>3 DEF vars
<1>4. ASSUME NEW t \in Threads,
             \/ Enter(t) \/ ReadSubmits(t) \/ WriteSubmits(t) \/ PhysSubmits(t)
             \/ TransferReturns(t) \/ SubmitFails(t)
             \/ ReadReturns(t) \/ PhysReturns(t) \/ Llseek(t)
      PROVE  UNCHANGED <<disk, mem>>
  BY <1>4 DEF Enter, ReadSubmits, WriteSubmits, PhysSubmits, SubmitIo, TransferReturns,
              SubmitFails, ReadReturns, PhysReturns, Llseek
<1>5. ASSUME NEW b \in FirstBytes, LoseBlock(b) PROVE UNCHANGED <<disk, mem>>
  BY <1>5 DEF LoseBlock
<1> QED BY <1>1, <1>2, <1>3, <1>4, <1>5 DEF Next

(* Every step keeps the locals of every call in agreement.                 *)
LEMMA NextInv == Serialised /\ WholeBlocks /\ IInv /\ [Next]_vars => IInv'
<1> SUFFICES ASSUME Serialised, WholeBlocks, IInv, [Next]_vars PROVE IInv'
  OBVIOUS
<1>1. FlightInv' /\ ContentsInv'
  BY NextFlight, NextContents
<1>2. CASE UNCHANGED vars
  BY <1>1, <1>2 DEF vars, IInv, CallsInv, LocalsInv
<1>3. ASSUME NEW t \in Threads,
             \/ Enter(t) \/ ReadSubmits(t) \/ WriteSubmits(t) \/ PhysSubmits(t)
             \/ TransferReturns(t) \/ SubmitFails(t)
             \/ ReadReturns(t) \/ PhysReturns(t) \/ Llseek(t)
      PROVE  CallsInv'
  BY <1>3, EnterInv, SubmitInv, TransferReturnsInv, ReturnsInv, LlseekInv DEF IInv
<1>4. ASSUME NEW b \in FirstBytes, MoveBlock(b) \/ LoseBlock(b) PROVE CallsInv'
  <2>1. b.thread \in Threads
    BY DEF FirstBytes, IInv, FlightInv
  <2> QED BY <1>4, <2>1, SettleInv DEF IInv
<1> QED BY <1>1, <1>2, <1>3, <1>4 DEF Next, IInv

-----------------------------------------------------------------------------
(* The refinement.                                                         *)

(* The bytes that the calls have settled, as CharFile has them.            *)
Done == [t \in Threads |-> Settled(t)]

(* What is settled of a call depends on its own bytes.                     *)
LEMMA SettledSame ==
  ASSUME NEW t, Submitted(t)' = Submitted(t), call'[t] = call[t],
         \A b : b.thread = t => (b \in inflight' <=> b \in inflight)
  PROVE  Settled(t)' = Settled(t)
<1>1. \A k : CallByte(t, k)' = CallByte(t, k) /\ CallByte(t, k).thread = t
  BY DEF CallByte, ByteMove
<1> QED BY <1>1 DEF Settled

(* A step of one thread leaves what the others have settled alone.         *)
LEMMA DoneUpdate ==
  ASSUME NEW t \in Threads, NEW d, Settled(t)' = d,
         \A u \in Threads \ {t} : /\ call'[u] = call[u] /\ pc'[u] = pc[u]
                                /\ remaining'[u] = remaining[u],
         \A b : b.thread # t => (b \in inflight' <=> b \in inflight)
  PROVE  Done' = [Done EXCEPT ![t] = d]
<1>1. ASSUME NEW u \in Threads \ {t} PROVE Settled(u)' = Settled(u)
  <2>1. Submitted(u)' = Submitted(u)
    BY DEF Submitted, NextLen
  <2> QED BY <2>1, SettledSame
<1>2. Done' = [u \in Threads |-> Settled(u)']
  BY DEF Done
<1>3. [Done EXCEPT ![t] = d] = [u \in Threads |-> IF u = t THEN d ELSE Settled(u)]
  BY Zenon DEF Done
<1>4. \A u \in Threads : Settled(u)' = IF u = t THEN d ELSE Settled(u)
  BY <1>1
<1> QED BY <1>2, <1>3, <1>4, Zenon

(* The initial states are those of CharFile.                               *)
LEMMA RefineInit == Init => Abstract!Init
<1> SUFFICES ASSUME Init PROVE Abstract!Init
  OBVIOUS
<1>1. \A t \in Threads : Settled(t) = {}
  <2>1. \A t \in Threads : Submitted(t) = 0
    BY DEF Init, Submitted
  <2>2. 0 .. 0 - 1 = {}
    OBVIOUS
  <2> QED BY <2>1, <2>2 DEF Settled
<1>2. [t \in Threads |-> Settled(t)] = [t \in Threads |-> {}]
  BY <1>1
<1> QED BY <1>2 DEF Init, Abstract!Init, Abstract!DiskContents, Abstract!MemContents

(* A call begins.                                                          *)
LEMMA RefineEnter ==
  ASSUME IInv, NEW t \in Threads, Enter(t)
  PROVE  Abstract!Begin(t)
<1>1. PICK f \in Files, op \in Ops, b \in Buffers, n \in Counts :
        /\ f_pos[f] + n <= DiskBytes /\ b + n <= MemBytes
        /\ call' = [call EXCEPT ![t] = [op |-> op, file |-> f, buf |-> b,
                                        count |-> n, pos |-> f_pos[f]]]
        /\ buffer' = [buffer EXCEPT ![t] = b]
        /\ remaining' = [remaining EXCEPT ![t] = n]
        /\ off' = [off EXCEPT ![t] = f_pos[f]]
  BY Zenon DEF Enter
<1>2. pc[t] = "user" /\ pc' = [pc EXCEPT ![t] = "loop"]
      /\ lost' = [lost EXCEPT ![t] = FALSE] /\ UNCHANGED <<disk, mem, f_pos, inflight, ret>>
  BY DEF Enter
<1>3. call[t] = NoCall
  BY <1>2 DEF IInv, CallsInv
<1>4. Settled(t)' = {}
  <2>1. /\ call'[t].count = n /\ remaining'[t] = n /\ pc'[t] = "loop" /\ n \in Nat
    BY <1>1, <1>2, ChardevAssumption DEF IInv, CallsInv
  <2>2. Submitted(t)' = 0
    BY <2>1 DEF Submitted
  <2>3. 0 .. 0 - 1 = {}
    OBVIOUS
  <2> QED BY <2>2, <2>3 DEF Settled
<1>5. Done' = [Done EXCEPT ![t] = {}]
  <2>1. \A u \in Threads \ {t} : /\ call'[u] = call[u] /\ pc'[u] = pc[u]
                                /\ remaining'[u] = remaining[u]
    BY <1>1, <1>2 DEF IInv, CallsInv
  <2> QED BY <1>2, <1>4, <2>1, DoneUpdate
<1>6. \E g \in Files, o \in Abstract!Ops, a \in Buffers, m \in Counts :
        /\ f_pos[g] + m <= DiskBytes /\ a + m <= MemBytes
        /\ call' = [call EXCEPT ![t] = [op |-> o, file |-> g, buf |-> a,
                                        count |-> m, pos |-> f_pos[g]]]
  BY <1>1, Zenon DEF Ops, Abstract!Ops
<1> QED BY <1>2, <1>3, <1>5, <1>6, Zenon DEF Abstract!Begin, Done

(* Bytes that are submitted are not settled yet.                           *)
LEMMA RefineSubmit ==
  ASSUME Serialised, IInv, NEW t \in Threads,
         ReadSubmits(t) \/ WriteSubmits(t) \/ PhysSubmits(t)
  PROVE  UNCHANGED Abstract!vars
<1>1. /\ pc[t] = "loop" /\ SubmitIo(t)
      /\ UNCHANGED <<disk, mem, f_pos, call, remaining, lost, ret>>
  BY DEF ReadSubmits, WriteSubmits, PhysSubmits, SubmitIo
<1> DEFINE d == call[t].count - remaining[t]
<1>2. /\ d \in Nat /\ NextLen(t) \in Nat /\ Submitted(t) = d
      /\ call[t].count \in Nat /\ remaining[t] \in Nat
      /\ call[t].buf \in Nat /\ call[t].pos \in Nat
  BY <1>1, NextLenFacts DEF IInv, Submitted
<1>3. \A b \in inflight : b.thread # t
  BY <1>1, NoFlight DEF IInv
<1>4. /\ \A u \in Threads \ {t} : /\ call'[u] = call[u] /\ pc'[u] = pc[u]
                                  /\ remaining'[u] = remaining[u]
      /\ pc'[t] \in {"wait", "advance"}
  BY <1>1 DEF SubmitIo, IInv, CallsInv
<1>5. CASE NextLen(t) = 0 /\ pc' = [pc EXCEPT ![t] = "advance"] /\ UNCHANGED inflight
  <2>1. pc'[t] = "advance"
    BY <1>5 DEF IInv, CallsInv
  <2>2. remaining[t] = 0
    BY <1>2, <1>5, ChardevAssumption DEF NextLen
  <2>3. Submitted(t)' = Submitted(t)
    BY <1>1, <1>2, <2>1, <2>2 DEF Submitted
  <2>4. Settled(t)' = Settled(t)
    BY <1>1, <1>5, <2>3, SettledSame
  <2>5. Done' = [Done EXCEPT ![t] = Settled(t)]
    BY <1>4, <1>5, <2>4, DoneUpdate
  <2> QED BY <1>1, <2>5 DEF Abstract!vars, Done
<1>6. CASE /\ NextLen(t) # 0
           /\ inflight' = inflight \cup TransferBytes(t, nblocks(NextLen(t)), slba(off[t]))
           /\ pc' = [pc EXCEPT ![t] = "wait"]
  <2> DEFINE F == {CallByte(t, k) : k \in d .. (d + NextLen(t)) - 1}
  <2>1. inflight' = inflight \cup F
    BY <1>1, <1>6, TransferIs DEF IInv
  <2>2. \A b \in F : b.thread = t
    BY DEF CallByte, ByteMove
  <2>3. Submitted(t)' = d + NextLen(t)
    <3>1. pc'[t] = "wait"
      BY <1>6 DEF IInv, CallsInv
    <3> QED BY <1>1, <3>1 DEF Submitted, NextLen
  <2>4. \A k : CallByte(t, k)' = CallByte(t, k) /\ CallByte(t, k).thread = t
    BY <1>1 DEF CallByte, ByteMove
  <2>5. \A k \in Nat : CallByte(t, k) \in F <=> k \in d .. (d + NextLen(t)) - 1
    <3>1. ASSUME NEW k \in Nat, NEW j \in d .. (d + NextLen(t)) - 1,
                 CallByte(t, k) = CallByte(t, j)
          PROVE  k = j
      <4>1. CallByte(t, k).mem = call[t].buf + k /\ CallByte(t, j).mem = call[t].buf + j
        BY DEF CallByte, ByteMove
      <4>2. j \in Int
        BY <1>2
      <4>3. call[t].buf + k = call[t].buf + j
        BY Zenon, <3>1, <4>1
      <4> QED BY <1>2, <4>2, <4>3
    <3> QED BY Zenon, <3>1
  <2> HIDE DEF F
  <2>6. \A k \in Nat : CallByte(t, k)' \in inflight' <=> k \in d .. (d + NextLen(t)) - 1
    BY <1>3, <2>1, <2>4, <2>5
  <2>7. Settled(t)' = 0 .. d - 1
    <3>1. Settled(t)' = {k \in 0 .. (d + NextLen(t)) - 1 : CallByte(t, k)' \notin inflight'}
      BY <2>3 DEF Settled
    <3> HIDE DEF d
    <3> QED BY <1>2, <2>6, <3>1
  <2>8. Settled(t) = 0 .. d - 1
    BY <1>2, <1>3, <2>4 DEF Settled
  <2>9. \A b : b.thread # t => (b \in inflight' <=> b \in inflight)
    BY <2>1, <2>2
  <2>10. Done' = [Done EXCEPT ![t] = Settled(t)]
    BY <1>4, <2>7, <2>8, <2>9, DoneUpdate
  <2> QED BY <1>1, <2>10 DEF Abstract!vars, Done
<1> QED BY <1>1, <1>5, <1>6 DEF SubmitIo

(* A transfer that returns settles nothing more.                           *)
LEMMA RefineTransferReturns ==
  ASSUME IInv, NEW t \in Threads, TransferReturns(t)
  PROVE  UNCHANGED Abstract!vars
<1>1. /\ pc[t] = "wait" /\ UNCHANGED <<disk, mem, f_pos, call, inflight, lost, ret>>
      /\ \/ /\ remaining[t] > MAX_BYTES
            /\ pc' = [pc EXCEPT ![t] = "loop"]
            /\ remaining' = [remaining EXCEPT ![t] = @ - MAX_BYTES]
         \/ /\ remaining[t] <= MAX_BYTES
            /\ pc' = [pc EXCEPT ![t] = "advance"] /\ UNCHANGED remaining
  BY DEF TransferReturns, Consume
<1>2. call[t].count \in Nat /\ remaining[t] \in Nat /\ MAX_BYTES \in Nat
  BY <1>1, NextLenFacts, ChardevAssumption DEF IInv
<1>3. Submitted(t)' = Submitted(t)
  <2>1. Submitted(t) = (call[t].count - remaining[t]) + NextLen(t)
    BY <1>1 DEF Submitted
  <2>2. CASE remaining[t] > MAX_BYTES
    <3>1. pc'[t] = "loop" /\ remaining'[t] = remaining[t] - MAX_BYTES
      BY <1>1, <1>2, <2>2 DEF IInv, CallsInv
    <3> QED BY <1>1, <1>2, <2>1, <2>2, <3>1 DEF Submitted, NextLen
  <2>3. CASE remaining[t] <= MAX_BYTES
    <3>1. pc'[t] = "advance"
      BY <1>1, <1>2, <2>3 DEF IInv, CallsInv
    <3> QED BY <1>1, <1>2, <2>1, <2>3, <3>1 DEF Submitted, NextLen
  <2> QED BY <1>2, <2>2, <2>3
<1>4. Settled(t)' = Settled(t)
  BY <1>1, <1>3, SettledSame
<1>5. \A u \in Threads \ {t} : /\ call'[u] = call[u] /\ pc'[u] = pc[u]
                              /\ remaining'[u] = remaining[u]
  BY <1>1 DEF IInv, CallsInv
<1>6. Done' = [Done EXCEPT ![t] = Settled(t)]
  BY <1>1, <1>4, <1>5, DoneUpdate
<1> QED BY <1>1, <1>6 DEF Abstract!vars, Done

(* The bytes of the call of t that are in a set of bytes in flight.        *)
In(t, block) == {k \in 0 .. Submitted(t) - 1 : CallByte(t, k) \in block}

(* A block in flight is of the transfer under way: byte for byte, it is of *)
(* the call, at the call's own distance between buffer and disk.           *)
LEMMA BlockFacts ==
  ASSUME IInv, NEW b \in FirstBytes, NEW t, t = b.thread
  PROVE  /\ t \in Threads /\ pc[t] = "wait" /\ call[t] # NoCall
         /\ b \in BlockOf(b) /\ BlockOf(b) \subseteq inflight
         /\ b.read = IsRead(call[t].op)
         /\ b.disk - b.mem = call[t].pos - call[t].buf
         /\ \A c \in BlockOf(b) : \E k \in 0 .. Submitted(t) - 1 : c = CallByte(t, k)
         /\ In(t, BlockOf(b)) # {}
         /\ In(t, BlockOf(b)) \subseteq (0 .. call[t].count - 1) \ Settled(t)
<1>1. b \in inflight
  BY DEF FirstBytes
<1>2. /\ t \in Threads /\ pc[t] = "wait"
      /\ \E k \in Sent(t) : b = CallByte(t, k)
  BY <1>1 DEF IInv, FlightInv
<1>3. /\ call[t].count \in Nat /\ call[t].buf \in Nat /\ call[t].pos \in Nat
      /\ call[t].count - remaining[t] \in Nat
      /\ Submitted(t) \in Nat /\ Submitted(t) <= call[t].count
  BY <1>2, NextLenFacts DEF IInv
<1>4. ASSUME NEW k \in Sent(t) PROVE k \in 0 .. Submitted(t) - 1 /\ k \in Nat
  <2> DEFINE from == call[t].count - remaining[t]
             to == Submitted(t)
  <2>1. k \in from .. to - 1 /\ from \in Nat /\ to \in Nat
    BY <1>3 DEF Sent
  <2> HIDE DEF from, to
  <2>2. k \in 0 .. to - 1 /\ k \in Nat
    BY <2>1
  <2> QED BY <2>2 DEF to
<1>5. PICK j \in Sent(t) : b = CallByte(t, j)
  BY <1>2
<1>6. b.read = IsRead(call[t].op) /\ b.mem = call[t].buf + j /\ b.disk = call[t].pos + j
  BY <1>5 DEF CallByte, ByteMove
<1>7. b.disk - b.mem = call[t].pos - call[t].buf
  <2>1. j \in Nat
    BY <1>4
  <2> QED BY <1>3, <1>6, <2>1
<1>8. b \in BlockOf(b) /\ BlockOf(b) \subseteq inflight
  <2>1. b.disk - b.disk \in 0 .. LbaSize - 1
    <3>1. b.disk \in Int
      BY <1>3, <1>4, <1>6
    <3> QED BY <3>1, ChardevAssumption
  <2> QED BY <1>1, <2>1 DEF BlockOf
<1>9. ASSUME NEW c \in BlockOf(b)
      PROVE  \E k \in 0 .. Submitted(t) - 1 : c = CallByte(t, k)
  <2>1. c \in inflight /\ c.thread = t
    BY DEF BlockOf
  <2>2. \E k \in Sent(t) : c = CallByte(t, k)
    BY <2>1 DEF IInv, FlightInv
  <2> QED BY <1>4, <2>2
<1>10. j \in In(t, BlockOf(b))
  BY Zenon, <1>4, <1>5, <1>8 DEF In
<1>11. ASSUME NEW k \in In(t, BlockOf(b))
       PROVE  k \in 0 .. call[t].count - 1 /\ k \notin Settled(t)
  <2>1. k \in 0 .. Submitted(t) - 1 /\ CallByte(t, k) \in inflight
    BY Zenon, <1>8 DEF In
  <2>2. k \in 0 .. call[t].count - 1
    BY <1>3, <2>1
  <2> QED BY Zenon, <2>1, <2>2 DEF Settled
<1>12. call[t] # NoCall
  BY <1>2 DEF IInv, CallsInv
<1> QED BY Zenon, <1>2, <1>6, <1>7, <1>8, <1>9, <1>10, <1>11, <1>12

(* When the controller is done with a block, its bytes are settled.        *)
LEMMA SettledBlock ==
  ASSUME IInv, NEW b \in FirstBytes, NEW t, t = b.thread,
         inflight' = inflight \ BlockOf(b), UNCHANGED <<call, pc, remaining>>
  PROVE  Done' = [Done EXCEPT ![t] = @ \cup In(t, BlockOf(b))]
<1>1. t \in Threads /\ BlockOf(b) \subseteq inflight
  BY BlockFacts
<1>2. Submitted(t)' = Submitted(t) /\ \A k : CallByte(t, k)' = CallByte(t, k)
  BY DEF Submitted, NextLen, CallByte, ByteMove
<1>3. Settled(t)' = Settled(t) \cup In(t, BlockOf(b))
  BY <1>1, <1>2 DEF Settled, In
<1>4. \A c : c.thread # t => (c \in inflight' <=> c \in inflight)
  BY DEF BlockOf
<1>5. Done[t] = Settled(t)
  BY <1>1 DEF Done
<1> QED BY <1>1, <1>3, <1>4, <1>5, DoneUpdate

(* A block that is moved: CharFile moves the same bytes.                   *)
LEMMA RefineMove ==
  ASSUME IInv, NEW b \in FirstBytes, NEW t, t = b.thread, MoveBlock(b)
  PROVE  t \in Threads /\ Abstract!Progress(t)
<1> DEFINE block == BlockOf(b)
           S == In(t, block)
           c == call[t]
<1>1. /\ t \in Threads /\ pc[t] = "wait" /\ c # NoCall
      /\ b.read = IsRead(c.op) /\ b.disk - b.mem = c.pos - c.buf
      /\ \A x \in block : \E k \in 0 .. Submitted(t) - 1 : x = CallByte(t, k)
      /\ S \subseteq (0 .. c.count - 1) \ Settled(t)
  BY BlockFacts
<1>2. c.buf \in Nat /\ c.pos \in Nat /\ Submitted(t) \in Nat
  BY <1>1, NextLenFacts DEF IInv
<1>3. /\ inflight' = inflight \ block
      /\ UNCHANGED <<f_pos, call, pc, remaining, lost, ret>>
  BY DEF MoveBlock
<1>4. Done' = [Done EXCEPT ![t] = @ \cup S]
  BY <1>3, SettledBlock
<1>5. \A k : CallByte(t, k).mem = c.buf + k /\ CallByte(t, k).disk = c.pos + k
  BY DEF CallByte, ByteMove
<1>6. \A k \in Int : /\ (\E x \in block : x.mem = k) <=> k - c.buf \in S
                     /\ (\E x \in block : x.disk = k) <=> k - c.pos \in S
                     /\ k + (b.disk - b.mem) = c.pos + (k - c.buf)
                     /\ k - (b.disk - b.mem) = c.buf + (k - c.pos)
  <2> SUFFICES ASSUME NEW k \in Int
               PROVE  /\ (\E x \in block : x.mem = k) <=> k - c.buf \in S
                      /\ (\E x \in block : x.disk = k) <=> k - c.pos \in S
                      /\ k + (b.disk - b.mem) = c.pos + (k - c.buf)
                      /\ k - (b.disk - b.mem) = c.buf + (k - c.pos)
    OBVIOUS
  <2>1. /\ k + (b.disk - b.mem) = c.pos + (k - c.buf)
        /\ k - (b.disk - b.mem) = c.buf + (k - c.pos)
    BY <1>1, <1>2
  <2>2. ASSUME NEW x \in block
        PROVE  x.mem - c.buf \in S /\ x.disk - c.pos \in S
    <3>1. PICK j \in 0 .. Submitted(t) - 1 : x = CallByte(t, j)
      BY <1>1
    <3>2. x.mem - c.buf = j /\ x.disk - c.pos = j
      BY <1>2, <1>5, <3>1
    <3>3. j \in S
      BY Zenon, <3>1 DEF In
    <3> QED BY <3>2, <3>3
  <2>3. ASSUME k - c.buf \in S PROVE \E x \in block : x.mem = k
    <3>1. CallByte(t, k - c.buf) \in block
      BY Zenon, <2>3 DEF In
    <3>2. CallByte(t, k - c.buf).mem = k
      BY <1>2, <1>5
    <3> QED BY Zenon, <3>1, <3>2
  <2>4. ASSUME k - c.pos \in S PROVE \E x \in block : x.disk = k
    <3>1. CallByte(t, k - c.pos) \in block
      BY Zenon, <2>4 DEF In
    <3>2. CallByte(t, k - c.pos).disk = k
      BY <1>2, <1>5
    <3> QED BY Zenon, <3>1, <3>2
  <2> QED BY Zenon, <2>1, <2>2, <2>3, <2>4
<1>7. DOMAIN mem[t] \subseteq Int /\ DOMAIN disk \subseteq Int
  <2>1. DOMAIN mem[t] = 0 .. MemBytes - 1 /\ DOMAIN disk = 0 .. DiskBytes - 1
    BY Zenon, <1>1 DEF IInv, CallsInv
  <2>2. \A n : 0 .. n \subseteq Int
    OBVIOUS
  <2> QED BY Zenon, <2>1, <2>2
<1>8. Abstract!IsRead(c.op) = IsRead(c.op)
  BY DEF IsRead, Abstract!IsRead
<1>9. Abstract!Move(t, S)
  <2>1. CASE b.read
    <3>1. /\ mem' = [mem EXCEPT ![t] =
               [k \in DOMAIN mem[t] |->
                  IF \E x \in block : x.mem = k THEN disk[k + (b.disk - b.mem)]
                                              ELSE mem[t][k]]]
          /\ UNCHANGED disk
      BY <2>1 DEF MoveBlock
    <3>2. [k \in DOMAIN mem[t] |->
             IF \E x \in block : x.mem = k THEN disk[k + (b.disk - b.mem)] ELSE mem[t][k]]
          = [k \in DOMAIN mem[t] |->
               IF k - c.buf \in S THEN disk[c.pos + (k - c.buf)] ELSE mem[t][k]]
      BY Zenon, <1>6, <1>7
    <3> QED BY Zenon, <1>1, <1>8, <2>1, <3>1, <3>2 DEF Abstract!Move
  <2>2. CASE ~b.read
    <3>1. /\ disk' = [k \in DOMAIN disk |->
               IF \E x \in block : x.disk = k THEN mem[t][k - (b.disk - b.mem)] ELSE disk[k]]
          /\ UNCHANGED mem
      BY <2>2 DEF MoveBlock
    <3>2. [k \in DOMAIN disk |->
             IF \E x \in block : x.disk = k THEN mem[t][k - (b.disk - b.mem)] ELSE disk[k]]
          = [k \in DOMAIN disk |->
               IF k - c.pos \in S THEN mem[t][c.buf + (k - c.pos)] ELSE disk[k]]
      BY Zenon, <1>6, <1>7
    <3> QED BY Zenon, <1>1, <1>8, <2>2, <3>1, <3>2 DEF Abstract!Move
  <2> QED BY <2>1, <2>2
<1>10. lost' = [lost EXCEPT ![t] = @ \/ S # S]
  BY Zenon, <1>3 DEF IInv, CallsInv
<1>11. S \in SUBSET (Abstract!Bytes(c) \ Done[t]) /\ S \in SUBSET S
  BY <1>1 DEF Abstract!Bytes, Done
<1> HIDE DEF S, block, c
<1>12. Abstract!Progress(t)
  BY Zenon, <1>1, <1>3, <1>4, <1>9, <1>10, <1>11 DEF Abstract!Progress, Done, c
<1> QED BY Zenon, <1>1, <1>12

(* A block that is lost: CharFile loses the same bytes.                    *)
LEMMA RefineLose ==
  ASSUME IInv, NEW b \in FirstBytes, NEW t, t = b.thread, LoseBlock(b)
  PROVE  t \in Threads /\ Abstract!Progress(t)
<1> DEFINE S == In(t, BlockOf(b))
           c == call[t]
<1>1. /\ t \in Threads /\ c # NoCall /\ S # {}
      /\ S \subseteq (0 .. c.count - 1) \ Settled(t)
  BY BlockFacts
<1>2. /\ inflight' = inflight \ BlockOf(b) /\ lost' = [lost EXCEPT ![t] = TRUE]
      /\ UNCHANGED <<disk, mem, f_pos, call, pc, remaining, ret>>
  BY DEF LoseBlock
<1>3. Done' = [Done EXCEPT ![t] = @ \cup S]
  BY <1>2, SettledBlock
<1>4. Abstract!Move(t, {})
  <2>1. mem = [mem EXCEPT ![t] = mem[t]]
    BY <1>1 DEF IInv, CallsInv
  <2>2. mem[t] = [k \in DOMAIN mem[t] |-> mem[t][k]] /\ disk = [k \in DOMAIN disk |-> disk[k]]
    BY Zenon, <1>1 DEF IInv, ContentsInv
  <2>3. /\ [k \in DOMAIN mem[t] |-> IF k - c.buf \in {} THEN disk[c.pos + (k - c.buf)] ELSE mem[t][k]]
           = mem[t]
        /\ [k \in DOMAIN disk |-> IF k - c.pos \in {} THEN mem[t][c.buf + (k - c.pos)] ELSE disk[k]]
           = disk
    BY Zenon, <2>2
  <2> QED BY Zenon, <1>2, <2>1, <2>3 DEF Abstract!Move
<1>5. lost' = [lost EXCEPT ![t] = @ \/ {} # S]
  BY Zenon, <1>1, <1>2 DEF IInv, CallsInv
<1>6. S \in SUBSET (Abstract!Bytes(c) \ Done[t]) /\ {} \in SUBSET S
  BY <1>1 DEF Abstract!Bytes, Done
<1> HIDE DEF S, c
<1>7. Abstract!Progress(t)
  BY Zenon, <1>1, <1>2, <1>3, <1>4, <1>5, <1>6 DEF Abstract!Progress, Done, c
<1> QED BY Zenon, <1>1, <1>7

(* A call ends: CharFile has nothing settled for the thread.               *)
LEMMA RefineEnd ==
  ASSUME IInv, NEW t \in Threads, pc[t] # "wait", pc' = [pc EXCEPT ![t] = "user"],
         call' = [call EXCEPT ![t] = NoCall], UNCHANGED <<remaining, inflight>>
  PROVE  Done' = [Done EXCEPT ![t] = {}]
<1>1. Settled(t)' = {}
  <2>1. Submitted(t)' = 0
    BY DEF Submitted, IInv, CallsInv
  <2>2. 0 .. 0 - 1 = {}
    OBVIOUS
  <2> QED BY <2>1, <2>2 DEF Settled
<1>2. \A u \in Threads \ {t} : /\ call'[u] = call[u] /\ pc'[u] = pc[u]
                              /\ remaining'[u] = remaining[u]
  BY DEF IInv, CallsInv
<1> QED BY <1>1, <1>2, DoneUpdate

(* With an error of the driver.                                            *)
LEMMA RefineFails ==
  ASSUME ErrorsKnown, IInv, NEW t \in Threads, SubmitFails(t)
  PROVE  Abstract!Fail(t)
<1>1. /\ pc[t] = "loop" /\ pc' = [pc EXCEPT ![t] = "user"]
      /\ call' = [call EXCEPT ![t] = NoCall]
      /\ UNCHANGED <<disk, mem, f_pos, remaining, inflight, lost>>
  BY DEF SubmitFails
<1>2. call[t] # NoCall
  BY <1>1 DEF IInv, CallsInv
<1>3. \E e \in Errors : ret' = [ret EXCEPT ![t] = e]
  <2>1. PICK r \in Results \ {0} : ret' = [ret EXCEPT ![t] = IF r > 0 THEN EIO ELSE r]
    BY Zenon DEF SubmitFails
  <2>2. (IF r > 0 THEN EIO ELSE r) \in Errors
    BY ChardevAssumption DEF ErrorsKnown
  <2> QED BY <2>1, <2>2, Zenon
<1>4. Done' = [Done EXCEPT ![t] = {}]
  BY <1>1, RefineEnd
<1> QED BY <1>1, <1>2, <1>3, <1>4, Zenon DEF Abstract!Fail, Done

(* With its count: then every byte of it is settled.                       *)
LEMMA RefineReturns ==
  ASSUME IInv, NEW t \in Threads, ReadReturns(t) \/ PhysReturns(t)
  PROVE  Abstract!Succeed(t)
<1>1. /\ pc[t] = "advance" /\ pc' = [pc EXCEPT ![t] = "user"]
      /\ call' = [call EXCEPT ![t] = NoCall]
      /\ ret' = [ret EXCEPT ![t] = call[t].count]
      /\ UNCHANGED <<disk, mem, remaining, inflight, lost>>
  BY DEF ReadReturns, PhysReturns
<1>2. call[t] # NoCall /\ LocalsInv(t)
  BY <1>1 DEF IInv, CallsInv
<1>3. call[t].count \in Nat /\ call[t].pos \in Nat /\ f_pos[call[t].file] \in Nat
  BY <1>2, ChardevAssumption DEF LocalsInv, Calls, IInv, CallsInv
<1>4. f_pos' = [f_pos EXCEPT ![call[t].file] = Abstract!NewPos(call[t])]
  <2>1. CASE ReadReturns(t)
    <3>1. /\ call[t].op \in {"read", "write"}
          /\ f_pos' = [f_pos EXCEPT ![call[t].file] = call[t].pos + call[t].count]
      BY <2>1 DEF ReadReturns
    <3>2. Abstract!NewPos(call[t]) = call[t].pos + call[t].count
      BY <3>1, <1>3 DEF Abstract!NewPos
    <3> QED BY <3>1, <3>2
  <2>2. CASE PhysReturns(t)
    <3>1. /\ call[t].op \notin {"read", "write"}
          /\ f_pos' = [f_pos EXCEPT ![call[t].file] = f_pos[call[t].file] + call[t].count]
      BY <2>2 DEF PhysReturns
    <3>2. Abstract!NewPos(call[t]) = f_pos[call[t].file] + call[t].count
      BY <3>1, <1>3 DEF Abstract!NewPos
    <3> QED BY <3>1, <3>2
  <2> QED BY <2>1, <2>2
<1>5. Done' = [Done EXCEPT ![t] = {}]
  BY <1>1, RefineEnd
<1>6. Done[t] = Abstract!Bytes(call[t])
  <2>1. Submitted(t) = call[t].count
    BY <1>1 DEF Submitted
  <2>2. \A k : CallByte(t, k) \notin inflight
    <3>1. \A k : CallByte(t, k).thread = t
      BY DEF CallByte, ByteMove
    <3>2. \A b \in inflight : b.thread # t
      BY <1>1, NoFlight DEF IInv
    <3> QED BY Zenon, <3>1, <3>2
  <2>3. Settled(t) = 0 .. call[t].count - 1
    BY <2>1, <2>2 DEF Settled
  <2> QED BY Zenon, <2>3 DEF Done, Abstract!Bytes
<1> QED BY Zenon, <1>1, <1>2, <1>4, <1>5, <1>6 DEF Abstract!Succeed, Done

(* Seeking.                                                                *)
LEMMA RefineLlseek ==
  ASSUME ErrorsKnown, IInv, NEW t \in Threads, Llseek(t)
  PROVE  Abstract!Seek(t)
<1>1. pc[t] = "user" /\ UNCHANGED <<disk, mem, call, pc, remaining, inflight, lost>>
  BY DEF Llseek
<1>2. call[t] = NoCall
  BY <1>1 DEF IInv, CallsInv
<1>3. Done' = Done
  BY <1>1 DEF Done, Settled, Submitted, NextLen, CallByte, ByteMove
<1>4. \/ \E f \in Files, p \in 0 .. DiskBytes :
           p >= 0 /\ f_pos' = [f_pos EXCEPT ![f] = p] /\ ret' = [ret EXCEPT ![t] = p]
      \/ (\E e \in Errors : ret' = [ret EXCEPT ![t] = e]) /\ UNCHANGED f_pos
  <2>1. ASSUME NEW e \in {ESPIPE, EINVAL}, ret' = [ret EXCEPT ![t] = e], UNCHANGED f_pos
        PROVE  (\E x \in Errors : ret' = [ret EXCEPT ![t] = x]) /\ UNCHANGED f_pos
    BY <2>1, Zenon DEF ErrorsKnown
  <2>2. CASE ret' = [ret EXCEPT ![t] = EINVAL] /\ UNCHANGED f_pos
    BY <2>2, Zenon DEF ErrorsKnown
  <2>3. ASSUME NEW f \in Files, NEW o \in Positions, NEW cur \in BOOLEAN,
               NEW p, p = o + IF cur THEN f_pos[f] ELSE 0, p <= DiskBytes, p >= 0,
               f_pos' = [f_pos EXCEPT ![f] = p], ret' = [ret EXCEPT ![t] = p]
        PROVE  \E g \in Files, q \in 0 .. DiskBytes :
                 q >= 0 /\ f_pos' = [f_pos EXCEPT ![g] = q] /\ ret' = [ret EXCEPT ![t] = q]
    <3>1. p \in 0 .. DiskBytes
      BY <2>3, ChardevAssumption DEF IInv, CallsInv
    <3> QED BY <2>3, <3>1, Zenon
  <2> QED BY <2>1, <2>2, <2>3 DEF Llseek
<1> QED BY <1>1, <1>2, <1>3, <1>4 DEF Abstract!Seek, Done

(* Every step of the code is a step of CharFile or changes nothing in it.  *)
LEMMA RefineNext ==
  Serialised /\ ErrorsKnown /\ IInv /\ [Next]_vars => [Abstract!Next]_(Abstract!vars)
<1> SUFFICES ASSUME Serialised, ErrorsKnown, IInv, [Next]_vars
             PROVE  Abstract!Next \/ UNCHANGED Abstract!vars
  OBVIOUS
<1>1. CASE UNCHANGED vars
  <2>1. UNCHANGED <<disk, mem, f_pos, call, pc, remaining, inflight, lost, ret>>
    BY <1>1 DEF vars
  <2>2. Done' = Done
    BY <2>1 DEF Done, Settled, Submitted, NextLen, CallByte, ByteMove
  <2> QED BY <2>1, <2>2 DEF Abstract!vars, Done
<1>2. ASSUME NEW t \in Threads, Enter(t) PROVE Abstract!Next
  BY <1>2, RefineEnter DEF Abstract!Next
<1>3. ASSUME NEW t \in Threads,
             ReadSubmits(t) \/ WriteSubmits(t) \/ PhysSubmits(t) \/ TransferReturns(t)
      PROVE  UNCHANGED Abstract!vars
  BY <1>3, RefineSubmit, RefineTransferReturns
<1>4. ASSUME NEW b \in FirstBytes, MoveBlock(b) \/ LoseBlock(b) PROVE Abstract!Next
  <2>1. PICK t : t = b.thread
    OBVIOUS
  <2>2. t \in Threads /\ Abstract!Progress(t)
    BY <1>4, <2>1, RefineMove, RefineLose
  <2> QED BY <2>2 DEF Abstract!Next
<1>5. ASSUME NEW t \in Threads, SubmitFails(t) PROVE Abstract!Next
  BY <1>5, RefineFails DEF Abstract!Next
<1>6. ASSUME NEW t \in Threads, ReadReturns(t) \/ PhysReturns(t) PROVE Abstract!Next
  BY <1>6, RefineReturns DEF Abstract!Next
<1>7. ASSUME NEW t \in Threads, Llseek(t) PROVE Abstract!Next
  BY <1>7, RefineLlseek DEF Abstract!Next
<1> QED BY <1>1, <1>2, <1>3, <1>4, <1>5, <1>6, <1>7 DEF Next

-----------------------------------------------------------------------------
(* The locals of every call in progress agree with the call, and what is   *)
(* in flight is of the one transfer under way.                             *)
THEOREM InvariantHolds == Serialised /\ WholeBlocks => (Spec => []IInv)
<1> SUFFICES ASSUME Serialised, WholeBlocks PROVE Spec => []IInv
  OBVIOUS
<1>1. IInv /\ [Next]_vars => IInv'
  BY NextInv
<1> QED BY <1>1, InitInv, PTL DEF Spec

(* dev_read, dev_write, dev_llseek and the ioctls implement a byte file:   *)
(* with calls for whole blocks, transfers that do not overlap and the      *)
(* errors that the code returns, each behaviour of the chunked,            *)
(* block-addressed calls of any number of threads is one of CharFile,      *)
(* whichever commands fail and in whatever order they complete, for every  *)
(* block size, transfer limit, disk and driver result.                     *)
THEOREM ImplementsCharFileHolds ==
  Serialised /\ WholeBlocks /\ ErrorsKnown => (Spec => ImplementsCharFile)
<1> SUFFICES ASSUME Serialised, WholeBlocks, ErrorsKnown PROVE Spec => ImplementsCharFile
  OBVIOUS
<1>1. Spec => []IInv
  BY InvariantHolds
<1>2. IInv /\ [Next]_vars => [Abstract!Next]_(Abstract!vars)
  BY RefineNext
<1> QED BY <1>1, <1>2, RefineInit, PTL DEF Spec, ImplementsCharFile, Abstract!Spec
=============================================================================
