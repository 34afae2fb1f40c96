------------------------------ MODULE CharFile ------------------------------
(***************************************************************************)
(* What /dev/chardisk0 promises to a program: a file over the bytes of a   *)
(* disk.  A call settles the bytes that start at the file's position, in   *)
(* any order and in as many pieces as it likes: it moves a byte to its own *)
(* place, or loses it.  It returns its count, and the position has moved   *)
(* on, only when all are settled; a call that fails may have settled some  *)
(* of them and leaves the position alone.  The return value of a call does *)
(* not tell whether bytes were lost: the driver drops the status of its    *)
(* commands.                                                               *)
(***************************************************************************)
EXTENDS Integers

CONSTANTS
  Threads, Files,
  Buffers,     \* where in its memory a program may have its buffer
  Counts,      \* the lengths that programs ask for
  Positions,   \* the positions that programs seek to
  DiskBytes,   \* the bytes of the disk, 0 .. DiskBytes - 1
  MemBytes,    \* the bytes of a program's memory, 0 .. MemBytes - 1
  Errors,      \* error returns
  NoCall

Ops == {"read", "write", "read_phys", "write_phys"}

VARIABLES
  disk, mem,   \* contents of the disk, and of every thread's memory
  f_pos,       \* position of every file
  call,        \* the call each thread is in, or NoCall
  done,        \* which of its bytes are settled
  lost,        \* whether it, or the last call of the thread, lost any
  ret          \* what the last call of each thread returned

vars == <<disk, mem, f_pos, call, done, lost, ret>>

IsRead(op) == op \in {"read", "read_phys"}

DiskContents == [k \in 0 .. DiskBytes - 1 |-> <<"disk", k>>]
MemContents(t) == [k \in 0 .. MemBytes - 1 |-> <<t, k>>]

Init ==
  /\ disk = DiskContents
  /\ mem = [t \in Threads |-> MemContents(t)]
  /\ f_pos = [f \in Files |-> 0]
  /\ call = [t \in Threads |-> NoCall]
  /\ done = [t \in Threads |-> {}]
  /\ lost = [t \in Threads |-> FALSE]
  /\ ret = [t \in Threads |-> 0]

(* A call begins; it is for the bytes at the position the file has now.    *)
Begin(t) ==
  /\ call[t] = NoCall
  /\ \E f \in Files, op \in Ops, b \in Buffers, n \in Counts :
       /\ f_pos[f] + n <= DiskBytes /\ b + n <= MemBytes
       /\ call' = [call EXCEPT ![t] = [op |-> op, file |-> f, buf |-> b,
                                       count |-> n, pos |-> f_pos[f]]]
  /\ done' = [done EXCEPT ![t] = {}]
  /\ lost' = [lost EXCEPT ![t] = FALSE]
  /\ UNCHANGED <<disk, mem, f_pos, ret>>

Bytes(c) == 0 .. c.count - 1

(* Bytes of the call are moved.                                            *)
Move(t, moved) ==
  LET c == call[t]
  IN  \/ /\ IsRead(c.op)
         /\ mem' = [mem EXCEPT ![t] =
              [k \in DOMAIN mem[t] |->
                 IF k - c.buf \in moved THEN disk[c.pos + (k - c.buf)]
                                        ELSE mem[t][k]]]
         /\ UNCHANGED disk
      \/ /\ ~IsRead(c.op)
         /\ disk' = [k \in DOMAIN disk |->
              IF k - c.pos \in moved THEN mem[t][c.buf + (k - c.pos)]
                                     ELSE disk[k]]
         /\ UNCHANGED mem

(* Some more bytes of the call are settled; those not moved are lost.      *)
Progress(t) ==
  /\ call[t] # NoCall
  /\ \E settled \in SUBSET (Bytes(call[t]) \ done[t]) :
       /\ done' = [done EXCEPT ![t] = @ \cup settled]
       /\ \E moved \in SUBSET settled :
            /\ lost' = [lost EXCEPT ![t] = @ \/ moved # settled]
            /\ Move(t, moved)
  /\ UNCHANGED <<f_pos, call, ret>>

(* read and write set the position from the one they began at; the ioctls  *)
(* add to the one the file has now.                                        *)
NewPos(c) ==
  c.count + IF c.op \in {"read", "write"} THEN c.pos ELSE f_pos[c.file]

Succeed(t) ==
  /\ call[t] # NoCall /\ done[t] = Bytes(call[t])
  /\ f_pos' = [f_pos EXCEPT ![call[t].file] = NewPos(call[t])]
  /\ ret' = [ret EXCEPT ![t] = call[t].count]
  /\ call' = [call EXCEPT ![t] = NoCall]
  /\ done' = [done EXCEPT ![t] = {}]
  /\ UNCHANGED <<disk, mem, lost>>

Fail(t) ==
  /\ call[t] # NoCall
  /\ \E e \in Errors : ret' = [ret EXCEPT ![t] = e]
  /\ call' = [call EXCEPT ![t] = NoCall]
  /\ done' = [done EXCEPT ![t] = {}]
  /\ UNCHANGED <<disk, mem, f_pos, lost>>

(* Seeking never waits for a call of another thread.                       *)
Seek(t) ==
  /\ call[t] = NoCall
  /\ \/ \E f \in Files, p \in Positions :
          /\ p >= 0
          /\ f_pos' = [f_pos EXCEPT ![f] = p]
          /\ ret' = [ret EXCEPT ![t] = p]
     \/ /\ \E e \in Errors : ret' = [ret EXCEPT ![t] = e]
        /\ UNCHANGED f_pos
  /\ UNCHANGED <<disk, mem, call, done, lost>>

Next ==
  \E t \in Threads :
    Begin(t) \/ Progress(t) \/ Succeed(t) \/ Fail(t) \/ Seek(t)

Spec == Init /\ [][Next]_vars
=============================================================================
