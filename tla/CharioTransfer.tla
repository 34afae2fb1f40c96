--------------------------- MODULE CharioTransfer ---------------------------
(***************************************************************************)
(* One character-device transfer, from the call of                         *)
(* nvme_submit_io_chario (user buffers) or nvme_submit_io_chario_phys      *)
(* (physical addresses) to its return.  A transfer of nblocks + 1 blocks   *)
(* is cut into commands of at most REQ_MAX_BLOCKS blocks.  Every command   *)
(* takes a tag of the queue's own tag array, is put on the submission      *)
(* queue, and is completed by the interrupt handler or by the polling      *)
(* kernel thread, which subtract it from cmdinfo.remaining.  The submitter *)
(* sleeps until remaining becomes negative.                                *)
(*                                                                         *)
(* The queue pair itself (rings, doorbells, phase bit) is abstracted to    *)
(* the set of commands the controller holds and the sequence of entries it *)
(* has posted.  The PRP lists a command carries are in module PrpList.     *)
(***************************************************************************)
EXTENDS Integers, FiniteSets, Sequences

CONSTANTS
  Procs,          \* the tasks that call read, write or ioctl
  Handlers,       \* the contexts that run nvme_process_cq
  Poller,         \* the one of Handlers that is nvme_kthread
  REQ_MAX_BLOCKS, \* blocks in one command
  NTags,          \* the length of chario_cmds
  NBlocks,        \* the values io.nblocks may have (number of blocks - 1)
  Serialised,     \* callers do not overlap their transfers
  None            \* no task, no handler

ASSUME ConstAssumption ==
  /\ REQ_MAX_BLOCKS \in Nat \ {0}
  /\ NTags \in Nat \ {0}
  /\ NBlocks \subseteq Nat
  /\ Serialised \in BOOLEAN
  /\ Poller \in Handlers
  /\ None \notin Procs \cup Handlers

VARIABLES
  pc,               \* where each task is in nvme_submit_io_chario
  nblocks,          \* io.nblocks
  remaining_blocks, \* blocks not yet put in a command, minus one
  tag,              \* the tag nvme_submit_chario_cmd has read
  ret,              \* what the last call returned
  task_state,       \* the scheduler's state of each task
  remaining,        \* cmdinfo.remaining, in the stack frame of the task
  next_chario_tag,
  chario_cmds,      \* the completion function and context of each tag
  q_lock,           \* the handler that holds the queue's lock
  inflight,         \* commands the controller has not completed
  cqes,             \* completion entries posted and not yet consumed
  hpc,              \* where each handler is in nvme_process_cq
  hctx,             \* the cmdinfo the handler is completing
  settled,          \* the transfer's blocks the controller is done with
  failed            \* some command of the transfer ended in an error

queueVars == <<next_chario_tag, chario_cmds>>
handlerVars == <<q_lock, hpc, hctx>>
ghostVars == <<settled, failed>>
vars == <<pc, nblocks, remaining_blocks, tag, ret, task_state, remaining,
          next_chario_tag, chario_cmds, q_lock, inflight, cqes, hpc, hctx,
          settled, failed>>

R == REQ_MAX_BLOCKS
Tags == 0 .. NTags - 1

(* The commands a transfer may issue; first and last are block numbers     *)
(* relative to the start of the transfer (current_slba - io.slba).         *)
Commands == [owner : Procs, tag : Nat, first : Nat, last : Nat]

(* cmdinfo lives on the stack of the task, between the point where it is   *)
(* initialised and the return of the function.                             *)
Live(p) == pc[p] \in {"tag", "fill", "submit", "check", "sleep", "reset"}

Init ==
  /\ pc = [p \in Procs |-> "idle"]
  /\ nblocks = [p \in Procs |-> 0]
  /\ remaining_blocks = [p \in Procs |-> 0]
  /\ tag = [p \in Procs |-> 0]
  /\ ret = [p \in Procs |-> "none"]
  /\ task_state = [p \in Procs |-> "RUNNING"]
  /\ remaining = [p \in Procs |-> -1]
  /\ next_chario_tag = 0
  /\ chario_cmds = [t \in Tags |-> [fn |-> "NULL", ctx |-> None]]
  /\ q_lock = None
  /\ inflight = {}
  /\ cqes = << >>
  /\ hpc = [h \in Handlers |-> "idle"]
  /\ hctx = [h \in Handlers |-> None]
  /\ settled = [p \in Procs |-> {}]
  /\ failed = [p \in Procs |-> FALSE]

-----------------------------------------------------------------------------
(* The submitting task.                                                    *)

(* A task enters nvme_submit_io_chario.                                    *)
Start(p) ==
  /\ pc[p] = "idle"
  /\ Serialised => \A q \in Procs : pc[q] = "idle"
  /\ \E n \in NBlocks : nblocks' = [nblocks EXCEPT ![p] = n]
  /\ pc' = [pc EXCEPT ![p] = "map"]
  /\ ret' = [ret EXCEPT ![p] = "none"]
  /\ settled' = [settled EXCEPT ![p] = {}]
  /\ failed' = [failed EXCEPT ![p] = FALSE]
  /\ UNCHANGED <<remaining_blocks, tag, task_state, remaining, queueVars,
                 inflight, cqes, handlerVars>>

(* Mapping the pages, building the PRP lists or allocating the metadata    *)
(* fails: the call returns an error before it submits anything.            *)
MapFails(p) ==
  /\ pc[p] = "map"
  /\ pc' = [pc EXCEPT ![p] = "idle"]
  /\ ret' = [ret EXCEPT ![p] = "error"]
  /\ UNCHANGED <<nblocks, remaining_blocks, tag, task_state, remaining,
                 queueVars, inflight, cqes, handlerVars, ghostVars>>

(* A faulty variant, used to show that the properties notice it: remaining *)
(* starts one block short.                                                 *)
InitCmdinfoShort(p) ==
  /\ pc[p] = "map"
  /\ pc' = [pc EXCEPT ![p] = "tag"]
  /\ remaining_blocks' = [remaining_blocks EXCEPT ![p] = nblocks[p]]
  /\ remaining' = [remaining EXCEPT ![p] = nblocks[p] - 1]
  /\ UNCHANGED <<nblocks, tag, ret, task_state, queueVars, inflight, cqes,
                 handlerVars, ghostVars>>

(* The buffers are mapped; cmdinfo is initialised.                         *)
InitCmdinfo(p) ==
  /\ pc[p] = "map"
  /\ pc' = [pc EXCEPT ![p] = "tag"]
  /\ remaining_blocks' = [remaining_blocks EXCEPT ![p] = nblocks[p]]
  /\ remaining' = [remaining EXCEPT ![p] = nblocks[p]]
  /\ UNCHANGED <<nblocks, tag, ret, task_state, queueVars, inflight, cqes,
                 handlerVars, ghostVars>>

(* nvme_submit_chario_cmd reads next_chario_tag; the increment of this     *)
(* int, which no lock protects, is a load and a later store.               *)
ReadTag(p) ==
  /\ pc[p] = "tag"
  /\ pc' = [pc EXCEPT ![p] = "fill"]
  /\ tag' = [tag EXCEPT ![p] = next_chario_tag]
  /\ UNCHANGED <<nblocks, remaining_blocks, ret, task_state, remaining,
                 queueVars, inflight, cqes, handlerVars, ghostVars>>

(* A faulty variant: the tag counter is read and not incremented.          *)
FillCmdSameTag(p) ==
  /\ pc[p] = "fill"
  /\ tag[p] \in Tags
  /\ pc' = [pc EXCEPT ![p] = "submit"]
  /\ chario_cmds' = [chario_cmds EXCEPT ![tag[p]] =
                       [fn |-> "chario_completion", ctx |-> p]]
  /\ UNCHANGED <<nblocks, remaining_blocks, tag, ret, task_state, remaining,
                 next_chario_tag, inflight, cqes, handlerVars, ghostVars>>

(* The store of the increment, and of the completion function and context  *)
(* of the tag.  A tag beyond the array is an access out of bounds: the     *)
(* model stops the task there, TagInRange reports it.                      *)
FillCmd(p) ==
  /\ pc[p] = "fill"
  /\ tag[p] \in Tags
  /\ pc' = [pc EXCEPT ![p] = "submit"]
  /\ next_chario_tag' = tag[p] + 1
  /\ chario_cmds' = [chario_cmds EXCEPT ![tag[p]] =
                       [fn |-> "chario_completion", ctx |-> p]]
  /\ UNCHANGED <<nblocks, remaining_blocks, tag, ret, task_state, remaining,
                 inflight, cqes, handlerVars, ghostVars>>

(* The command of the next REQ_MAX_BLOCKS blocks, or of those left.        *)
NextCommand(p) ==
  LET first == nblocks[p] - remaining_blocks[p]
  IN  [owner |-> p, tag |-> tag[p], first |-> first,
       last |-> IF remaining_blocks[p] >= R THEN first + R - 1
                                            ELSE nblocks[p]]

(* A faulty variant: the loop runs once more when REQ_MAX_BLOCKS - 1 blocks *)
(* are left, and remaining_blocks wraps.                                   *)
SubmitCmdOnceMore(p) ==
  /\ pc[p] = "submit"
  /\ q_lock = None
  /\ inflight' = inflight \cup {NextCommand(p)}
  /\ \/ /\ remaining_blocks[p] >= R - 1
        /\ remaining_blocks' = [remaining_blocks EXCEPT ![p] = @ - R]
        /\ pc' = [pc EXCEPT ![p] = "tag"]
     \/ /\ remaining_blocks[p] < R - 1
        /\ pc' = [pc EXCEPT ![p] = "check"]
        /\ UNCHANGED remaining_blocks
  /\ UNCHANGED <<nblocks, tag, ret, task_state, remaining, queueVars, cqes,
                 handlerVars, ghostVars>>

(* nvme_submit_cmd_chario puts the command on the queue under q_lock.  The *)
(* loop goes on while at least REQ_MAX_BLOCKS blocks remained.             *)
SubmitCmd(p) ==
  /\ pc[p] = "submit"
  /\ q_lock = None
  /\ inflight' = inflight \cup {NextCommand(p)}
  /\ \/ /\ remaining_blocks[p] >= R
        /\ remaining_blocks' = [remaining_blocks EXCEPT ![p] = @ - R]
        /\ pc' = [pc EXCEPT ![p] = "tag"]
     \/ /\ remaining_blocks[p] < R
        /\ pc' = [pc EXCEPT ![p] = "check"]
        /\ UNCHANGED remaining_blocks
  /\ UNCHANGED <<nblocks, tag, ret, task_state, remaining, queueVars, cqes,
                 handlerVars, ghostVars>>

(* A faulty variant: the task state is set without looking at remaining.   *)
PrepareToSleepUntested(p) ==
  /\ pc[p] = "check"
  /\ pc' = [pc EXCEPT ![p] = "sleep"]
  /\ task_state' = [task_state EXCEPT ![p] = "UNINTERRUPTIBLE"]
  /\ UNCHANGED <<nblocks, remaining_blocks, tag, ret, remaining, queueVars,
                 inflight, cqes, handlerVars, ghostVars>>

(* Under cmdinfo.lock: go to sleep unless every command has completed.     *)
PrepareToSleep(p) ==
  /\ pc[p] = "check"
  /\ pc' = [pc EXCEPT ![p] = "sleep"]
  /\ task_state' = [task_state EXCEPT ![p] =
                      IF remaining[p] >= 0 THEN "UNINTERRUPTIBLE" ELSE @]
  /\ UNCHANGED <<nblocks, remaining_blocks, tag, ret, remaining, queueVars,
                 inflight, cqes, handlerVars, ghostVars>>

(* schedule() returns once the task is runnable; it is not in a loop.      *)
Schedule(p) ==
  /\ pc[p] = "sleep"
  /\ task_state[p] = "RUNNING"
  /\ pc' = [pc EXCEPT ![p] = "reset"]
  /\ UNCHANGED <<nblocks, remaining_blocks, tag, ret, task_state, remaining,
                 queueVars, inflight, cqes, handlerVars, ghostVars>>

(* A faulty variant: the tag counter is not reset.                         *)
ReturnKeepTag(p) ==
  /\ pc[p] = "reset"
  /\ pc' = [pc EXCEPT ![p] = "idle"]
  /\ ret' = [ret EXCEPT ![p] = "ok"]
  /\ tag' = [tag EXCEPT ![p] = 0]
  /\ UNCHANGED <<nblocks, remaining_blocks, task_state, remaining, queueVars,
                 inflight, cqes, handlerVars, ghostVars>>

(* The tag counter starts again at 0, the pages are unmapped and the PRP   *)
(* lists freed, and the function returns the status of the submission.     *)
Return(p) ==
  /\ pc[p] = "reset"
  /\ pc' = [pc EXCEPT ![p] = "idle"]
  /\ next_chario_tag' = 0
  /\ ret' = [ret EXCEPT ![p] = "ok"]
  /\ tag' = [tag EXCEPT ![p] = 0]
  /\ UNCHANGED <<nblocks, remaining_blocks, task_state, remaining,
                 chario_cmds, inflight, cqes, handlerVars, ghostVars>>

-----------------------------------------------------------------------------
(* The controller, seen through the queue pair: it completes the commands  *)
(* it holds in any order, each once, with or without an error.             *)
Complete(c) ==
  /\ c \in inflight
  /\ inflight' = inflight \ {c}
  /\ cqes' = Append(cqes, c.tag)
  /\ settled' = [settled EXCEPT ![c.owner] = @ \cup (c.first .. c.last)]
  /\ \E err \in BOOLEAN :
       failed' = [failed EXCEPT ![c.owner] = @ \/ err]
  /\ UNCHANGED <<pc, nblocks, remaining_blocks, tag, ret, task_state,
                 remaining, queueVars, handlerVars>>

-----------------------------------------------------------------------------
(* The completion side: nvme_irq, or nvme_kthread once a second, takes     *)
(* q_lock and runs nvme_process_cq.  A handler may find nothing.           *)
LockQueue(h) ==
  /\ hpc[h] = "idle"
  /\ q_lock = None
  /\ q_lock' = h
  /\ hpc' = [hpc EXCEPT ![h] = "loop"]
  /\ UNCHANGED <<pc, nblocks, remaining_blocks, tag, ret, task_state,
                 remaining, queueVars, inflight, cqes, hctx, ghostVars>>

(* One entry is consumed: nvme_finish_cmd fetches the function and the     *)
(* context of its tag and marks the tag completed.  A tag that was marked  *)
(* before goes to special_completion, which only logs.                     *)
FinishCmd(h) ==
  /\ hpc[h] = "loop"
  /\ cqes # << >>
  /\ LET t == Head(cqes)
         cmd == chario_cmds[t]
         chario == cmd.fn = "chario_completion"
     IN  /\ chario_cmds' = [chario_cmds EXCEPT ![t] =
                              [fn |-> "special_completion", ctx |-> None]]
         /\ hpc' = [hpc EXCEPT ![h] = IF chario THEN "subtract" ELSE "loop"]
         /\ hctx' = [hctx EXCEPT ![h] = IF chario THEN cmd.ctx ELSE None]
  /\ cqes' = Tail(cqes)
  /\ UNCHANGED <<pc, nblocks, remaining_blocks, tag, ret, task_state,
                 remaining, next_chario_tag, q_lock, inflight, ghostVars>>

(* chario_completion, under cmdinfo->lock.                                 *)
Subtract(h) ==
  /\ hpc[h] = "subtract"
  /\ hpc' = [hpc EXCEPT ![h] = "test"]
  /\ remaining' = [remaining EXCEPT ![hctx[h]] = @ - R]
  /\ UNCHANGED <<pc, nblocks, remaining_blocks, tag, ret, task_state,
                 queueVars, q_lock, inflight, cqes, hctx, ghostVars>>

(* A faulty variant: the submitter is woken when remaining is exactly 0.   *)
TestRemainingZero(h) ==
  /\ hpc[h] = "test"
  /\ \/ /\ Live(hctx[h]) => remaining[hctx[h]] = 0
        /\ hpc' = [hpc EXCEPT ![h] = "wake"]
        /\ UNCHANGED hctx
     \/ /\ Live(hctx[h]) => remaining[hctx[h]] # 0
        /\ hpc' = [hpc EXCEPT ![h] = "loop"]
        /\ hctx' = [hctx EXCEPT ![h] = None]
  /\ UNCHANGED <<pc, nblocks, remaining_blocks, tag, ret, task_state,
                 remaining, queueVars, q_lock, inflight, cqes, ghostVars>>

(* chario_completion reads cmdinfo->remaining again after it has dropped   *)
(* cmdinfo->lock.  When the submitter has returned by then, the frame is   *)
(* dead and the read may yield anything.                                   *)
TestRemaining(h) ==
  /\ hpc[h] = "test"
  /\ \/ /\ Live(hctx[h]) => remaining[hctx[h]] < 0
        /\ hpc' = [hpc EXCEPT ![h] = "wake"]
        /\ UNCHANGED hctx
     \/ /\ Live(hctx[h]) => remaining[hctx[h]] >= 0
        /\ hpc' = [hpc EXCEPT ![h] = "loop"]
        /\ hctx' = [hctx EXCEPT ![h] = None]
  /\ UNCHANGED <<pc, nblocks, remaining_blocks, tag, ret, task_state,
                 remaining, queueVars, q_lock, inflight, cqes, ghostVars>>

(* wake_up_process(cmdinfo->task).  The task pointer read from a dead      *)
(* frame may be that of any task.                                          *)
WakeUp(h) ==
  /\ hpc[h] = "wake"
  /\ hpc' = [hpc EXCEPT ![h] = "loop"]
  /\ hctx' = [hctx EXCEPT ![h] = None]
  /\ \E p \in Procs :
       /\ Live(hctx[h]) => p = hctx[h]
       /\ task_state' = [task_state EXCEPT ![p] = "RUNNING"]
  /\ UNCHANGED <<pc, nblocks, remaining_blocks, tag, ret, remaining,
                 queueVars, q_lock, inflight, cqes, ghostVars>>

(* No entry is left: the handler stores the queue head and drops q_lock.   *)
UnlockQueue(h) ==
  /\ hpc[h] = "loop"
  /\ cqes = << >>
  /\ q_lock' = None
  /\ hpc' = [hpc EXCEPT ![h] = "idle"]
  /\ UNCHANGED <<pc, nblocks, remaining_blocks, tag, ret, task_state,
                 remaining, queueVars, inflight, cqes, hctx, ghostVars>>

-----------------------------------------------------------------------------
Submitter(p) ==
  \/ Start(p) \/ MapFails(p) \/ InitCmdinfo(p) \/ ReadTag(p) \/ FillCmd(p)
  \/ SubmitCmd(p) \/ PrepareToSleep(p) \/ Schedule(p) \/ Return(p)

Handler(h) ==
  \/ LockQueue(h) \/ FinishCmd(h) \/ Subtract(h) \/ TestRemaining(h)
  \/ WakeUp(h) \/ UnlockQueue(h)

Next ==
  \/ \E p \in Procs : Submitter(p)
  \/ \E c \in inflight : Complete(c)
  \/ \E h \in Handlers : Handler(h)

Spec == Init /\ [][Next]_vars

(* Tasks run, the controller answers every command, a handler that has     *)
(* been entered runs to its end, and nvme_kthread is woken once a second.  *)
(* Interrupts may be lost.  Spin locks are ticket locks, so that a context *)
(* that waits for q_lock gets it: strong fairness of the steps that take   *)
(* it.                                                                     *)
Fairness ==
  /\ \A p \in Procs :
       /\ WF_vars(MapFails(p) \/ InitCmdinfo(p) \/ ReadTag(p) \/ FillCmd(p)
                  \/ PrepareToSleep(p) \/ Schedule(p) \/ Return(p))
       /\ SF_vars(SubmitCmd(p))
  /\ WF_vars(\E c \in inflight : Complete(c))
  /\ \A h \in Handlers :
       WF_vars(FinishCmd(h) \/ Subtract(h) \/ TestRemaining(h) \/ WakeUp(h)
               \/ UnlockQueue(h))
  /\ SF_vars(LockQueue(Poller))

FairSpec == Spec /\ Fairness

-----------------------------------------------------------------------------
(* Properties.                                                             *)

TypeOK ==
  /\ pc \in [Procs -> {"idle", "map", "tag", "fill", "submit", "check",
                      "sleep", "reset"}]
  /\ nblocks \in [Procs -> Nat]
  /\ remaining_blocks \in [Procs -> Nat]
  /\ tag \in [Procs -> Nat]
  /\ ret \in [Procs -> {"none", "ok", "error"}]
  /\ task_state \in [Procs -> {"RUNNING", "UNINTERRUPTIBLE"}]
  /\ remaining \in [Procs -> Int]
  /\ next_chario_tag \in Nat
  /\ chario_cmds \in [Tags -> [fn : {"NULL", "chario_completion",
                                    "special_completion"},
                              ctx : Procs \cup {None}]]
  /\ q_lock \in Handlers \cup {None}
  /\ inflight \subseteq Commands
  /\ cqes \in Seq(Tags)
  /\ hpc \in [Handlers -> {"idle", "loop", "subtract", "test", "wake"}]
  /\ hctx \in [Handlers -> Procs \cup {None}]
  /\ settled \in [Procs -> SUBSET Nat]
  /\ failed \in [Procs -> BOOLEAN]

(* When a transfer is past its schedule(), the controller is done with     *)
(* every one of its blocks: the caller never gets its pages unmapped and   *)
(* its PRP lists freed under a running DMA.                                *)
NoEarlyReturn ==
  \A p \in Procs : pc[p] = "reset" => settled[p] = 0 .. nblocks[p]

(* A command the controller holds or has just completed is still the one   *)
(* its tag stands for, and no other command has the tag: a completion is   *)
(* never counted for another transfer, and never dropped as a duplicate.   *)
TagOwnership ==
  /\ \A c \in inflight :
       /\ c.tag \in Tags
       /\ chario_cmds[c.tag] = [fn |-> "chario_completion", ctx |-> c.owner]
       /\ \A d \in inflight : d.tag = c.tag => d = c
       /\ \A i \in DOMAIN cqes : cqes[i] # c.tag
  /\ \A i \in DOMAIN cqes : chario_cmds[cqes[i]].fn = "chario_completion"

(* A tag handed out by next_chario_tag++ is inside chario_cmds.            *)
TagInRange ==
  \A p \in Procs : pc[p] \in {"fill", "submit"} => tag[p] \in Tags

(* A task that sleeps for its transfer has a command with the controller,  *)
(* an entry on the completion queue, or a handler about to count a command *)
(* or to wake it: the wake-up is never lost between the submitter's test   *)
(* under cmdinfo.lock and the handler's.                                   *)
NoLostWakeup ==
  \A p \in Procs :
    (pc[p] = "sleep" /\ task_state[p] = "UNINTERRUPTIBLE") =>
      \/ \E c \in inflight : c.owner = p
      \/ \E i \in DOMAIN cqes : chario_cmds[cqes[i]].ctx = p
      \/ \E h \in Handlers : hpc[h] # "idle" /\ hctx[h] = p

(* A read or write that returns success moved all of its blocks without a  *)
(* device error.                                                           *)
ErrorReported ==
  \A p \in Procs : ret[p] = "ok" => ~failed[p]

(* Every call returns, even when all interrupts are lost.                  *)
EveryTransferReturns ==
  \A p \in Procs : pc[p] # "idle" ~> pc[p] = "idle"

=============================================================================
