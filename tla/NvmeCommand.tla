----------------------------- MODULE NvmeCommand -----------------------------
(***************************************************************************)
(* Commands that the driver waits for through a blk-mq request: the        *)
(* synchronous commands of nvme_submit_sync_cmd on the admin queue and on  *)
(* an I/O queue, and the abort commands nvme_timeout sends; with their     *)
(* completion, their time-outs, and the reset that cancels them.           *)
(*                                                                         *)
(* The rings are those of QueuePair: the commands the controller holds and *)
(* the entries it has posted.  A step that holds one lock only is atomic,  *)
(* except that a handler takes one entry per step; the two paths that wait *)
(* for a second lock, nvme_kthread and nvme_timeout, hold the first one    *)
(* over several steps.  The block layer is external: a request is          *)
(* allocated while its queue is not frozen (GFP_ATOMIC fails, GFP_KERNEL   *)
(* waits), and once it is started its timer may fire again and again until *)
(* it is freed, because nvme_timeout always returns BLK_EH_RESET_TIMER.    *)
(***************************************************************************)
EXTENDS Integers, Sequences, FiniteSets

CONSTANTS Callers,      \* tasks that call nvme_submit_sync_cmd
          Worker,       \* the work item that resets the controller, also a caller
          AdminTags,    \* tags of the admin queue that are not reserved
          IoTags,       \* tags of the I/O queue
          LowTags,      \* those up to 31, which nvme_finish_cmd looks up in chario_cmds
          AbortLimit,   \* abort commands the controller accepts: acl + 1
          SubmitRaces,  \* may a reset clear a queue while a caller is yet to submit to it?
          None

ASSUME CommandAssumption ==
  /\ LowTags \subseteq IoTags
  /\ AbortLimit \in Nat \ {0}
  /\ SubmitRaces \in BOOLEAN
  /\ Worker \notin Callers
  /\ None \notin Callers \cup {Worker, "kthread", "admin", "io"}

Tasks == Callers \cup {Worker}
Queues == {"admin", "io"}
Slots == ({"admin"} \X AdminTags) \cup ({"io"} \X IoTags)

VARIABLES
  req,                  \* the requests: struct request with its nvme_cmd_info
  pc, slot,             \* the tasks: where they are, and the request they hold
  task_state, status,   \* state of the task, and its cmdinfo.status
  sq, cq,               \* commands the controller holds, entries it has posted
  q_lock, dev_list_lock,  \* their holders
  kpc,                  \* nvme_kthread: the queue it is at
  tpc, treq,            \* nvme_timeout, one timer per request queue, and its request
  abort_req, limit,     \* nvme_abort_req: the request, and abort_limit as loaded
  rpc,                  \* reset_work: "up" when it is not busy
  frozen, irq_on,       \* queues that are frozen, and that have their interrupt
  listed,               \* the device is on dev_list
  csts_cfs,             \* the controller reports a fatal status
  abort_limit,
  executed              \* history: the controller answered the task's command

taskVars == <<pc, slot, task_state, status>>
ringVars == <<sq, cq>>
lockVars == <<q_lock, dev_list_lock>>
timerVars == <<tpc, treq, abort_req, limit>>
devVars == <<rpc, frozen, irq_on, listed, csts_cfs>>
vars == <<req, taskVars, ringVars, lockVars, kpc, timerVars, devVars, abort_limit,
          executed>>

\* A request that is free; the commands before left special_completion.
Free == [busy |-> FALSE, fn |-> "special_completion", ctx |-> None, aborted |-> FALSE]

Init ==
  /\ req = [s \in Slots |-> Free]
  /\ pc = [c \in Tasks |-> "idle"]
  /\ slot = [c \in Tasks |-> None]
  /\ task_state = [c \in Tasks |-> "RUNNING"]
  /\ status = [c \in Tasks |-> "none"]
  /\ sq = [q \in Queues |-> {}]
  /\ cq = [q \in Queues |-> << >>]
  /\ q_lock = [q \in Queues |-> None]
  /\ dev_list_lock = None
  /\ kpc = "idle"
  /\ tpc = [q \in Queues |-> "idle"]
  /\ treq = [q \in Queues |-> None]
  /\ abort_req = None
  /\ limit = 0
  /\ rpc = "up"
  /\ frozen = [q \in Queues |-> FALSE]
  /\ irq_on = [q \in Queues |-> TRUE]
  /\ listed = TRUE
  /\ csts_cfs = FALSE
  /\ abort_limit = AbortLimit
  /\ executed = [c \in Tasks |-> FALSE]

-----------------------------------------------------------------------------
(* The synchronous commands: __nvme_submit_admin_cmd, nvme_submit_io_cmd   *)
(* and nvme_submit_sync_cmd.                                               *)

\* blk_mq_alloc_request waits for a tag and for a queue that is frozen;
\* nvme_set_info starts the request and with it the timer.
Alloc(c, s) ==
  /\ pc[c] = "idle"
  /\ c = Worker => rpc = "setup" /\ s[1] = "admin"
  /\ ~frozen[s[1]]
  /\ ~req[s].busy
  /\ req' = [req EXCEPT ![s] = [busy |-> TRUE, fn |-> "sync_completion", ctx |-> c,
                                aborted |-> FALSE]]
  /\ status' = [status EXCEPT ![c] = "EINTR"]
  /\ slot' = [slot EXCEPT ![c] = s]
  /\ pc' = [pc EXCEPT ![c] = "set_state"]
  /\ UNCHANGED <<task_state, ringVars, lockVars, kpc, timerVars, devVars, abort_limit,
                 executed>>

SetStateWith(c, state) ==
  /\ pc[c] = "set_state"
  /\ task_state' = [task_state EXCEPT ![c] = state]
  /\ pc' = [pc EXCEPT ![c] = "submit"]
  /\ UNCHANGED <<req, slot, status, ringVars, lockVars, kpc, timerVars, devVars,
                 abort_limit, executed>>

\* A bug: the task state is left as it is.
SetStateRunning(c) == SetStateWith(c, "RUNNING")
SetState(c) == SetStateWith(c, "UNINTERRUPTIBLE")

Submit(c) ==
  LET q == slot[c][1] IN
  /\ pc[c] = "submit"
  /\ q_lock[q] = None
  /\ sq' = [sq EXCEPT ![q] = @ \cup {[tag |-> slot[c][2], op |-> "sync", of |-> c]}]
  /\ pc' = [pc EXCEPT ![c] = "schedule"]
  /\ UNCHANGED <<req, slot, task_state, status, cq, lockVars,
                 kpc, timerVars, devVars, abort_limit, executed>>

\* schedule returns once the task is RUNNING; the caller frees the request
\* and returns cmdinfo.status.
Return(c) ==
  /\ pc[c] = "schedule"
  /\ task_state[c] = "RUNNING"
  /\ req' = [req EXCEPT ![slot[c]].busy = FALSE]
  /\ pc' = [pc EXCEPT ![c] = "idle"]
  /\ slot' = [slot EXCEPT ![c] = None]
  /\ status' = [status EXCEPT ![c] = "none"]
  /\ executed' = [executed EXCEPT ![c] = FALSE]
  /\ rpc' = IF c = Worker THEN "create" ELSE rpc
  /\ UNCHANGED <<task_state, ringVars, lockVars, kpc, timerVars, frozen,
                 irq_on, listed, csts_cfs, abort_limit>>

-----------------------------------------------------------------------------
(* Completion.                                                             *)

\* The requests S end with the status st: nvme_finish_cmd or cancel_cmd_info
\* replaces fn and ctx, and the function runs.  sync_completion stores the
\* status and wakes the task, abort_completion frees its request and returns
\* its abort, special_completion only warns (the values of ctx it tells apart
\* are not kept).
CompleteWith(S, st, replaced) ==
  LET woken == {c \in Tasks : \E s \in S : req[s].fn = "sync_completion" /\ req[s].ctx = c}
      aborts == {s \in S : req[s].fn = "abort_completion"}
  IN
  /\ req' = [s \in Slots |->
               IF s \notin replaced THEN req[s]
               ELSE [req[s] EXCEPT !.fn = "special_completion", !.ctx = None,
                                   !.busy = @ /\ s \notin aborts]]
  /\ status' = [c \in Tasks |-> IF c \in woken THEN st ELSE status[c]]
  /\ task_state' = [c \in Tasks |-> IF c \in woken THEN "RUNNING" ELSE task_state[c]]
  /\ abort_limit' = abort_limit + Cardinality(aborts)

\* A bug: fn and ctx of a synchronous command are left in place.
CompleteKeepsInfo(S, st) ==
  CompleteWith(S, st, {s \in S : req[s].fn # "sync_completion"})
Complete(S, st) == CompleteWith(S, st, S)

\* One round of nvme_process_cq: nvme_finish_cmd and the completion
\* function it returns.  A low tag of the I/O queue is looked up in
\* chario_cmds, where a transfer has left special_completion.
Finish(q) ==
  LET e == Head(cq[q]) IN
  /\ cq' = [cq EXCEPT ![q] = Tail(@)]
  /\ \/ /\ q = "io"
        /\ e.tag \in LowTags
        /\ UNCHANGED <<req, task_state, status, abort_limit>>
     \/ /\ ~(q = "io" /\ e.tag \in LowTags)
        /\ Complete({<<q, e.tag>>}, e.status)

\* nvme_irq.
Irq(q) ==
  /\ irq_on[q]
  /\ q_lock[q] = None
  /\ cq[q] # << >>
  /\ Finish(q)
  /\ UNCHANGED <<pc, slot, sq, lockVars, kpc, timerVars, devVars, executed>>

-----------------------------------------------------------------------------
(* nvme_kthread.  It holds dev_list_lock while it takes the q_lock of each *)
(* queue in turn.                                                          *)

QueueReset ==
  /\ listed' = FALSE
  /\ rpc' = "queued"

KthreadPoll ==
  /\ kpc = "idle"
  /\ listed
  /\ dev_list_lock = None
  /\ \/ /\ csts_cfs
        /\ rpc = "up"
        /\ QueueReset
        /\ UNCHANGED <<kpc, dev_list_lock>>
     \/ /\ ~csts_cfs
        /\ kpc' = "admin"
        /\ dev_list_lock' = "kthread"
        /\ UNCHANGED <<listed, rpc>>
  /\ UNCHANGED <<req, taskVars, ringVars, q_lock, timerVars, frozen,
                 irq_on, csts_cfs, abort_limit, executed>>

KthreadProcess ==
  /\ kpc \in Queues
  /\ q_lock[kpc] = None
  /\ cq[kpc] # << >>
  /\ Finish(kpc)
  /\ UNCHANGED <<pc, slot, sq, lockVars, kpc, timerVars, devVars, executed>>

\* The queue is done; the event command that is sent here is left out.
KthreadNext ==
  /\ kpc = "admin"
  /\ q_lock["admin"] = None
  /\ cq["admin"] = << >>
  /\ kpc' = "io"
  /\ UNCHANGED <<req, taskVars, ringVars, lockVars, timerVars, devVars, abort_limit,
                 executed>>

KthreadSleep ==
  /\ kpc = "io"
  /\ q_lock["io"] = None
  /\ cq["io"] = << >>
  /\ kpc' = "idle"
  /\ dev_list_lock' = None
  /\ UNCHANGED <<req, taskVars, ringVars, q_lock, timerVars, devVars,
                 abort_limit, executed>>

-----------------------------------------------------------------------------
(* nvme_timeout and nvme_abort_req.                                        *)

\* The block layer finds the request s expired; it may be freed, and even
\* allocated again, before nvme_timeout has the q_lock.
TimerFires(s) ==
  LET q == s[1] IN
  /\ tpc[q] = "idle"
  /\ req[s].busy
  /\ tpc' = [tpc EXCEPT ![q] = "lock"]
  /\ treq' = [treq EXCEPT ![q] = s]
  /\ UNCHANGED <<req, taskVars, ringVars, lockVars, kpc, abort_req, limit,
                 devVars, abort_limit, executed>>

\* nvme_timeout takes q_lock, and nvme_abort_req either goes for a reset,
\* or gives up for lack of an abort or of a request, or loads abort_limit.
TimerAbortReq(q) ==
  LET second == q = "admin" \/ req[treq[q]].aborted
      free == {s \in Slots : s[1] = "admin" /\ ~req[s].busy /\ ~frozen["admin"]}
  IN
  /\ tpc[q] = "lock"
  /\ q_lock[q] = None
  /\ \/ /\ second
        /\ tpc' = [tpc EXCEPT ![q] = "reset"]
        /\ q_lock' = [q_lock EXCEPT ![q] = q]
        /\ UNCHANGED <<req, treq, abort_req, limit>>
     \/ /\ ~second
        /\ abort_limit = 0 \/ free = {}
        /\ tpc' = [tpc EXCEPT ![q] = "idle"]
        /\ treq' = [treq EXCEPT ![q] = None]
        /\ UNCHANGED <<req, q_lock, abort_req, limit>>
     \/ /\ ~second
        /\ abort_limit # 0
        /\ \E s \in free :
             /\ req' = [req EXCEPT ![s] = [busy |-> TRUE, fn |-> "abort_completion",
                                           ctx |-> None, aborted |-> FALSE]]
             /\ abort_req' = s
        /\ limit' = abort_limit
        /\ tpc' = [tpc EXCEPT ![q] = "store"]
        /\ q_lock' = [q_lock EXCEPT ![q] = q]
        /\ UNCHANGED treq
  /\ UNCHANGED <<taskVars, ringVars, dev_list_lock, kpc, devVars, abort_limit,
                 executed>>

\* dev_list_lock is taken with q_lock held.
TimerReset(q) ==
  /\ tpc[q] = "reset"
  /\ dev_list_lock = None
  /\ IF rpc = "up" THEN QueueReset ELSE UNCHANGED <<listed, rpc>>
  /\ tpc' = [tpc EXCEPT ![q] = "idle"]
  /\ treq' = [treq EXCEPT ![q] = None]
  /\ q_lock' = [q_lock EXCEPT ![q] = None]
  /\ UNCHANGED <<req, taskVars, ringVars, dev_list_lock, kpc, abort_req,
                 limit, frozen, irq_on, csts_cfs, abort_limit, executed>>

\* --dev->abort_limit is a load and a store; the q_lock that is held is not
\* the one abort_completion runs under.
TimerStore(q) ==
  /\ tpc[q] = "store"
  /\ abort_limit' = limit - 1
  /\ req' = [req EXCEPT ![treq[q]].aborted = TRUE]
  /\ tpc' = [tpc EXCEPT ![q] = "submit"]
  /\ UNCHANGED <<taskVars, ringVars, lockVars, kpc, treq, abort_req, limit, devVars,
                 executed>>

TimerSubmit(q) ==
  /\ tpc[q] = "submit"
  /\ q_lock["admin"] = None
  /\ sq' = [sq EXCEPT !["admin"] =
              @ \cup {[tag |-> abort_req[2], op |-> "abort", of |-> treq[q][2]]}]
  /\ tpc' = [tpc EXCEPT ![q] = "idle"]
  /\ treq' = [treq EXCEPT ![q] = None]
  /\ abort_req' = None
  /\ limit' = 0
  /\ q_lock' = [q_lock EXCEPT ![q] = None]
  /\ UNCHANGED <<req, taskVars, cq, dev_list_lock, kpc, devVars,
                 abort_limit, executed>>

-----------------------------------------------------------------------------
(* The reset: nvme_dev_shutdown, then nvme_dev_start and nvme_dev_resume.  *)

Step(from, to) == rpc = from /\ rpc' = to

ResetUnlist ==
  /\ Step("queued", "stop")
  /\ dev_list_lock = None
  /\ listed' = FALSE
  /\ UNCHANGED <<req, taskVars, ringVars, lockVars, kpc, timerVars, frozen,
                 irq_on, csts_cfs, abort_limit, executed>>

\* kthread_stop waits for the thread, which is asleep or finishes a round;
\* nvme_freeze_queues; and nvme_suspend_queue of the I/O queue.
ResetSuspendIo ==
  /\ Step("stop", "suspend_admin")
  /\ kpc = "idle"
  /\ q_lock["io"] = None
  /\ kpc' = "stopped"
  /\ frozen' = [frozen EXCEPT !["io"] = TRUE]
  /\ irq_on' = [irq_on EXCEPT !["io"] = FALSE]
  /\ UNCHANGED <<req, taskVars, ringVars, lockVars, timerVars, listed, csts_cfs,
                 abort_limit, executed>>

\* nvme_suspend_queue of the admin queue, which a controller that was
\* ready has polled once more by nvme_disable_queue.
ResetSuspendAdmin ==
  /\ \/ Step("suspend_admin", "clear_io")
     \/ ~csts_cfs /\ Step("suspend_admin", "drain")
  /\ q_lock["admin"] = None
  /\ irq_on' = [irq_on EXCEPT !["admin"] = FALSE]
  /\ frozen' = [frozen EXCEPT !["admin"] = TRUE]
  /\ UNCHANGED <<req, taskVars, ringVars, lockVars, kpc, timerVars,
                 listed, csts_cfs, abort_limit, executed>>

ResetDrain ==
  /\ rpc = "drain"
  /\ q_lock["admin"] = None
  /\ \/ /\ cq["admin"] # << >>
        /\ Finish("admin")
        /\ UNCHANGED rpc
     \/ /\ cq["admin"] = << >>
        /\ rpc' = "clear_io"
        /\ UNCHANGED <<req, task_state, status, cq, abort_limit>>
  /\ UNCHANGED <<pc, slot, sq, lockVars, kpc, timerVars, frozen, irq_on,
                 listed, csts_cfs, executed>>

Unsubmitted(q) ==
  \E c \in Tasks : pc[c] \in {"set_state", "submit"} /\ slot[c][1] = q

ClearWith(q, cancelled) ==
  /\ \/ q = "io" /\ Step("clear_io", "clear_admin")
     \/ q = "admin" /\ Step("clear_admin", "start")
  /\ q_lock[q] = None
  /\ SubmitRaces \/ ~Unsubmitted(q)
  /\ Complete(cancelled, "abort")
  /\ UNCHANGED <<pc, slot, ringVars, lockVars, kpc, timerVars, frozen, irq_on, listed,
                 csts_cfs, executed>>

\* A bug: only the requests of the admin queue are cancelled.
ResetClearAdminOnly(q) ==
  ClearWith(q, {s \in Slots : s[1] = q /\ q = "admin" /\ req[s].busy})
\* nvme_clear_queue: nvme_cancel_queue_ios for the requests in use; for one
\* that has ended already, special_completion does nothing.
ResetClear(q) == ClearWith(q, {s \in Slots : s[1] = q /\ req[s].busy})

ConfigureWith(held) ==
  /\ Step("start", "init")
  /\ dev_list_lock = None
  /\ sq' = held
  /\ csts_cfs' = FALSE
  /\ irq_on' = [irq_on EXCEPT !["admin"] = TRUE]
  /\ listed' = TRUE
  /\ kpc' = "idle"
  /\ UNCHANGED <<req, taskVars, cq, lockVars, timerVars, frozen, abort_limit, executed>>

\* A bug: the controller is not disabled first.
ResetConfigureOnly == ConfigureWith(sq)
\* nvme_configure_admin_queue: the controller is disabled, which makes it
\* forget its commands, and enabled; the admin queue has its interrupt.  The
\* device is listed, and nvme_kthread runs, before the queues are initialised.
ResetConfigure == ConfigureWith([q \in Queues |-> {}])

\* nvme_init_queue, and nvme_alloc_admin_tags, which unfreezes.
ResetInitAdmin ==
  /\ Step("init", "setup")
  /\ q_lock["admin"] = None
  /\ cq' = [cq EXCEPT !["admin"] = << >>]
  /\ frozen' = [frozen EXCEPT !["admin"] = FALSE]
  /\ UNCHANGED <<req, taskVars, sq, lockVars, kpc, timerVars,
                 irq_on, listed, csts_cfs, abort_limit, executed>>

\* nvme_create_queue, after the admin commands of nvme_setup_io_queues;
\* then nvme_unfreeze_queues.
ResetCreateIo ==
  /\ Step("create", "up")
  /\ q_lock["io"] = None
  /\ cq' = [cq EXCEPT !["io"] = << >>]
  /\ irq_on' = [irq_on EXCEPT !["io"] = TRUE]
  /\ frozen' = [frozen EXCEPT !["io"] = FALSE]
  /\ UNCHANGED <<req, taskVars, sq, lockVars, kpc, timerVars, listed, csts_cfs,
                 abort_limit, executed>>

-----------------------------------------------------------------------------
(* The controller (external).                                              *)

Alive == ~csts_cfs /\ rpc \notin {"suspend_admin", "drain", "clear_io", "clear_admin", "start"}

Entry(cmd, st) == [tag |-> cmd.tag, op |-> cmd.op, of |-> cmd.of, status |-> st]

Answer(q, cmd) ==
  /\ Alive
  /\ sq' = [sq EXCEPT ![q] = @ \ {cmd}]
  /\ cq' = [cq EXCEPT ![q] = Append(@, Entry(cmd, "answered"))]
  /\ executed' = [c \in Tasks |-> executed[c] \/ (cmd.op = "sync" /\ c = cmd.of)]
  /\ UNCHANGED <<req, taskVars, lockVars, kpc, timerVars, devVars,
                 abort_limit>>

\* An abort command that finds its target answers both.
ExecuteAbort(cmd, target) ==
  /\ Alive
  /\ cmd.op = "abort"
  /\ target.tag = cmd.of
  /\ sq' = [sq EXCEPT !["admin"] = @ \ {cmd}, !["io"] = @ \ {target}]
  /\ cq' = [cq EXCEPT !["admin"] = Append(@, Entry(cmd, "answered")),
                      !["io"] = Append(@, Entry(target, "abort"))]
  /\ UNCHANGED <<req, taskVars, lockVars, kpc, timerVars, devVars,
                 abort_limit, executed>>

\* A fatal status.  One that strikes while the reset is under way would
\* leave the worker waiting for its own command for good, because then
\* both ways to queue a reset find the work busy; it is not followed.
Fail ==
  /\ rpc = "up"
  /\ ~csts_cfs
  /\ csts_cfs' = TRUE
  /\ UNCHANGED <<req, taskVars, ringVars, lockVars, kpc, timerVars, rpc,
                 frozen, irq_on, listed, abort_limit, executed>>

-----------------------------------------------------------------------------
Task(c) ==
  (\E s \in Slots : Alloc(c, s)) \/ SetState(c) \/ Submit(c) \/ Return(c)

Kthread == KthreadPoll \/ KthreadProcess \/ KthreadNext \/ KthreadSleep

Timer(q) == TimerAbortReq(q) \/ TimerReset(q) \/ TimerStore(q) \/ TimerSubmit(q)

Reset ==
  \/ ResetUnlist \/ ResetSuspendIo \/ ResetSuspendAdmin \/ ResetDrain
  \/ (\E q \in Queues : ResetClear(q))
  \/ ResetConfigure \/ ResetInitAdmin \/ ResetCreateIo

Controller ==
  \/ \E q \in Queues : \E cmd \in sq[q] : Answer(q, cmd)
  \/ \E cmd \in sq["admin"], target \in sq["io"] : ExecuteAbort(cmd, target)
  \/ Fail

Next ==
  \/ \E c \in Tasks : Task(c)
  \/ \E q \in Queues : Irq(q) \/ Timer(q)
  \/ \E s \in Slots : TimerFires(s)
  \/ Kthread
  \/ Reset
  \/ Controller

\* Spin locks are granted to whoever keeps asking; the timer of a queue
\* with a request in use expires; and the controller serves the admin
\* commands of a reset.  It need not answer anything else, and no
\* interrupt need arrive.
Fairness ==
  /\ \A c \in Callers : SF_vars(SetState(c) \/ Submit(c) \/ Return(c))
  /\ SF_vars(Task(Worker))
  /\ \A q \in Queues : /\ SF_vars(Timer(q))
                       /\ WF_vars(\E s \in Slots : s[1] = q /\ TimerFires(s))
  /\ SF_vars(Kthread)
  /\ SF_vars(Reset)
  /\ WF_vars(rpc # "up" /\ \E cmd \in sq["admin"] : Answer("admin", cmd))

Spec == Init /\ [][Next]_vars

FairSpec == Spec /\ Fairness

-----------------------------------------------------------------------------
Functions == {"sync_completion", "abort_completion", "special_completion"}

\* Every variable has its type.
TypeOK ==
  /\ req \in [Slots -> [busy : BOOLEAN, fn : Functions,
                        ctx : Tasks \cup {None},
                        aborted : BOOLEAN]]
  /\ pc \in [Tasks -> {"idle", "set_state", "submit", "schedule"}]
  /\ slot \in [Tasks -> Slots \cup {None}]
  /\ task_state \in [Tasks -> {"RUNNING", "UNINTERRUPTIBLE"}]
  /\ status \in [Tasks -> {"none", "EINTR", "answered", "abort"}]
  /\ q_lock \in [Queues -> Queues \cup {None}]
  /\ dev_list_lock \in {"kthread", None}
  /\ abort_limit \in Nat

\* A request that will call sync_completion belongs to the task its ctx names,
\* and that task is still inside nvme_submit_sync_cmd, in whose stack frame ctx
\* points; and a task that sleeps there still has such a request, which a
\* completion, or else the timer and a reset, will find.
FrameHasRequest ==
  /\ \A s \in Slots : req[s].fn = "sync_completion" =>
       \E c \in Tasks : req[s].ctx = c /\ slot[c] = s /\ pc[c] # "idle"
  /\ \A c \in Tasks : pc[c] = "schedule" /\ task_state[c] = "UNINTERRUPTIBLE" =>
       /\ req[slot[c]].busy
       /\ req[slot[c]].fn = "sync_completion"
       /\ req[slot[c]].ctx = c

\* A command the controller holds, or an entry it has posted, carries the
\* tag of a request that its submitter still holds, except for commands
\* that a reset has cancelled, whose tag nobody can allocate before the
\* queue has been initialised again.
TagNotReused ==
  \A q \in Queues :
    \A m \in sq[q] \cup {cq[q][i] : i \in 1..Len(cq[q])} :
      m.op = "sync" => slot[m.of] = <<q, m.tag>> \/ frozen[q]

\* nvme_submit_sync_cmd never returns before its command has ended: what
\* it returns is not the -EINTR it started from, and a status other than
\* that of an abort is one the controller gave to this very command.
StatusIsReal ==
  \A c \in Tasks : pc[c] = "schedule" /\ task_state[c] = "RUNNING" =>
    /\ status[c] # "EINTR"
    /\ status[c] # "abort" => executed[c]

\* nvme_kthread waits for a q_lock with dev_list_lock held, and the timer
\* that holds the q_lock waits for dev_list_lock, or for the q_lock of the
\* admin queue whose holder does.
LockCycle ==
  /\ kpc \in Queues
  /\ \/ tpc[kpc] = "reset"
     \/ kpc = "io" /\ tpc["io"] = "submit" /\ tpc["admin"] = "reset"

\* Every synchronous command returns, whatever the controller does with
\* it, unless the two locks are taken in a cycle.
EveryCallerReturns ==
  \A c \in Callers : pc[c] = "schedule" ~> (pc[c] = "idle" \/ LockCycle)
=============================================================================
