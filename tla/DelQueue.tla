------------------------------ MODULE DelQueue -------------------------------
(***************************************************************************)
(* nvme_disable_io_queues of nvme-core.c: the deletion of the I/O queues   *)
(* by a kthread worker that lives on the caller's stack, with asynchronous *)
(* admin commands, a reference count that says how many deletions are      *)
(* under way, and a waiter that gives up after ADMIN_TIMEOUT or a fatal    *)
(* signal.                                                                 *)
(*                                                                         *)
(* The caller is nvme_dev_shutdown inside reset_work, so the block layer's *)
(* own timer on the admin commands finds reset_work busy and does nothing  *)
(* (nvme_abort_req).                                                       *)
(***************************************************************************)
EXTENDS Integers, Sequences, FiniteSets

CONSTANTS NQueues,     \* I/O queues, numbered from 1
          AdminTags,   \* tags of the admin queue
          MayTimeOut   \* may schedule_timeout run out or a signal arrive?

ASSUME DelQueueAssumption ==
    NQueues \in Nat \ {0} /\ AdminTags \in Nat \ {0} /\ MayTimeOut \in BOOLEAN

VARIABLES
    pc, i,               \* the caller: its place and its loop variable
    asleep,              \* the caller's task state is TASK_KILLABLE
    refcount, waiter,    \* struct nvme_delq_ctx
    works, running,      \* the worker: its list and the work it runs
    putting,             \* the worker is between the two halves of nvme_put_dq
    fn, status,          \* cmdinfo.work's function and cmdinfo.status
    admin,               \* queues whose admin command is outstanding
    enabled,             \* the controller answers
    deleted              \* what the controller has deleted: <<"sq" or "cq", q>>

caller == <<pc, i, asleep>>
dq     == <<refcount, waiter>>
worker == <<works, running, putting>>
cmd    == <<fn, status, admin>>
vars   == <<caller, dq, worker, cmd, enabled, deleted>>

None   == 0
Flush  == -1                  \* the work flush_kthread_worker waits for
Queues == 1 .. NQueues
Functions == {"start", "del_sq", "del_cq"}

Init ==
    /\ pc = "queueing" /\ i = NQueues /\ asleep = FALSE
    /\ refcount = 0 /\ waiter = FALSE
    /\ works = <<>> /\ running = None /\ putting = FALSE
    /\ fn = [q \in Queues |-> "start"] /\ status = [q \in Queues |-> "none"]
    /\ admin = {} /\ enabled = TRUE /\ deleted = {}

-----------------------------------------------------------------------------
(* The caller.                                                             *)

\* The loop over the queues: one that nvme_suspend_queue finds suspended
\* already is skipped, every other gets a reference and its first work.
QueueWorkWith(count) ==
    /\ pc = "queueing" /\ i > 0
    /\ i' = i - 1
    /\ \/ /\ refcount' = count
          /\ works' = Append(works, i)
       \/ UNCHANGED <<refcount, works>>
    /\ UNCHANGED <<pc, asleep, waiter, running, putting, cmd, enabled, deleted>>

\* A bug: the count is set and not incremented.
QueueWorkOneRef == QueueWorkWith(1)
QueueWork == QueueWorkWith(refcount + 1)

\* nvme_wait_dq: the waiter is published before the count is read.
PublishWaiter ==
    /\ pc = "queueing" /\ i = 0
    /\ waiter' = TRUE /\ pc' = "waiting"
    /\ UNCHANGED <<i, asleep, refcount, worker, cmd, enabled, deleted>>

PrepareToWait ==
    /\ pc = "waiting"
    /\ asleep' = TRUE /\ pc' = "testing"
    /\ UNCHANGED <<i, dq, worker, cmd, enabled, deleted>>

TestRefcount ==
    /\ pc = "testing"
    /\ IF refcount = 0 THEN pc' = "stopping" /\ asleep' = FALSE
                       ELSE pc' = "sleeping" /\ UNCHANGED asleep
    /\ UNCHANGED <<i, dq, worker, cmd, enabled, deleted>>

Woken ==
    /\ pc = "sleeping" /\ ~asleep
    /\ pc' = "waiting"
    /\ UNCHANGED <<i, asleep, dq, worker, cmd, enabled, deleted>>

\* The time is up, or a fatal signal is pending: nvme_disable_ctrl.
GiveUp ==
    /\ pc = "sleeping" /\ MayTimeOut
    /\ asleep' = FALSE /\ enabled' = FALSE
    /\ pc' = "clearing"
    /\ UNCHANGED <<i, dq, worker, cmd, deleted>>

\* nvme_clear_queue(queues[0]): under q_lock, every outstanding command is
\* cancelled, and async_completion queues its work with an error status.  The
\* works end up in the list in the order of the tags, which is any order.
Orders(S) == {s \in [1 .. Cardinality(S) -> S] :
                  \A j, k \in DOMAIN s : s[j] = s[k] => j = k}

ClearAdminQueue ==
    /\ pc = "clearing"
    /\ \E s \in Orders(admin) : works' = works \o s
    /\ status' = [q \in Queues |-> IF q \in admin THEN "aborted" ELSE status[q]]
    /\ admin' = {}
    /\ pc' = "flushing"
    /\ UNCHANGED <<i, asleep, dq, running, putting, fn, enabled, deleted>>

\* flush_kthread_worker puts a work of its own at the end of the list and
\* waits until the worker has run it.
FlushStart ==
    /\ pc = "flushing"
    /\ works' = Append(works, Flush)
    /\ pc' = "flushed"
    /\ UNCHANGED <<i, asleep, dq, running, putting, cmd, enabled, deleted>>

\* nvme_disable_queue(dev, 0) finds nothing new in the completion queue.
FlushEnd ==
    /\ pc = "flushed" /\ \A k \in DOMAIN works : works[k] # Flush
    /\ pc' = "stopping"
    /\ UNCHANGED <<i, asleep, dq, worker, cmd, enabled, deleted>>

\* kthread_stop waits until the worker has left its current work; then the
\* function returns, and dq and the worker, on its stack, are gone.
StopWorker ==
    /\ pc = "stopping" /\ running = None
    /\ pc' = "returned"
    /\ UNCHANGED <<i, asleep, dq, worker, cmd, enabled, deleted>>

-----------------------------------------------------------------------------
(* The worker, kthread_worker_fn: one work at a time.                      *)

RunWork ==
    /\ pc # "returned" /\ running = None /\ works # <<>>
    /\ running' = IF Head(works) = Flush THEN None ELSE Head(works)
    /\ works' = Tail(works)
    /\ UNCHANGED <<caller, dq, putting, cmd, enabled, deleted>>

\* adapter_async_del_queue: a tag of the admin queue is waited for, the next
\* function is installed and the command submitted.  It also fails.
Submit(next) ==
    /\ Cardinality(admin) < AdminTags
    /\ fn' = [fn EXCEPT ![running] = next]
    /\ \/ /\ status' = [status EXCEPT ![running] = "interrupted"]
          /\ admin' = admin \cup {running}
          /\ running' = None /\ UNCHANGED putting
       \/ putting' = TRUE /\ UNCHANGED <<status, admin, running>>

\* nvme_del_queue_start
nvme_del_queue_start ==
    /\ running # None /\ ~putting /\ fn[running] = "start"
    /\ Submit("del_sq")
    /\ IF putting' THEN refcount' = refcount - 1 ELSE UNCHANGED refcount
    /\ UNCHANGED <<caller, waiter, works, enabled, deleted>>

\* nvme_del_sq_work_handler: a queue whose submission queue is gone goes on
\* with the completion queue, any other gives its reference back.
DelSqWith(goOn, noTag) ==
    /\ running # None /\ ~putting /\ fn[running] = "del_sq"
    /\ IF goOn
       THEN /\ Submit("del_cq")
            /\ IF putting' THEN refcount' = noTag ELSE UNCHANGED refcount
       ELSE /\ putting' = TRUE /\ refcount' = refcount - 1
            /\ UNCHANGED <<fn, status, admin, running>>
    /\ UNCHANGED <<caller, waiter, works, enabled, deleted>>

\* A bug: the status of the deletion is not looked at.
DelSqAnyStatus == DelSqWith(status[running] # "aborted", refcount - 1)
\* A bug: a reference is kept when the second command cannot be submitted.
DelSqKeepsRef == DelSqWith(status[running] = "ok", refcount)
nvme_del_sq_work_handler == DelSqWith(status[running] = "ok", refcount - 1)

\* nvme_del_cq_work_handler
\* A bug: a failed deletion gives its reference back and is run again.
DelCqTwice ==
    /\ running # None /\ ~putting /\ fn[running] = "del_cq"
    /\ putting' = (status[running] # "failed") /\ refcount' = refcount - 1
    /\ UNCHANGED <<caller, waiter, works, running, cmd, enabled, deleted>>

nvme_del_cq_work_handler ==
    /\ running # None /\ ~putting /\ fn[running] = "del_cq"
    /\ putting' = TRUE /\ refcount' = refcount - 1
    /\ UNCHANGED <<caller, waiter, works, running, cmd, enabled, deleted>>

\* The second half of nvme_put_dq: the count has been dropped, the waiter is
\* read from dq and woken.
WakeWaiter ==
    /\ running # None /\ putting
    /\ asleep' = IF waiter THEN FALSE ELSE asleep
    /\ running' = None /\ putting' = FALSE
    /\ UNCHANGED <<pc, i, dq, works, cmd, enabled, deleted>>

-----------------------------------------------------------------------------
(* The controller and the interrupt: async_completion.                     *)

Complete(q) ==
    /\ enabled /\ q \in admin
    /\ admin' = admin \ {q}
    /\ works' = Append(works, q)
    /\ \/ /\ status' = [status EXCEPT ![q] = "ok"]
          /\ deleted' = deleted \cup
                 {<<IF fn[q] = "del_sq" THEN "sq" ELSE "cq", q>>}
       \/ status' = [status EXCEPT ![q] = "failed"] /\ UNCHANGED deleted
    /\ UNCHANGED <<caller, dq, running, putting, fn, enabled>>

WorkerStep ==
    RunWork \/ nvme_del_queue_start \/ nvme_del_sq_work_handler
        \/ nvme_del_cq_work_handler \/ WakeWaiter

CallerStep ==
    QueueWork \/ PublishWaiter \/ PrepareToWait \/ TestRefcount \/ Woken
        \/ ClearAdminQueue \/ FlushStart \/ FlushEnd \/ StopWorker

Next == CallerStep \/ GiveUp \/ WorkerStep \/ (\E q \in Queues : Complete(q))

Spec == Init /\ [][Next]_vars

\* Both threads run whenever they can, and an enabled controller answers.
FairSpec ==
    /\ Spec
    /\ WF_vars(CallerStep) /\ WF_vars(WorkerStep)
    /\ \A q \in Queues : WF_vars(Complete(q))

-----------------------------------------------------------------------------
(* Properties.                                                             *)

\* The variables have their types.
TypeOK ==
    /\ pc \in {"queueing", "waiting", "testing", "sleeping", "clearing",
               "flushing", "flushed", "stopping", "returned"}
    /\ i \in 0 .. NQueues /\ asleep \in BOOLEAN
    /\ refcount \in 0 .. NQueues /\ waiter \in BOOLEAN
    /\ \A k \in DOMAIN works : works[k] \in Queues \cup {Flush}
    /\ running \in Queues \cup {None} /\ putting \in BOOLEAN
    /\ fn \in [Queues -> Functions]
    /\ status \in [Queues -> {"none", "interrupted", "ok", "failed", "aborted"}]
    /\ admin \subseteq Queues /\ enabled \in BOOLEAN
    /\ deleted \subseteq {"sq", "cq"} \X Queues

\* The queues whose deletion is under way: waiting for the worker, run by it,
\* or held by an outstanding command.
Listed == {works[k] : k \in DOMAIN works} \ {Flush}
Pending == Listed \cup admin
             \cup (IF running # None /\ ~putting THEN {running} ELSE {})

\* The reference count is exactly the number of deletions under way, and no
\* work is in the worker's list twice, through every success, failure and
\* cancellation: the waiter neither leaves early nor waits for nobody.
RefcountIsPending ==
    /\ refcount = Cardinality(Pending)
    /\ \A j, k \in DOMAIN works : works[j] = works[k] => j = k
    /\ Listed \cap admin = {} /\ running \notin Listed \cup admin

\* A completion queue is deleted only after its submission queue.
SqBeforeCq == \A q \in Queues : <<"cq", q>> \in deleted => <<"sq", q>> \in deleted

\* A wait that ended because the count was zero, and not because the caller
\* gave up, leaves nothing behind that knows the frame of dq and the worker:
\* no admin command is outstanding whose completion would queue its work, the
\* list is empty, and the worker is out of nvme_put_dq, which reads dq->waiter
\* after the count is already zero.
FlushedUnlessGivenUp ==
    pc = "returned" /\ enabled => admin = {} /\ works = <<>> /\ running = None

\* The comment in nvme_wait_dq: the admin queue is left enabled "until all
\* queue deletion requests are flushed".  Once the function has returned no
\* command is outstanding whose completion would queue work on the dead worker.
AllFlushed == pc = "returned" => admin = {} /\ works = <<>>

\* The function returns, whatever fails.
DisableReturns == <>(pc = "returned")
=============================================================================
