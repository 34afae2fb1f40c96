------------------------------ MODULE NvmeQueue ------------------------------
(***************************************************************************)
(* One struct nvme_queue of nvme-core.c and its controller side: the       *)
(* submission ring written by __nvme_submit_cmd, the completion ring read  *)
(* by nvme_process_cq from the interrupt, from nvme_kthread's poll, from   *)
(* nvme_queue_rq and from nvme_disable_queue, and the teardown and         *)
(* re-creation of the queue by a controller reset.                         *)
(*                                                                         *)
(* q_lock serialises the driver's users of the rings; the controller runs  *)
(* beside them.  Each store the controller can observe is a step.  Only    *)
(* the holder of q_lock has locals in use, so one set of them is enough.   *)
(*                                                                         *)
(* cqe_seen and nvme_irq_check only decide what the interrupt handler      *)
(* reports to the kernel and are left out.                                 *)
(***************************************************************************)
EXTENDS Integers, Sequences, FiniteSets

CONSTANTS Tags,        \* identifiers of the commands that use this queue
          CharioTags,  \* those of the character device, in chario_cmds
          Numberings,  \* the ways the commands may be numbered
          NCmds,       \* ids below it are looked up in chario_cmds: 32 on an
                       \* I/O queue, 0 on the admin queue
          q_depth,     \* entries of each ring
          ResetPaths,  \* how nvme_dev_shutdown takes the queue down
          MaxResets,   \* bound: controller resets in a behaviour
          Overlap      \* may commands be submitted during a reset?

ASSUME DepthAssumption == q_depth \in Nat /\ q_depth >= 2

ASSUME TagsAssumption ==
    /\ IsFiniteSet(Tags) /\ Cardinality(Tags) < q_depth
    /\ CharioTags \subseteq Tags

\* Requests have different numbers, and so have the character device's commands,
\* whose numbers are indices of chario_cmds.
ASSUME NumberAssumption ==
    /\ NCmds \in Nat
    /\ Numberings \subseteq [Tags -> Nat]
    /\ \A f \in Numberings : \A t, u \in Tags :
         /\ t \in CharioTags => f[t] < NCmds
         /\ f[t] = f[u] /\ (t \in CharioTags <=> u \in CharioTags) => t = u

ASSUME ResetAssumption ==
    /\ ResetPaths \subseteq {"suspend", "disable"}
    /\ MaxResets \in Nat
    /\ Overlap \in BOOLEAN

VARIABLES
    sq_cmds, sq_tail,            \* submission ring and the driver's tail
    cqes, cq_head, cq_phase,     \* completion ring and the driver's place
    q_db,                        \* the two doorbell registers [sq, cq]
    number,                      \* the command_id of each tag
    info,                        \* nvme_cmd_info of each tag
    unsent,                      \* tags prepared and not yet submitted
    lock, cur, head, phase,      \* q_lock's user, its command, its locals
    ctrl,                        \* controller: fetch and post positions
    working,                     \* controller: commands being executed
    stage, path, resets          \* how far a reset has come, and its path

driver == <<sq_cmds, sq_tail, cq_head, cq_phase>>
held   == <<lock, cur, head, phase>>
reset  == <<stage, path, resets>>
vars   == <<driver, cqes, q_db, number, info, unsent, held, ctrl, working, reset>>

None == "none"

\* Who runs nvme_process_cq: nvme_irq, nvme_kthread, nvme_queue_rq,
\* nvme_disable_queue.
Handlers == {"irq", "kthread", "queue_rq", "teardown"}

Requests == Tags \ CharioTags     \* tags of the block layer's requests

\* The command structure nvme_finish_cmd finds for the entry of t: by the number
\* alone, whoever the command belongs to, and none beyond the queue's depth.
Found(t) ==
    {u \in IF number[t] < NCmds THEN CharioTags ELSE Requests :
        number[u] = number[t] /\ number[t] < q_depth}

\* Commands whose own entry does not reach them.
Deaf == {t \in Tags : t \notin Found(t)}

\* No request has the number of a command of the character device.
Apart == \A f \in Numberings, r \in Requests, c \in CharioTags : f[r] # f[c]

Slots == 0 .. q_depth - 1
Next1(i) == IF i + 1 = q_depth THEN 0 ELSE i + 1

Stages == {"up", "frozen", "suspended", "quiet", "deleted", "drained",
           "unmapped", "cleared", "listed", "created", "irq"}

EmptyCqe == [tag |-> None, phase |-> 0]
FreshCtrl == [sq_head |-> 0, cq_tail |-> 0, phase |-> 1]

Init ==
    /\ sq_cmds = [i \in Slots |-> None] /\ sq_tail = 0
    /\ cqes = [i \in Slots |-> EmptyCqe] /\ cq_head = 0 /\ cq_phase = 1
    /\ q_db = [sq |-> 0, cq |-> 0]
    /\ number \in Numberings
    /\ info = [t \in Tags |-> "completed"] /\ unsent = {}
    /\ lock = None /\ cur = None /\ head = 0 /\ phase = 0
    /\ ctrl = FreshCtrl /\ working = {}
    /\ stage = "up" /\ path = None /\ resets = 0

-----------------------------------------------------------------------------
(* Submitting a command.                                                   *)

\* nvme_set_info: the tag is the caller's until its completion, and its
\* command structure says which function completes it.  Requests of a frozen
\* queue wait in blk_mq_alloc_request; nothing stops the character device.
nvme_set_info(t) ==
    /\ stage = "up" \/ (Overlap /\ t \in CharioTags)
    /\ t \notin unsent
    /\ info[t] \in {"completed", "cancelled"}
    /\ info' = [info EXCEPT ![t] = "started"]
    /\ unsent' = unsent \cup {t}
    /\ UNCHANGED <<number, driver, cqes, q_db, held, ctrl, working, reset>>

\* nvme_submit_cmd takes q_lock and __nvme_submit_cmd copies the command.
\* Nothing compares sq_tail with the controller's head.
SubmitCopy(t) ==
    /\ t \in unsent /\ lock = None
    /\ lock' = "submit" /\ cur' = t
    /\ unsent' = unsent \ {t}
    /\ sq_cmds' = [sq_cmds EXCEPT ![sq_tail] = t]
    /\ UNCHANGED <<number, sq_tail, cq_head, cq_phase, cqes, q_db, info, head, phase,
                   ctrl, working, reset>>

\* The doorbell takes the slot the driver will use next, with the ring's
\* wrap-around, and the tail is stored.  nvme_submit_cmd then drops q_lock;
\* nvme_queue_rq, which submits requests, keeps it and goes on with
\* nvme_process_cq.
RingWith(tail) ==
    /\ lock = "submit"
    /\ q_db' = [q_db EXCEPT !.sq = tail]
    /\ sq_tail' = tail
    /\ \/ lock' = None /\ UNCHANGED <<head, phase>>
       \/ /\ cur \in Requests
          /\ lock' = "queue_rq" /\ head' = cq_head /\ phase' = cq_phase
    /\ cur' = None
    /\ UNCHANGED <<number, sq_cmds, cq_head, cq_phase, cqes, info, unsent, ctrl, working,
                   reset>>

\* A bug: the tail is not wrapped.
SubmitRingNoWrap == RingWith(sq_tail + 1)
SubmitRing == RingWith(Next1(sq_tail))

-----------------------------------------------------------------------------
(* Consuming completions: nvme_process_cq under q_lock.                    *)

\* An interrupt is served while its handler is installed, the poll visits the
\* devices of dev_list, and nvme_disable_queue looks once more after the
\* controller has deleted the queue.  The fourth caller, nvme_queue_rq, comes
\* from SubmitRing with q_lock held.
MayProcess(h) ==
    \/ h = "irq" /\ stage \in {"up", "frozen", "suspended", "irq"}
    \/ h = "kthread" /\ stage \in {"up", "listed", "created", "irq"}
    \/ h = "teardown" /\ stage = "deleted" /\ path = "disable"

ProcessStart(h) ==
    /\ lock = None /\ MayProcess(h)
    /\ lock' = h /\ head' = cq_head /\ phase' = cq_phase
    /\ UNCHANGED <<number, driver, cqes, q_db, info, unsent, cur, ctrl, working, reset>>

\* One turn of the loop: the entry is new when its phase bit is the expected
\* one; nvme_finish_cmd gives the completion function of the structure it finds,
\* which ignores a command that was cancelled.
EntryWith(isNew) ==
    /\ lock \in Handlers /\ isNew
    /\ head' = Next1(head)
    /\ phase' = IF head' = 0 THEN 1 - phase ELSE phase
    /\ info' = [t \in Tags |->
                   IF cqes[head].tag \in Tags /\ t \in Found(cqes[head].tag)
                   THEN "completed" ELSE info[t]]
    /\ UNCHANGED <<number, driver, cqes, q_db, unsent, lock, cur, ctrl, working, reset>>

\* A bug: an entry is taken for new whatever its phase bit.
EntryIgnoresPhase == EntryWith(cqes[head].tag # None)
ProcessEntry == EntryWith(cqes[head].phase = phase)

\* No new entry: the doorbell is written unless nothing was consumed, the
\* place is stored and q_lock dropped.
ProcessExitWith(newHead, newPhase) ==
    /\ lock \in Handlers /\ cqes[head].phase # phase
    /\ q_db' = IF head = cq_head /\ phase = cq_phase THEN q_db
               ELSE [q_db EXCEPT !.cq = newHead]
    /\ cq_head' = newHead /\ cq_phase' = newPhase
    /\ lock' = None /\ head' = 0 /\ phase' = 0
    /\ stage' = IF lock = "teardown" THEN "drained" ELSE stage
    /\ UNCHANGED <<number, sq_cmds, sq_tail, cqes, info, unsent, cur, ctrl, working,
                   path, resets>>

ProcessExit == ProcessExitWith(head, phase)

-----------------------------------------------------------------------------
(* The controller.                                                         *)

Alive == stage \notin {"deleted", "drained", "unmapped", "cleared", "listed"}

CtrlFetch ==
    /\ Alive /\ ctrl.sq_head # q_db.sq
    /\ working' = working \cup {sq_cmds[ctrl.sq_head]}
    /\ ctrl' = [ctrl EXCEPT !.sq_head = Next1(@)]
    /\ UNCHANGED <<number, driver, cqes, q_db, info, unsent, held, reset>>

\* Commands finish in any order.  The completion ring is full when its tail
\* would meet the head the driver last announced.
CtrlPost(t) ==
    /\ Alive /\ t \in working
    /\ Next1(ctrl.cq_tail) # q_db.cq
    /\ cqes' = [cqes EXCEPT ![ctrl.cq_tail] =
                    [tag |-> t, phase |-> ctrl.phase]]
    /\ ctrl' = [ctrl EXCEPT !.cq_tail = Next1(@),
                            !.phase = IF Next1(ctrl.cq_tail) = 0 THEN 1 - @ ELSE @]
    /\ working' = working \ {t}
    /\ UNCHANGED <<number, driver, q_db, info, unsent, held, reset>>

-----------------------------------------------------------------------------
(* A controller reset: nvme_dev_shutdown and then nvme_dev_resume.         *)

\* nvme_dev_list_remove (which waits for the poll) and nvme_freeze_queues.
\* Freezing waits neither for requests that have already been prepared nor for
\* the character device; without Overlap both have been submitted by then.
\* Path "disable" is nvme_disable_queue: the admin queue, and the I/O queues
\* when there is no worker.  On path "suspend" nvme_suspend_queue is all that is
\* done to the driver's side: for I/O queues that the worker deletes, which is
\* the ordinary shutdown, and for a controller that has failed.
Freeze ==
    /\ stage = "up" /\ resets < MaxResets
    /\ lock # "kthread"
    /\ Overlap \/ (unsent = {} /\ lock # "submit")
    /\ stage' = "frozen" /\ resets' = resets + 1
    /\ path' \in ResetPaths
    /\ UNCHANGED <<number, driver, cqes, q_db, info, unsent, held, ctrl, working>>

\* nvme_suspend_queue: cq_vector is cleared under q_lock ...
nvme_suspend_queue ==
    /\ stage = "frozen" /\ lock = None
    /\ stage' = "suspended"
    /\ UNCHANGED <<number, driver, cqes, q_db, info, unsent, held, ctrl, working, path,
                   resets>>

\* ... and free_irq waits for a running handler.
FreeIrq ==
    /\ stage = "suspended" /\ lock # "irq"
    /\ stage' = "quiet"
    /\ UNCHANGED <<number, driver, cqes, q_db, info, unsent, held, ctrl, working, path,
                   resets>>

\* The controller loses its queues: by the two deletion commands, or because it
\* is shut down or has failed.
DeleteQueues ==
    /\ stage = "quiet"
    /\ stage' = "deleted"
    /\ working' = {} /\ ctrl' = [ctrl EXCEPT !.sq_head = q_db.sq]
    /\ UNCHANGED <<number, driver, cqes, q_db, info, unsent, held, path, resets>>

UnmapFrom(stages) ==
    /\ stage \in stages
    /\ stage' = "unmapped"
    /\ UNCHANGED <<number, driver, cqes, q_db, info, unsent, held, ctrl, working, path,
                   resets>>

\* A bug: nvme_disable_queue does not look at the ring once more.
UnmapUndrained == UnmapFrom({"deleted", "drained"})
nvme_dev_unmap == UnmapFrom({IF path = "disable" THEN "drained" ELSE "deleted"})

\* nvme_clear_queue: every started request is cancelled and its user told.
\* The iterator is the block layer's: it does not know chario_cmds.
ClearWith(cancelled) ==
    /\ stage = "unmapped" /\ lock = None
    /\ stage' = "cleared"
    /\ info' = [t \in Tags |-> IF t \in cancelled THEN "cancelled" ELSE info[t]]
    /\ UNCHANGED <<number, driver, cqes, q_db, unsent, held, ctrl, working, path, resets>>

\* A bug: the command in the first slot is not cancelled.
ClearSkipsFirst ==
    ClearWith({t \in Requests : info[t] = "started" /\ t # sq_cmds[0]})
nvme_clear_queue == ClearWith({t \in Requests : info[t] = "started"})

\* nvme_dev_start maps the registers and puts the device on dev_list, where
\* nvme_kthread finds it.
nvme_dev_start ==
    /\ stage = "cleared"
    /\ stage' = "listed"
    /\ UNCHANGED <<number, driver, cqes, q_db, info, unsent, held, ctrl, working, path,
                   resets>>

\* nvme_create_queue: the controller creates both queues, empty ...
nvme_create_queue ==
    /\ stage = "listed"
    /\ stage' = "created"
    /\ ctrl' = FreshCtrl /\ q_db' = [sq |-> 0, cq |-> 0]
    /\ UNCHANGED <<number, driver, cqes, info, unsent, held, working, path, resets>>

\* ... the interrupt handler is installed ...
queue_request_irq ==
    /\ stage = "created"
    /\ stage' = "irq"
    /\ UNCHANGED <<number, driver, cqes, q_db, info, unsent, held, ctrl, working, path,
                   resets>>

\* ... and nvme_init_queue starts the driver's side again; nvme_unfreeze_queues
\* then lets requests in.
InitQueueWith(cleared) ==
    /\ stage = "irq" /\ lock = None
    /\ stage' = "up"
    /\ sq_tail' = 0 /\ cq_head' = 0 /\ cq_phase' = 1
    /\ cqes' = cleared
    /\ UNCHANGED <<number, sq_cmds, q_db, info, unsent, held, ctrl, working, path,
                   resets>>

\* A bug: the completion ring is not zeroed.
InitQueueKeepsEntries == InitQueueWith(cqes)
nvme_init_queue == InitQueueWith([i \in Slots |-> EmptyCqe])

-----------------------------------------------------------------------------

Next ==
    \/ \E t \in Tags : nvme_set_info(t) \/ SubmitCopy(t) \/ CtrlPost(t)
    \/ SubmitRing
    \/ \E h \in Handlers : ProcessStart(h)
    \/ ProcessEntry \/ ProcessExit
    \/ CtrlFetch
    \/ Freeze \/ nvme_suspend_queue \/ FreeIrq \/ DeleteQueues
    \/ nvme_dev_unmap \/ nvme_clear_queue \/ nvme_dev_start
    \/ nvme_create_queue \/ queue_request_irq \/ nvme_init_queue

Spec == Init /\ [][Next]_vars

LockHolderStep == SubmitRing \/ ProcessEntry \/ ProcessExit

ResetStep ==
    \/ nvme_suspend_queue \/ FreeIrq \/ DeleteQueues
    \/ ProcessStart("teardown") \/ nvme_dev_unmap \/ nvme_clear_queue
    \/ nvme_dev_start \/ nvme_create_queue \/ queue_request_irq
    \/ nvme_init_queue

\* A holder of q_lock does not sleep; a prepared command is submitted; the
\* controller makes progress; nvme_kthread polls every second, so that no
\* interrupt is relied on; a reset runs to its end.  Whoever wants q_lock gets
\* it in the end (strong fairness).
Fairness ==
    /\ \A t \in Tags : SF_vars(SubmitCopy(t)) /\ WF_vars(CtrlPost(t))
    /\ WF_vars(LockHolderStep)
    /\ SF_vars(ProcessStart("kthread"))
    /\ WF_vars(CtrlFetch)
    /\ SF_vars(ResetStep)

FairSpec == Spec /\ Fairness

-----------------------------------------------------------------------------
(* Properties.                                                             *)

\* The variables have their types.
TypeOK ==
    /\ sq_cmds \in [Slots -> Tags \cup {None}] /\ sq_tail \in Slots
    /\ cqes \in [Slots -> [tag : Tags \cup {None}, phase : 0 .. 1]]
    /\ cq_head \in Slots /\ cq_phase \in 0 .. 1
    /\ q_db \in [sq : Slots, cq : Slots]
    /\ number \in Numberings
    /\ info \in [Tags -> {"started", "completed", "cancelled"}]
    /\ unsent \subseteq Tags
    /\ lock \in Handlers \cup {None, "submit"} /\ cur \in Tags \cup {None}
    /\ head \in Slots /\ phase \in 0 .. 1
    /\ ctrl \in [sq_head : Slots, cq_tail : Slots, phase : 0 .. 1]
    /\ working \subseteq Tags \cup {None}
    /\ stage \in Stages /\ path \in ResetPaths \cup {None}
    /\ resets \in 0 .. MaxResets

\* The slots of a ring from i up to, not including, j, and what the n slots
\* from i on hold, in ring order.
Wrap(i) == IF i < q_depth THEN i ELSE i - q_depth
Distance(i, j) == IF i <= j THEN j - i ELSE j - i + q_depth
Queued(ring, i, n) == [k \in 1 .. n |-> ring[Wrap(i + (k - 1))]]

\* Where the driver is in the completion ring, and how many slots from there on
\* hold completions it has yet to see: those whose phase bit says so.
ReadAt    == IF lock \in Handlers THEN head ELSE cq_head
ReadPhase == IF lock \in Handlers THEN phase ELSE cq_phase
Lap(i, p) == IF i < q_depth THEN p ELSE 1 - p
NewAt(ring, i, p, k) == ring[Wrap(i + k)].phase = Lap(i + k, p)
CountNew(ring, i, p) ==
    CHOOSE n \in 0 .. q_depth :
        /\ \A k \in 0 .. n - 1 : NewAt(ring, i, p, k)
        /\ n = q_depth \/ ~NewAt(ring, i, p, n)
Unseen == CountNew(cqes, ReadAt, ReadPhase)

todo == Queued(sq_cmds, ctrl.sq_head, Distance(ctrl.sq_head, q_db.sq))
CqTags == [i \in Slots |-> cqes[i].tag]
finished == Queued(CqTags, ReadAt, Unseen)

\* The rings, doorbells and phase bits implement the abstract queue pair:
\* no command is overwritten before the controller fetches it, no completion
\* is missed, seen twice or taken from a stale slot, whatever the interleaving
\* of submitters, interrupt, poll, controller and reset.
Pair == INSTANCE QueuePair
ImplementsQueuePair == Pair!Spec

\* What the rings hold agrees with the command structures: a tag is in flight
\* only for a caller that still waits for it or was told of its cancellation,
\* so its structure is never reused under a pending completion.
InFlightIsOwned ==
    \A t \in Pair!Outstanding \ {None} :
        /\ t \notin unsent
        /\ info[t] \in {"started", "cancelled"}
        /\ stage = "up" => info[t] = "started"

\* The other way round: the controller or the rings really hold every command
\* a caller waits for while the queue is in service; none is dropped.  Excepted
\* are the commands nvme_finish_cmd cannot find (Deaf: on an I/O queue requests
\* with low numbers), whose entries are consumed for nothing.  After a reset it
\* holds of requests only: nothing tells a user of the character device that its
\* commands went with the old rings.
WaitedForIsInFlight ==
    stage = "up" =>
        \A t \in (IF resets = 0 THEN Tags ELSE Requests) \ Deaf :
            info[t] = "started" => t \in Pair!Outstanding \cup unsent \cup {cur}

\* While the registers are unmapped the driver writes no doorbell, whichever way
\* the queue went down.  If nvme_disable_queue drained its completion ring this
\* lasts until nvme_init_queue, although nvme_kthread finds the device on
\* dev_list before that.  It does not when the queue was only suspended, as I/O
\* queues ordinarily are: nvme_kthread then consumes what the old ring holds and
\* writes the doorbell of a queue that is not initialised yet.
QuietUntilInit ==
    [][(/\ \/ stage \in {"unmapped", "cleared"}
           \/ path = "disable" /\ stage \in {"listed", "created", "irq"}
        /\ stage' = stage) => UNCHANGED q_db]_vars

\* The controller has been told of a place in the completion ring the driver is
\* not at: nvme_kthread or the new interrupt handler wrote the doorbell between
\* the creation of the queue and nvme_init_queue.
Strayed == stage = "up" /\ q_db.cq # cq_head

\* Every command ends: it is completed, or cancelled by a reset, even if no
\* interrupt is ever served.  Excepted are the commands nvme_finish_cmd cannot
\* find, those of the character device once there is a reset, and a queue whose
\* doorbell has strayed.
EveryCommandEnds ==
    \A t \in Tags :
        (info[t] = "started" /\ t \notin Deaf) ~>
            (info[t] # "started" \/ Strayed \/ (t \in CharioTags /\ resets > 0))
=============================================================================
