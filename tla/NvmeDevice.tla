----------------------------- MODULE NvmeDevice ------------------------------
(***************************************************************************)
(* What one controller's struct nvme_dev acquires and gives back: probing, *)
(* nvme_dev_start with its error labels, nvme_dev_add, shutdown, reset,    *)
(* system sleep and removal, in nvme-core.c.  Every call that can fail may *)
(* fail, and the names of the calls that did are recorded, so that a       *)
(* property can say which failures the code does not survive cleanly.      *)
(*                                                                         *)
(* The procedures run one after the other (Lifecycle has their             *)
(* concurrency), so each C function that only moves resources is an        *)
(* operator from a device to a device.                                     *)
(***************************************************************************)
EXTENDS Integers, Sequences, FiniteSets

CONSTANTS MaxQueues,   \* num_possible_cpus
          MaxResets,   \* bound: resets and sleeps of the device
          UINT         \* number of values of an unsigned int

ASSUME DeviceAssumption ==
    MaxQueues \in Nat \ {0} /\ MaxResets \in Nat /\ UINT \in Nat /\ UINT > 2 * (MaxQueues + 1)

VARIABLES dev,      \* the device
          pc,       \* the procedure that runs next
          why,      \* on whose behalf: probe, reset, suspend, resume, remove
          max_qid,  \* I/O queues nvme_setup_io_queues allows
          resets

vars == <<dev, pc, why, max_qid, resets>>

Resources == {"mem", "pci_ref", "instance", "pools", "device", "device_ref",
              "pci_enabled", "regions", "bar", "admin_tags", "admin_queue",
              "admin_ref", "tagset", "ns"}

Contexts == 0 .. MaxQueues     \* hardware contexts: 0 is the admin queue's

NewDevice ==
    [held |-> [r \in Resources |-> 0],
     queues |-> <<>>,                 \* queue i is queues[i + 1]
     online |-> 0,                    \* online_queues
     irqs |-> {},                     \* queues whose handler is requested
     cqs |-> {}, sqs |-> {},          \* I/O queues the controller has
     admin_q |-> "null",              \* null, live, dying, freed, err (ERR_PTR)
     frozen |-> 0,                    \* freeze depth of the admin queue
     ns_frozen |-> 0,                 \* freeze depth of the namespaces' queues
     ctx |-> [i \in Contexts |-> "none"],  \* none, bound, stale
     failed |-> {},                   \* calls that have failed
     spurious |-> FALSE,              \* free_irq of an irq not requested
     oops |-> "no"]                   \* the first invalid pointer that was used:
                                      \* no, context, admin_q, index

Init ==
    /\ dev = NewDevice /\ pc = "absent" /\ why = "probe"
    /\ max_qid = 0 /\ resets = 0

-----------------------------------------------------------------------------
(* Functions that move resources.                                          *)

Take(d, S) == [d EXCEPT !.held = [r \in Resources |-> IF r \in S THEN @[r] + 1 ELSE @[r]]]
Drop(d, S) == [d EXCEPT !.held = [r \in Resources |-> IF r \in S THEN @[r] - 1 ELSE @[r]]]
Fail(d, call) == [d EXCEPT !.failed = @ \cup {call}]
OopsIf(d, bad, what) == [d EXCEPT !.oops = IF @ = "no" /\ bad THEN what ELSE @]

queue_count(d) == Len(d.queues)

\* The structure is zeroed: until the queue is created its vector is 0, and
\* not the -1 of a suspended queue.
nvme_alloc_queue(d) ==
    [d EXCEPT !.queues = Append(@, [vector |-> 0, ready |-> FALSE])]

\* A hardware context keeps the address of the queue that is freed.
nvme_free_queues(d, lowest) ==
    LET n == queue_count(d)
    IN  [d EXCEPT !.queues = SubSeq(@, 1, IF lowest < n THEN lowest ELSE n),
                  !.ctx = [i \in Contexts |->
                      IF i >= lowest /\ i < n /\ @[i] = "bound" THEN "stale" ELSE @[i]]]

queue_request_irq(d, i) == [d EXCEPT !.irqs = @ \cup {i}]

nvme_init_queue(d, i) ==
    [d EXCEPT !.online = (@ + 1) % UINT, !.queues[i + 1].ready = TRUE]

BadAdmin(d) == d.admin_q \in {"freed", "err"}

\* The queues S are suspended one after the other, in any order.
Suspended(d, S) ==
    OopsIf([d EXCEPT !.online = (@ + UINT - Cardinality(S)) % UINT,
                     !.queues = [k \in DOMAIN @ |->
                         IF k - 1 \in S THEN [vector |-> -1, ready |-> FALSE] ELSE @[k]],
                     !.irqs = @ \ S,
                     !.spurious = @ \/ ~(S \subseteq d.irqs),
                     !.frozen = IF 0 \in S /\ d.admin_q # "null" THEN @ + 1 ELSE @],
           0 \in S /\ BadAdmin(d), "admin_q")

\* A bug: a queue is suspended though it is already.
SuspendAgain(d, Q) == Suspended(d, Q)
nvme_suspend_queue(d, Q) == Suspended(d, {i \in Q : d.queues[i + 1].vector # -1})

SuspendAll(d) == nvme_suspend_queue(d, 0 .. queue_count(d) - 1)

\* A bug: the regions are forgotten.
UnmapKeepsRegions(d) ==
    LET e == IF d.held["bar"] > 0 THEN Drop(d, {"bar"}) ELSE d
    IN  IF e.held["pci_enabled"] > 0 THEN Drop(e, {"pci_enabled"}) ELSE e

nvme_dev_unmap(d) ==
    LET e == IF d.held["bar"] > 0 THEN Drop(d, {"bar", "regions"}) ELSE d
    IN  IF e.held["pci_enabled"] > 0 THEN Drop(e, {"pci_enabled"}) ELSE e

\* Both paths of nvme_dev_shutdown suspend every queue once; the queues of the
\* namespaces are frozen when the registers are mapped.
nvme_freeze_queues(d) ==
    IF d.held["bar"] > 0 /\ d.held["ns"] > 0 THEN [d EXCEPT !.ns_frozen = @ + 1] ELSE d
nvme_unfreeze_queues(d) ==
    IF d.held["ns"] > 0 THEN [d EXCEPT !.ns_frozen = @ - 1] ELSE d

nvme_dev_shutdown(d) == nvme_dev_unmap(SuspendAll(nvme_freeze_queues(d)))

\* Reads the first online_queues entries of the table of queues.
nvme_set_irq_hints(d) == OopsIf(d, d.online > queue_count(d), "index")

\* nvme_exit_hctx stores through the context's pointer to its queue.
ExitContexts(d, S) ==
    OopsIf([d EXCEPT !.ctx = [i \in Contexts |-> IF i \in S THEN "none" ELSE @[i]]],
           \E i \in S : d.ctx[i] = "stale", "context")

\* The request queue outlives its clean-up only by the reference that
\* nvme_alloc_admin_tags takes.
nvme_dev_remove_admin(d) ==
    IF d.admin_q \in {"null", "dying"} THEN d
    ELSE OopsIf(Drop(ExitContexts([d EXCEPT !.admin_q =
                                       IF d.held["admin_ref"] > 0 THEN "dying" ELSE "freed"],
                                  {0}),
                     {"admin_queue", "admin_tags"}),
                BadAdmin(d), "admin_q")

nvme_dev_remove(d) == ExitContexts(d, Contexts \ {0})

\* The last reference: the tag set is freed when it was filled in, the admin
\* queue's reference is put whether there is one or not.
nvme_free_dev(d) ==
    OopsIf(Drop(d, {"pci_ref", "device_ref", "instance", "admin_ref", "mem"}
                     \cup (IF d.held["ns"] > 0 THEN {"ns"} ELSE {})
                     \cup (IF d.held["tagset"] > 0 \/ "tag_set" \in d.failed
                           THEN {"tagset"} ELSE {})),
           d.admin_q # "dying", "admin_q")

-----------------------------------------------------------------------------
(* nvme_probe, and nvme_dev_start in its steps.                            *)

Goto(d, place) == dev' = d /\ pc' = place
Running(place) == pc = place /\ dev.oops = "no"

\* What is held when a call of nvme_probe or nvme_dev_map fails, and what the
\* label it goes to gives back.
Held == [alloc |-> {}, instance |-> {"mem", "pci_ref"},
         pools |-> {"mem", "pci_ref", "instance"},
         device |-> {"mem", "pci_ref", "instance", "pools"},
         pci_enable |-> {}, regions |-> {"pci_enabled"},
         ioremap |-> {"pci_enabled", "regions"},
         csts |-> {"pci_enabled", "regions", "bar"}]

put_pci     == {"pci_ref", "mem"}
release     == {"instance"} \cup put_pci
disable_pci == {"pci_enabled"}
disable     == {"regions"} \cup disable_pci
Undo == [alloc |-> {}, instance |-> put_pci, pools |-> release,
         device |-> {"pools"} \cup release,
         pci_enable |-> {}, regions |-> disable_pci, ioremap |-> disable,
         csts |-> {"bar"} \cup disable]

Unwound(d, call) == Fail(Drop(Take(d, Held[call]), Undo[call]), call)

\* nvme_setup_prp_pools and nvme_set_instance fail as a whole: the first pool is
\* destroyed when the second cannot be made.
ProbeFailures == {"alloc", "instance", "pools", "device"}

nvme_probe ==
    /\ Running("absent")
    /\ \/ Goto(Take(dev, {"mem", "pci_ref", "instance", "pools", "device", "device_ref"}),
               "map")
       \/ \E call \in ProbeFailures :
              Goto(Unwound(dev, call), "gone")
    /\ UNCHANGED <<why, max_qid, resets>>

\* Regions that were not released cannot be requested again.
nvme_dev_map ==
    /\ Running("map")
    /\ \/ /\ dev.held["regions"] = 0
          /\ \/ Goto(Take(dev, {"pci_enabled", "regions", "bar"}), "admin")
             \/ \E call \in {"ioremap", "csts"} : Goto(Unwound(dev, call), "start_failed")
       \/ \E call \in {"pci_enable", "regions"} : Goto(Unwound(dev, call), "start_failed")
    /\ UNCHANGED <<why, max_qid, resets>>

\* The controller does not become ready, or not unready, in time, or a fatal
\* signal ends the wait.
NotReady(d, call) == Fail(d, call)

WithAdminQueue(d) == IF queue_count(d) = 0 THEN nvme_alloc_queue(d) ELSE d

\* The controller forgets its I/O queues.
nvme_disable_ctrl(d) == [d EXCEPT !.cqs = {}, !.sqs = {}]

nvme_configure_admin_queue ==
    /\ Running("admin")
    /\ \/ Goto(NotReady(dev, "disable_ctrl"), "unmap")
       \/ LET d == nvme_disable_ctrl(dev)
              e == WithAdminQueue(d)
          IN  \/ queue_count(d) = 0 /\ Goto(Fail(d, "alloc_admin"), "unmap")
              \/ Goto(nvme_free_queues(NotReady(e, "enable_ctrl"), 0), "unmap")
              \/ Goto(queue_request_irq([e EXCEPT !.queues[1].vector = 0], 0), "list")
    /\ UNCHANGED <<why, max_qid, resets>>

\* The device joins dev_list, and there is a thread or there is none.
JoinList ==
    /\ Running("list")
    /\ \/ Goto(nvme_init_queue(dev, 0), "tags")
       \/ Goto(Fail(dev, "thread"), "disable")
    /\ UNCHANGED <<why, max_qid, resets>>

\* The first start makes the admin request queue, later ones thaw it.
AdminTags(thaw, refs) ==
    /\ Running("tags")
    /\ \/ /\ dev.admin_q = "null"
          /\ \/ Goto(Fail(dev, "admin_tag_set"), "disable")
             \/ Goto(Fail([dev EXCEPT !.admin_q = "err"], "init_admin_q"), "disable")
             \/ LET d == [Take(dev, {"admin_tags", "admin_queue"}) EXCEPT
                              !.admin_q = "live", !.ctx[0] = "bound"]
                IN  \/ Goto(Fail(nvme_dev_remove_admin(d), "get_admin_q"), "disable")
                    \/ Goto(Take(d, refs), "io")
       \/ /\ dev.admin_q # "null"
          /\ Goto(OopsIf([dev EXCEPT !.frozen = @ - thaw], BadAdmin(dev), "admin_q"), "io")
    /\ UNCHANGED <<why, max_qid, resets>>

\* Bugs: the queue stays frozen; no reference is taken.
AdminTagsFrozen == AdminTags(0, {"admin_ref"})
AdminTagsNoRef == AdminTags(1, {})
nvme_alloc_admin_tags == AdminTags(1, {"admin_ref"})

\* nvme_setup_io_queues, up to the creation of the queues.  A dying request
\* queue refuses commands and a frozen one keeps them waiting; one whose
\* context is stale uses it.  The handler of the admin queue is freed and
\* requested again, and a reset may get fewer vectors than there are queues.
nvme_setup_io_queues ==
    /\ Running("io")
    /\ dev.admin_q = "live" => dev.frozen = 0
    /\ \/ Goto(Fail(dev, "set_features"), "free_tags") /\ UNCHANGED max_qid
       \/ /\ dev.admin_q = "live"
          /\ LET d == OopsIf(dev, dev.ctx[0] = "stale", "context")
                 e == [d EXCEPT !.irqs = @ \ {0}]
             IN  \/ Goto(nvme_set_irq_hints(Fail(d, "no_queues")), "started") /\ UNCHANGED max_qid
                 \/ Goto(Fail(Drop(d, {"bar"}), "remap"), "free_tags") /\ UNCHANGED max_qid
                 \/ \E vecs \in 1 .. MaxQueues :
                       /\ max_qid' = vecs
                       /\ \/ Goto(Fail(nvme_free_queues(e, 1), "admin_irq"), "free_tags")
                          \/ Goto(nvme_free_queues(
                                      IF vecs + 1 < queue_count(d) THEN Fail(d, "fewer_vectors")
                                      ELSE d, vecs + 1), "alloc")
    /\ UNCHANGED <<why, resets>>

\* nvme_create_io_queues: queues are allocated ...
AllocQueues ==
    /\ Running("alloc")
    /\ \/ /\ queue_count(dev) <= max_qid
          /\ Goto(nvme_alloc_queue(dev), "alloc")
       \/ queue_count(dev) <= max_qid /\ Goto(Fail(dev, "alloc_queue"), "create")
       \/ queue_count(dev) > max_qid /\ Goto(dev, "create")
    /\ UNCHANGED <<why, max_qid, resets>>

\* The devices after an admin command that was sent, whatever its status.  A
\* submission queue needs its completion queue.
adapter_alloc_cq(d, i) == {[d EXCEPT !.cqs = @ \cup {i}], Fail(d, "refused")}
adapter_alloc_sq(d, i) ==
    {Fail(d, "refused")} \cup {[d EXCEPT !.sqs = @ \cup {q}] : q \in d.cqs \cap {i}}
adapter_delete_sq(d, i) == {[d EXCEPT !.sqs = @ \ {i}], Fail(d, "delete")}
adapter_delete_cq(d, i) ==
    {Fail(d, "delete")} \cup {[d EXCEPT !.cqs = @ \ {q}] : q \in {i} \ d.sqs}

\* The labels of nvme_create_queue: a command could not be sent (a negative
\* result), or the interrupt not be requested.
release_cq(d, i) == UNION {adapter_delete_cq(e, i) : e \in adapter_alloc_cq(d, i)}
release_sq(d, i) ==
    UNION {UNION {UNION {adapter_delete_cq(g, i) : g \in adapter_delete_sq(f, i)}
                    : f \in adapter_alloc_sq(e, i)}
             : e \in adapter_alloc_cq(d, i)}

\* ... and created, from the number of those online.  The vector is set
\* first, and stays when the creation fails; a positive status is no failure.
nvme_create_queue ==
    /\ Running("create")
    /\ LET i == dev.online
       IN  \/ i > queue_count(dev) - 1 /\ Goto(nvme_set_irq_hints(dev), "started")
           \/ /\ i <= queue_count(dev) - 1
              /\ LET d == OopsIf([dev EXCEPT !.queues[i + 1].vector = i - 1], i = 0, "index")
                 IN  \/ \E e \in adapter_alloc_cq(d, i) :
                            \E f \in adapter_alloc_sq(e, i) :
                               Goto(nvme_init_queue(queue_request_irq(f, i), i), "create")
                     \/ \E e \in {d} \cup release_cq(d, i) \cup release_sq(d, i) :
                            Goto(nvme_set_irq_hints(Fail(e, "create")), "started")
    /\ UNCHANGED <<why, max_qid, resets>>

\* The labels free_tags, disable and unmap of nvme_dev_start.
FailStart ==
    /\ \/ /\ Running("free_tags")
          /\ Goto(nvme_dev_unmap(nvme_suspend_queue(nvme_dev_remove_admin(dev), {0})),
                  "start_failed")
       \/ /\ Running("disable")
          /\ Goto(nvme_dev_unmap(nvme_suspend_queue(dev, {0})), "start_failed")
       \/ Running("unmap") /\ Goto(nvme_dev_unmap(dev), "start_failed")
    /\ UNCHANGED <<why, max_qid, resets>>

-----------------------------------------------------------------------------
(* After nvme_dev_start.                                                   *)

\* nvme_async_probe goes on with nvme_dev_add when there are I/O queues.
nvme_async_probe ==
    /\ Running("started") /\ why = "probe"
    /\ Goto(dev, IF dev.online > 1 THEN "add" ELSE "up")
    /\ UNCHANGED <<why, max_qid, resets>>

\* nvme_dev_resume: without I/O queues nvme_remove_disks runs.
nvme_dev_resume ==
    /\ Running("started") /\ why \in {"reset", "resume", "reset_notify"}
    /\ Goto(IF dev.online < 2 THEN nvme_dev_remove(nvme_free_queues(dev, 1))
            ELSE nvme_set_irq_hints(nvme_unfreeze_queues(dev)), "up")
    /\ UNCHANGED <<why, max_qid, resets>>

\* A namespace's request queue has a context for each I/O queue that is online.
nvme_alloc_ns(d) ==
    [Take(d, {"ns"}) EXCEPT !.ctx = [i \in Contexts |->
                                        IF i \in 1 .. d.online - 1 THEN "bound" ELSE @[i]]]

\* nvme_dev_add: no tag set, or no namespace, is not an error.
nvme_dev_add ==
    /\ Running("add")
    /\ \/ /\ Goto(Fail(dev, "identify"), "shutdown") /\ why' = "reset"
       \/ /\ Goto(Fail(dev, "tag_set"), "up") /\ UNCHANGED why
       \/ /\ \/ Goto(Fail(Take(dev, {"tagset"}), "ns"), "up")
             \/ Goto(nvme_alloc_ns(Take(dev, {"tagset"})), "up")
          /\ UNCHANGED why
    /\ UNCHANGED <<max_qid, resets>>

\* A failed probe and a failed resume reset the device.  A failed reset gives
\* it up, and a failure after a reset notification is ignored.
StartFailed ==
    /\ Running("start_failed")
    /\ IF why \in {"reset", "reset_notify"} THEN Goto(dev, "dead") /\ UNCHANGED why
       ELSE Goto(dev, "shutdown") /\ why' = "reset"
    /\ UNCHANGED <<max_qid, resets>>

Shutdown ==
    /\ Running("shutdown")
    /\ Goto(nvme_dev_shutdown(dev),
            CASE why = "reset" -> "map" [] why = "remove" -> "removing"
              [] why = "shutdown" -> "off" [] OTHER -> "asleep")
    /\ UNCHANGED <<why, max_qid, resets>>

\* A reset, nvme_reset_notify (prepare), nvme_suspend or nvme_shutdown.
TakeDown ==
    /\ Running("up") /\ resets < MaxResets
    /\ resets' = resets + 1
    /\ why' \in {"reset", "reset_notify", "suspend", "shutdown"}
    /\ Goto(dev, "shutdown")
    /\ UNCHANGED max_qid

nvme_resume ==
    /\ Running("asleep")
    /\ why' = (IF why = "suspend" THEN "resume" ELSE why) /\ Goto(dev, "map")
    /\ UNCHANGED <<max_qid, resets>>

nvme_remove ==
    /\ Running("up") \/ Running("dead")
    /\ why' = "remove" /\ Goto(dev, "shutdown")
    /\ UNCHANGED <<max_qid, resets>>

RemoveWith(d) ==
    /\ Running("removing")
    /\ Goto(nvme_free_dev(Drop(d, {"device", "pools"})), "gone")
    /\ UNCHANGED <<why, max_qid, resets>>

\* A bug: the queues are freed before the request queues that use them.
RemoveFreesFirst ==
    RemoveWith(nvme_dev_remove_admin(nvme_dev_remove(nvme_free_queues(dev, 0))))
RemoveRest ==
    RemoveWith(nvme_free_queues(nvme_dev_remove_admin(nvme_dev_remove(dev)), 0))

Next ==
    \/ nvme_probe \/ nvme_dev_map \/ nvme_configure_admin_queue \/ JoinList
    \/ nvme_alloc_admin_tags \/ nvme_setup_io_queues \/ AllocQueues
    \/ nvme_create_queue \/ FailStart \/ nvme_async_probe \/ nvme_dev_resume \/ nvme_dev_add
    \/ StartFailed \/ Shutdown \/ TakeDown \/ nvme_resume \/ nvme_remove
    \/ RemoveRest

Spec == Init /\ [][Next]_vars

-----------------------------------------------------------------------------
(* Properties.                                                             *)

Failed(S) == dev.failed \cap S # {}

\* The variables have their types.
TypeOK ==
    /\ dev.held \in [Resources -> -1 .. 1]
    /\ queue_count(dev) \in 0 .. MaxQueues + 1
    /\ dev.online \in 0 .. UINT - 1
    /\ dev.irqs \subseteq Contexts
    /\ dev.cqs \subseteq Contexts /\ dev.sqs \subseteq dev.cqs
    /\ max_qid \in 0 .. MaxQueues /\ resets \in 0 .. MaxResets
    /\ dev.admin_q \in {"null", "live", "dying", "freed", "err"}

\* Whenever the block layer tears a hardware context down (nvme_exit_hctx), or
\* sends an admin command through one, the queue the context points to has not
\* been freed, along any sequence of failures, resets and removal, except after
\* those that free queues which have contexts: a controller that cannot be
\* enabled again, a reset that leaves fewer queues or none, or an admin
\* interrupt that cannot be requested again.
ContextsHaveQueues ==
    dev.oops = "context" =>
        Failed({"enable_ctrl", "admin_irq", "no_queues", "create", "fewer_vectors"})

\* The pointer admin_q is only used while it points to a request queue, though
\* suspension, restart and removal all use it, unless the queue could not be
\* made: an ERR_PTR stays in admin_q, and a device whose start never got as far
\* as nvme_alloc_admin_tags puts a NULL queue when it is removed.
AdminQueueValid ==
    dev.oops = "admin_q" =>
        Failed({"init_admin_q", "get_admin_q"}) \/ (pc = "gone" /\ dev.admin_q = "null")

\* When the device runs, online_queues counts the queues that
\* nvme_init_queue set up, these are the first ones of the table, and they are
\* the ones with a handler; it never leads a loop out of the table.  It goes
\* wrong when a queue that was not brought online is suspended: its vector is
\* not -1 after a failed creation, nor when the thread could not be started.
\* The controller has every I/O queue that is online, unless it refused to
\* create one, which nvme_create_queue does not notice; and whatever fails, it
\* has none whose memory is freed while the device may use the bus, unless it
\* would not delete one that nvme_create_queue gave up.
OnlineIsReady ==
    LET ready == {i \in Contexts : i < queue_count(dev) /\ dev.queues[i + 1].ready}
    IN  /\ \/ Failed({"create", "thread"})
           \/ /\ dev.oops # "index"
              /\ pc = "up" => /\ ready = 0 .. dev.online - 1 /\ dev.irqs = ready
                              /\ ready \ {0} \subseteq dev.sqs \/ Failed({"refused"})
        /\ dev.held["pci_enabled"] > 0 /\ ~Failed({"delete"}) =>
               \A i \in dev.cqs : i < queue_count(dev)

\* free_irq is called only for a handler that is requested, and no handler is
\* left requested for a queue that has been freed, or for a device that is
\* off.  An admin interrupt that cannot be requested again, and a queue that
\* could not be created, are freed once too often.
IrqsBalanced ==
    /\ dev.spurious => Failed({"admin_irq", "create"})
    /\ \A i \in dev.irqs : i < queue_count(dev)
    /\ pc \in {"asleep", "off", "dead", "gone"} => dev.irqs = {}

\* Every freeze of a request queue by a shutdown is undone by the start that
\* follows it, however many starts fail in between: admin commands of
\* nvme_setup_io_queues do not wait for ever, and a running device's
\* namespaces accept requests.  When the thread cannot be started the admin
\* queue is frozen a second time.
FreezesBalanced ==
    /\ dev.frozen >= 0 /\ dev.ns_frozen >= 0
    /\ pc = "io" /\ dev.admin_q = "live" => dev.frozen = 0 \/ Failed({"thread"})
    /\ pc = "up" /\ (\E i \in Contexts \ {0} : dev.ctx[i] # "none") => dev.ns_frozen = 0

\* When the device is gone everything that probing, starting and restarting it
\* acquired has been given back exactly once, whatever failed on the way.  Two
\* exceptions: the PCI regions stay requested when the registers could not be
\* mapped again, and a tag set that could not be allocated is freed.
AllReleased ==
    pc = "gone" /\ dev.oops = "no" =>
        \A r \in Resources :
            \/ dev.held[r] = 0
            \/ r = "regions" /\ Failed({"remap"})
            \/ r = "tagset" /\ Failed({"tag_set"})
=============================================================================
