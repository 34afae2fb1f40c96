------------------------------ MODULE Lifecycle ------------------------------
(***************************************************************************)
(* Loading and unloading of the module, and the life of the controllers it *)
(* drives: chario_init and chario_exit of chario.c; nvme_init, nvme_exit,  *)
(* nvme_probe, nvme_dev_start, nvme_dev_shutdown, nvme_remove and the one  *)
(* polling thread nvme_thread, which all devices share, of nvme-core.c.    *)
(*                                                                         *)
(* Steps under dev_list_lock are atomic.  A device has a worker (its       *)
(* probe_work, later its reset_work) and may have a remover (nvme_remove). *)
(* nvme_thread itself is present as a set of running threads.              *)
(***************************************************************************)
EXTENDS Integers, FiniteSets

CONSTANTS Devices,       \* PCI devices the driver may be offered
          MaxThreads,    \* bound: polling threads alive at a time
          MaxResets,     \* bound: resets of one device
          RemoveRaces    \* does nvme_remove race with the device's own work?

ASSUME LifecycleAssumption ==
    /\ IsFiniteSet(Devices)
    /\ MaxThreads \in Nat \ {0} /\ MaxResets \in Nat \ {0}
    /\ RemoveRaces \in BOOLEAN

VARIABLES
    pc,              \* module loading and unloading
    held,            \* how often each kernel resource is registered
    dev_list,        \* devices nvme_kthread polls
    nvme_thread,     \* 0 (NULL), -1 (ERR_PTR), or a thread
    threads,         \* threads that run
    worker, remover, \* places of each device's worker and remover
    tmp,             \* thread a shutdown took out of nvme_thread, by caller
    resets,          \* resets done
    current_dev      \* the device the character device uses

module == <<pc, held>>
shared == <<dev_list, nvme_thread, threads>>
device == <<worker, remover, tmp, resets>>
vars   == <<module, shared, device, current_dev>>

NULL == 0
ERR  == -1
Ids  == 1 .. MaxThreads
NoDevice == "none"
IsRunning(t) == t \notin {NULL, ERR}       \* !IS_ERR_OR_NULL(t)

Callers == {"w", "r"}                      \* of nvme_dev_shutdown: the worker
                                           \* and the remover of a device
Resources == {"kobj", "chrdev", "class", "device", "workq", "nvme_class",
              "driver"}

Init ==
    /\ pc = "out" /\ held = [r \in Resources |-> 0]
    /\ dev_list = {} /\ nvme_thread = NULL /\ threads = {}
    /\ worker = [d \in Devices |-> "none"]
    /\ remover = [d \in Devices |-> "none"]
    /\ tmp = [d \in Devices |-> [who \in Callers |-> NULL]]
    /\ resets = [d \in Devices |-> 0]
    /\ current_dev = NoDevice

-----------------------------------------------------------------------------
(* chario_init, and nvme_init which it calls last.                         *)

\* The registrations in their order: at each, where the next one is made.
Order == [out |-> "kobj", kobj |-> "chrdev", chrdev |-> "class",
          class |-> "device", device |-> "workq", workq |-> "nvme_class",
          nvme_class |-> "driver"]

Add(r, n) == held' = [held EXCEPT ![r] = @ + n]

Register ==
    /\ pc \in DOMAIN Order
    /\ Add(Order[pc], 1)
    /\ pc' = IF Order[pc] = "driver" THEN "loaded" ELSE Order[pc]
    /\ UNCHANGED <<shared, device, current_dev>>

\* Where a registration that fails goes: to the first release of its error
\* path.  The paths of the character device's number, class and device node
\* end in "leaked", without a release of the kobject.
FailureTo(driver) ==
    [kobj |-> "gone", chrdev |-> "leaked", class |-> "class_failed",
     device |-> "device_failed", workq |-> "device_destroy",
     nvme_class |-> "kill_workq", driver |-> driver]
\* A bug: a driver that cannot be registered leaves its class behind.
FailureKeepsClass == FailureTo("kill_workq")
Failure == FailureTo("destroy_class")

\* The kobject itself is given back when its attributes cannot be created.
RegisterFails ==
    /\ pc \in DOMAIN Order
    /\ \/ pc' = Failure[Order[pc]] /\ UNCHANGED held
       \/ pc = "out" /\ Add("kobj", 1) /\ pc' = "kobject_put"
    /\ UNCHANGED <<shared, device, current_dev>>

\* Every release: what is released and where the code goes on.  The paths are
\* those of a class or device node of chario_init that fails, of nvme_init,
\* of nvme_exit, and what chario_init and chario_exit have in common, where
\* class_unregister and class_destroy both unregister the class.
ReleasesWith(first, second) ==
    [device_failed     |-> <<"class", "class_failed">>,
     class_failed      |-> <<"chrdev", "leaked">>,
     destroy_class     |-> <<"nvme_class", "kill_workq">>,
     kill_workq        |-> <<"workq", "device_destroy">>,
     exit_workq        |-> <<"workq", "exit_class">>,
     exit_class        |-> <<"nvme_class", "device_destroy">>,
     device_destroy    |-> <<first, "class_unregister">>,
     class_unregister  |-> <<second, "class_destroy">>,
     class_destroy     |-> <<"class", "unregister_chrdev">>,
     unregister_chrdev |-> <<"chrdev", "kobject_put">>,
     kobject_put       |-> <<"kobj", "gone">>]
\* A bug: the class is released before its device node.
ReleasesClassFirst == ReleasesWith("class", "device")
Releases == ReleasesWith("device", "class")

Unwind ==
    /\ pc \in DOMAIN Releases
    /\ Add(Releases[pc][1], -1)
    /\ pc' = Releases[pc][2]
    /\ UNCHANGED <<shared, device, current_dev>>

-----------------------------------------------------------------------------
(* A device is probed and started.                                         *)

Move(d, place) == worker' = [worker EXCEPT ![d] = place]

\* nvme_probe: the structure is allocated and current_dev set; the rest is
\* done by probe_work.
nvme_probe(d) ==
    /\ pc = "loaded" /\ worker[d] = "none" /\ remover[d] = "none"
    /\ current_dev' = d
    /\ Move(d, "starting")
    /\ UNCHANGED <<module, shared, remover, tmp, resets>>

\* nvme_dev_start, up to the list: the device joins dev_list, and the first
\* of the list undertakes to start the thread.
ListAddWith(d, start) ==
    /\ worker[d] = "starting"
    /\ nvme_thread' = IF start THEN NULL ELSE nvme_thread
    /\ Move(d, IF start THEN "running" ELSE "waiting")
    /\ dev_list' = dev_list \cup {d}
    /\ UNCHANGED <<module, threads, remover, tmp, resets, current_dev>>

\* A bug: the thread that runs already is not looked for.
ListAddAlwaysStarts(d) == ListAddWith(d, dev_list = {})
ListAdd(d) == ListAddWith(d, dev_list = {} /\ ~IsRunning(nvme_thread))

\* A device that fails in its probe is reset, one that fails in its reset is
\* given up; nvme_remove_dead_ctrl then removes it.
AfterFailure(d) == IF resets[d] = 0 THEN "shutdown" ELSE "dead"

\* nvme_dev_map or nvme_configure_admin_queue fails.
ConfigureFails(d) ==
    /\ worker[d] = "starting"
    /\ Move(d, AfterFailure(d))
    /\ UNCHANGED <<module, shared, remover, tmp, resets, current_dev>>

\* kthread_run, and wake_up_all.
RunWith(d, failure) ==
    /\ worker[d] = "running"
    /\ \/ \E t \in Ids \ threads :
              threads' = threads \cup {t} /\ nvme_thread' = t
       \/ nvme_thread' = failure /\ UNCHANGED threads
    /\ Move(d, "checking")
    /\ UNCHANGED <<module, dev_list, remover, tmp, resets, current_dev>>

\* A bug: a failure leaves NULL, which the waiting devices wait to change.
RunThreadErrIsNull(d) == RunWith(d, NULL)
RunThread(d) == RunWith(d, ERR)

\* A bug: the waiting device does not look at nvme_thread.
WaitNothing(d) ==
    /\ worker[d] = "waiting"
    /\ Move(d, "up")
    /\ UNCHANGED <<module, shared, remover, tmp, resets, current_dev>>

\* wait_event_killable(nvme_kthread_wait, nvme_thread); a work is never killed.
WaitThread(d) ==
    /\ worker[d] = "waiting" /\ nvme_thread # NULL
    /\ Move(d, "checking")
    /\ UNCHANGED <<module, shared, remover, tmp, resets, current_dev>>

\* With a thread, the admin queue, the tags and the I/O queues follow, and
\* may fail; without one, or after a failure, the device leaves the list.
CheckThread(d) ==
    /\ worker[d] = "checking"
    /\ \/ IsRunning(nvme_thread) /\ Move(d, "up")
       \/ Move(d, "disable")
       \/ /\ IsRunning(nvme_thread) /\ resets[d] = 0     \* nvme_dev_add fails
          /\ Move(d, AfterFailure(d))
    /\ UNCHANGED <<module, shared, remover, tmp, resets, current_dev>>

-----------------------------------------------------------------------------
(* nvme_dev_list_remove, from a failed start, a reset or nvme_remove.      *)

\* A bug: the thread is left alone.
LeaveListOnly(d, who) ==
    /\ dev_list' = dev_list \ {d}
    /\ UNCHANGED <<tmp, nvme_thread>>

\* The last device of the list takes the thread out of nvme_thread ...
LeaveList(d, who) ==
    /\ dev_list' = dev_list \ {d}
    /\ LET last == dev_list' = {} /\ IsRunning(nvme_thread)
       IN  /\ tmp' = [tmp EXCEPT ![d][who] = IF last THEN nvme_thread ELSE NULL]
           /\ nvme_thread' = IF last THEN NULL ELSE nvme_thread

\* ... and stops it once the lock is dropped.
StopThread(d, who) ==
    /\ threads' = threads \ {tmp[d][who]}
    /\ tmp' = [tmp EXCEPT ![d][who] = NULL]

WorkerLeaves(d) ==
    /\ worker[d] \in {"disable", "shutdown"}
    /\ LeaveList(d, "w")
    /\ Move(d, IF worker[d] = "disable" THEN "disabled" ELSE "down")
    /\ UNCHANGED <<module, threads, remover, resets, current_dev>>

\* After a failed start the failure is reported; after the shutdown of a reset
\* nvme_dev_resume starts the device again.
WorkerStops(d) ==
    /\ worker[d] \in {"disabled", "down"}
    /\ StopThread(d, "w")
    /\ IF worker[d] = "disabled"
       THEN Move(d, AfterFailure(d)) /\ UNCHANGED resets
       ELSE Move(d, "starting") /\ resets' = [resets EXCEPT ![d] = @ + 1]
    /\ UNCHANGED <<module, dev_list, nvme_thread, remover, current_dev>>

\* nvme_kthread finds the controller failed, or nvme_abort_req a command that
\* timed out twice: the device leaves the list and reset_work is queued.
ControllerFails(d) ==
    /\ worker[d] = "up" /\ resets[d] < MaxResets
    /\ \/ d \in dev_list /\ threads # {}
       \/ remover[d] = "none" \/ RemoveRaces
    /\ dev_list' = dev_list \ {d}
    /\ Move(d, "shutdown")
    /\ UNCHANGED <<module, nvme_thread, threads, remover, tmp, resets,
                   current_dev>>

-----------------------------------------------------------------------------
(* nvme_remove: a hot-unplug, a controller given up, or nvme_exit.         *)

Idle(d) == worker[d] \in {"up", "dead"}

RemoveBegin(d) ==
    /\ remover[d] = "none" /\ worker[d] # "none"
    /\ RemoveRaces \/ Idle(d)
    /\ pc = "exiting" => \A e \in Devices : remover[e] \in {"none", "gone"}
    /\ dev_list' = dev_list \ {d}
    /\ remover' = [remover EXCEPT ![d] = "flush"]
    /\ UNCHANGED <<module, nvme_thread, threads, worker, tmp, resets,
                   current_dev>>

\* flush_work on probe_work and reset_work, then nvme_dev_shutdown.
RemoveLeaves(d) ==
    /\ remover[d] = "flush" /\ Idle(d)
    /\ LeaveList(d, "r")
    /\ remover' = [remover EXCEPT ![d] = "stop"]
    /\ UNCHANGED <<module, threads, worker, resets, current_dev>>

\* The rest of nvme_remove frees the structure; current_dev keeps its address.
RemoveEnds(d) ==
    /\ remover[d] = "stop"
    /\ StopThread(d, "r")
    /\ remover' = [remover EXCEPT ![d] = "gone"]
    /\ UNCHANGED <<module, dev_list, nvme_thread, worker, resets,
                   current_dev>>

-----------------------------------------------------------------------------
(* chario_exit, and nvme_exit which it calls first.                        *)

ExitBegin ==
    /\ pc = "loaded" /\ pc' = "exiting"
    /\ UNCHANGED <<held, shared, device, current_dev>>

\* pci_unregister_driver has removed every device, and the releases follow.
Exit ==
    /\ pc = "exiting"
    /\ \A d \in Devices : remover[d] = "gone" \/ worker[d] = "none"
    /\ Add("driver", -1)
    /\ pc' = "exit_workq"
    /\ UNCHANGED <<shared, device, current_dev>>

Step(d) ==
    \/ ListAdd(d) \/ ConfigureFails(d) \/ RunThread(d) \/ WaitThread(d)
    \/ CheckThread(d) \/ WorkerLeaves(d) \/ WorkerStops(d)

Next ==
    \/ Register \/ RegisterFails \/ ExitBegin \/ Exit \/ Unwind
    \/ \E d \in Devices :
          \/ nvme_probe(d) \/ Step(d) \/ ControllerFails(d)
          \/ RemoveBegin(d) \/ RemoveLeaves(d) \/ RemoveEnds(d)

Spec == Init /\ [][Next]_vars

\* Works run, and nvme_remove goes on when it can.
FairSpec ==
    /\ Spec
    /\ \A d \in Devices : WF_vars(Step(d)) /\ WF_vars(RemoveLeaves(d))
                            /\ WF_vars(RemoveEnds(d))

-----------------------------------------------------------------------------
(* Properties.                                                             *)

\* The variables have their types.
TypeOK ==
    /\ pc \in DOMAIN Order \cup DOMAIN Releases
                \cup {"loaded", "exiting", "gone", "leaked"}
    /\ held \in [Resources -> -1 .. 1]
    /\ dev_list \subseteq Devices
    /\ nvme_thread \in Ids \cup {NULL, ERR} /\ threads \subseteq Ids
    /\ worker \in [Devices -> {"none", "starting", "running", "waiting",
                     "checking", "up", "disable", "disabled", "shutdown",
                     "down", "dead"}]
    /\ remover \in [Devices -> {"none", "flush", "stop", "gone"}]
    /\ tmp \in [Devices -> [Callers -> Ids \cup {NULL}]]
    /\ resets \in [Devices -> 0 .. MaxResets]
    /\ current_dev \in Devices \cup {NoDevice}

\* Every running thread is reachable: it is nvme_thread, or somebody is about
\* to stop it.  A thread nobody knows of would go on polling freed devices.
NoThreadLost ==
    \A t \in threads : \/ t = nvme_thread
                       \/ \E d \in Devices, who \in Callers : tmp[d][who] = t

\* A device in service is polled: while it is on dev_list and up, nvme_thread
\* runs, whatever other devices do.  Lost interrupts are recovered this way.
PolledWhileUp ==
    \A d \in Devices : worker[d] = "up" /\ d \in dev_list => nvme_thread \in threads

\* nvme_exit's BUG_ON(nvme_thread && !IS_ERR(nvme_thread)), and what it is for:
\* from the return of pci_unregister_driver on, while the workqueue, the class
\* and at last the module's code go away, no thread of it runs.
NoThreadAtExit ==
    held["driver"] = 0 => ~IsRunning(nvme_thread) /\ threads = {}

\* What is in use finds what it depends on, after every single registration
\* and release of chario_init, its error paths and chario_exit: the device
\* node its class and number, the PCI driver its workqueue and class, and a
\* probe_work or reset_work that is queued or runs the workqueue and the
\* driver.
DependenciesHeld ==
    /\ held["device"] > 0 => held["class"] > 0 /\ held["chrdev"] > 0
    /\ held["driver"] > 0 => held["workq"] > 0 /\ held["nvme_class"] > 0
    /\ \A d \in Devices : worker[d] = "none" \/ Idle(d)
                            \/ (held["workq"] > 0 /\ held["driver"] > 0)

\* Every registration is taken back once, on every path out of the module, with
\* two exceptions that the code makes: the class of the device node is released
\* a second time by class_destroy after class_unregister, and the kobject stays
\* when the number, the class or the device node cannot be registered.
ReleasedOnce ==
    /\ \A r \in Resources : held[r] < 0 => r = "class"
    /\ pc \in {"gone", "leaked"} =>
          \A r \in Resources : held[r] > 0 => r = "kobj" /\ pc = "leaked"

\* A device that is probed is started or given up: its worker comes to rest.
StartEnds == \A d \in Devices : (worker[d] = "starting") ~> Idle(d)
=============================================================================
