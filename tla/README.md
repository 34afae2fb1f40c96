# CharIO: a verification of the kernel module and its library

CharIO offers an NVMe drive as a character device, `/dev/chardisk0`.  A program
reads and writes it with system calls, or moves data between the disk and
physical memory (a block RAM, an accelerator) with two ioctls.  The repository
holds a Linux kernel module and a user library; this directory holds TLA+
models of them, the TLC runs that check the models on small instances, and
TLAPS proofs for every size of the instance: of the transfer engine, the file
operations, the library, the queue pair, queue deletion, the life cycle and
synchronous commands.

## The system's parts

| Part | Source | Modules | State |
|------|--------|---------|-------|
| Transfer engine of the character device | `nvme-core.c` | `CharioTransfer`, `CharioTransferProofs` | modelled, proved |
| PRP lists (the page lists of a command) | `nvme-core.c` | `PrpList` | modelled |
| File operations | `chario.c` | `CharFile`, `Chardev`, `ChardevProofs` | modelled, proved |
| User library | `libchario/libchario.c` | `LibChario`, `LibCharioProofs` | modelled, proved |
| NVMe queue pair, with reset | `nvme-core.c` | `QueuePair`, `NvmeQueue`, `NvmeQueueProofs` | modelled; refinement and safety proved |
| Deletion of I/O queues | `nvme-core.c` | `DelQueue`, `DelQueueProofs` | modelled, proved |
| Module and controller life cycle, polling thread | `chario.c`, `nvme-core.c` | `Lifecycle`, `LifecycleProofs` | partly; safety proved |
| Controller set-up and teardown | `nvme-core.c` | `NvmeDevice`, `NvmeDeviceProofs` | partly; safety proved |
| Synchronous and abort commands, time-outs | `nvme-core.c` | `NvmeCommand`, `NvmeCommandProofs` | partly; safety proved |
| sysfs test hook | `chario.c`, `nvme-core.c` | `PrpList` (its buffer), `NvmeCommand` (its command) | modelled |
| Block requests | `nvme-core.c` | `PrpList` (memory, mappings, PRP entries) | partly |
| Pass-through ioctls | `nvme-core.c` | `PrpList`, `NvmeCommand` | partly |
| Data integrity, namespace formats, SCSI translation, tests | `nvme-core.c`, `nvme-scsi.c`, the test programs | | not modelled |

They interact from the top down:

    program -> LibChario -> (lseek, read, write) -> Chardev
                                                      |  one call per MAX_BYTES
                        PrpList  <- buffer -  CharioTransfer
                                                      |  commands and tags
                                                 NvmeQueue (rings, doorbells, reset)
                                                      |
        Lifecycle (thread, list, module)   NvmeDevice (what a device holds)
        DelQueue (orderly shutdown of the queues)
        NvmeCommand (waiting for one command: time-out, abort, reset, locks)

Two abstract specifications join the layers.  `CharFile` is a byte file whose
reads and writes take effect piece by piece, and may lose pieces without saying
so (`lost`): the driver drops the status of its commands.  `Chardev` is shown to
implement it and `LibChario` is written on top of it.  `QueuePair` is a pair of queues without
rings, and `NvmeQueue` is shown to implement it.  `CharioTransfer` uses the same
abstraction: a set of commands the controller holds and the sequence of entries
it has posted.

## The modules and the code

**CharioTransfer** is `nvme_submit_io_chario` and `nvme_submit_io_chario_phys`,
`nvme_submit_chario_cmd`, `chario_completion`, and `nvme_process_cq` as far as it
concerns them.  A task (`pc[p]`) maps its buffer, initialises `cmdinfo`, and for
every `REQ_MAX_BLOCKS` blocks reads `next_chario_tag`, fills `chario_cmds[tag]` and
submits.  It then sleeps until `remaining` is negative, and sets
`next_chario_tag` back to 0.  Handlers (the interrupt and `nvme_kthread`) hold
`q_lock`, take an entry, look its tag up, subtract, read the count again after
the lock of `cmdinfo` is dropped, and wake the task.  These are separate steps.
`settled` and `failed` are history variables, for stating the properties.

**PrpList** is what happens to a transfer's memory, for every function that makes
one.  A transfer enters (`EnterChario`, `EnterUserCmd`, `nvme_queue_rq`, ...), its buffer is
mapped (`nvme_map_user_pages`, `nvme_map_kernel_pages`, `nvme_map_phys_pages`, or
`nvme_queue_rq` itself), its list is built (`nvme_setup_prps`, `nvme_setup_phys_prps`), and
commands are sent: slices of the list by the loops of the character device, one
command with all of it by `nvme_submit_io`, `nvme_submit_io_kernel`, `nvme_user_cmd` and
`nvme_submit_iod`.  Then everything is given back (the unmap functions,
`req_completion`, `nvme_free_iod`).  `held` is what the transfer has acquired.  The iod of
a small block request is part of the request (`Internal`) and is not freed.
Addresses are symbolic.  A command is checked by following PRP1 and PRP2 as a
controller would.

**Chardev** is `dev_read`, `dev_write`, `dev_llseek` and `dev_ioctl` with the four
transfer functions.  Threads may share a file.  A transfer puts its blocks in
flight (`inflight`) and the call waits.  The controller then moves them one by one
in any order, or loses those of a command that fails; the call returns its
count all the same.  An error of the driver comes before anything is
submitted.  That a call has moved everything else when it returns, and moves
nothing afterwards, is part of what is checked.

**LibChario** is every function of the library that changes a task, the buffer
or the device.  A task may be initialised again: `chario_init_task` empties its
list and leaves `range_count` and `total_size` as they were, so these are wrong
from then on.  Without a device a load or flush returns 1 at once.

**NvmeQueue** is `__nvme_submit_cmd`, `nvme_process_cq` from its four callers
(`nvme_irq`, `nvme_kthread`, `nvme_queue_rq`, `nvme_disable_queue`), the look-up of
`nvme_finish_cmd`, and what the shutdown and the restart do to one queue.  Every store that the
controller can observe is a step; the controller runs beside the driver.
`CharioTags` are the tags of the character device.  They are no block-layer
requests, so a reset does not cancel them.  An entry is looked up by its number
alone (`Found`): below `NCmds` in `chario_cmds`, even when it is that of a request.
Commands whose own entry does not reach them are `Deaf`.  A reset takes one of two
paths.  On `disable`, `nvme_disable_queue` drains the completion ring; this is the
admin queue, and the I/O queues when there is no worker.  On `suspend` the ring is
left as it is; this is the ordinary shutdown of I/O queues, which the worker
deletes, and that of a failed controller.

**DelQueue** is `nvme_disable_io_queues`: the worker on the caller's stack, the
two deletion commands of each queue, the reference count, and the wait with its
timeout.

**Lifecycle** is `chario_init` and `chario_exit` with all error paths, `nvme_init`
and `nvme_exit`, each registration and each release a step of its own, and, for
several controllers at once, probing, starting, reset
and removal as far as they concern `dev_list` and `nvme_thread`.

**NvmeDevice** is one controller in detail and without concurrency:
`nvme_probe`, `nvme_dev_start` with its steps and labels, `nvme_dev_add`,
shutdown, reset, sleep, reset notification and removal.  Every call that may
fail may fail.  A C function that only moves resources is an operator from a
device to a device.  `dev.failed` records the calls that failed, `dev.oops` that
an invalid pointer was used.  `dev.cqs` and `dev.sqs` are the I/O queues that the
controller has: `nvme_create_queue` asks for them, its labels delete them, and
`nvme_disable_ctrl` makes the controller forget them.  That a shutdown deletes them
first is `DelQueue`'s and not assumed here.

**NvmeCommand** is `nvme_submit_sync_cmd` with its callers on both queues
(`Callers`, and the work item that resets the controller, `Worker`), the completion
functions, `nvme_timeout` and `nvme_abort_req`, `nvme_kthread`, and what a reset does
to the requests.  `req[s]` is a block-layer request with its `nvme_cmd_info`; `sq` and
`cq` are the queues of `QueuePair`.  A path that holds one lock only is one step.
`nvme_kthread` (`kpc`) and `nvme_timeout` (`tpc`) wait for a second lock with the first
one held, over several steps, so that the order of the locks is in the model.
`LowTags` are the tags up to 31 of an I/O queue, which `nvme_finish_cmd` looks up in
`chario_cmds` even when they are those of a request.  `executed` is a history
variable: the controller answered the task's command.

## What the runs check

Runs that pass:

| Run | What it shows |
|-----|---------------|
| `transfer` | No transfer returns before the controller is done with all its blocks (`NoEarlyReturn`).  An outstanding command owns its tag (`TagOwnership`) and tags stay in the array (`TagInRange`).  A sleeping task always has a wake-up coming (`NoLostWakeup`).  Every transfer returns, even if all interrupts are lost (`EveryTransferReturns`). |
| `prp_lists` | Followed by a controller, every command's entries cover exactly its blocks, for character-device, pass-through, test and block-layer commands (`CommandsCoverBuffer`).  Lists stay inside their pages, and their pointers inside the iod (`ListsFit`).  Pages, mappings, metadata and pool blocks are given back once, also when an allocation fails (`AllReleased`), with one exception stated in the property. |
| `chardev` | Reads, writes, ioctls, seeks, errors and failed commands of threads that share a file implement `CharFile` (`ImplementsCharFile`): a call that returns its count has settled all its blocks, and nothing is moved afterwards. |
| `libchario` | The ranges of a task tile its part of the buffer, also after it was initialised again (`RangesTile`).  A load or flush without an error or a lost block moved every range (`LoadIsComplete`, `FlushIsComplete`); that there was one is not reported. |
| `queue` | The rings, doorbells and phase bit implement `QueuePair` through a reset (`ImplementsQueuePair`).  What the rings hold agrees with the command structures (`InFlightIsOwned`, `WaitedForIsInFlight`).  Every command ends, even if no interrupt is served (`EveryCommandEnds`), with three exceptions stated in the property: commands that `nvme_finish_cmd` cannot find, those of the character device caught by a reset, and a queue whose doorbell has strayed.  No doorbell is written while the registers are unmapped; after the path that drains the ring, none until `nvme_init_queue` (`QuietUntilInit`). |
| `commands` | A completion finds the frame of the task it is for, and a task that sleeps has a request that will wake it (`FrameHasRequest`).  A command or an entry never carries the tag of somebody else's request (`TagNotReused`).  What the caller returns is the status of its own command or of its cancellation (`StatusIsReal`).  Every caller returns, although the controller may ignore commands and fail (`EveryCallerReturns`), with one exception stated in the property: the cycle of locks below. |
| `delete_queues` | The count is the number of deletions under way (`RefcountIsPending`).  A completion queue is deleted after its submission queue (`SqBeforeCq`).  When the caller returns from a wait that it did not give up, no deletion command is outstanding, no work is queued and the worker is out of the caller's frame (`FlushedUnlessGivenUp`).  The caller returns (`DisableReturns`). |
| `lifecycle` | No polling thread is lost (`NoThreadLost`) or survives the module (`NoThreadAtExit`).  A device in service is polled (`PolledWhileUp`).  What is registered, and every work item, finds what it depends on at every step of loading, of its error paths and of unloading (`DependenciesHeld`).  Everything is released as often as it was registered, with two exceptions stated in the property: the class, which is released twice, and the kobject, which three error paths keep (`ReleasedOnce`).  Every start ends (`StartEnds`). |
| `device` | Contexts point to live queues when used (`ContextsHaveQueues`), and so does `admin_q` (`AdminQueueValid`).  `online_queues` counts the queues that are ready, the controller has those queues, and it has none whose memory is freed (`OnlineIsReady`).  Interrupts, freezes and resources balance (`IrqsBalanced`, `FreezesBalanced`, `AllReleased`). |

The properties of `device` name the failures after which they do not hold.  Each
such list states what the code does not survive cleanly.  Examples are a queue
creation that fails, after which `online_queues` runs below zero at the next
shutdown, and `nvme_remove_disks`, which frees the queues before their
contexts.  TLC was used to find these lists: a failure is exempted only where
a counterexample required it.

Runs that show a disagreement between the code and what its comments say:

| Run | What it shows |
|-----|---------------|
| `transfer_shared` | Two overlapping transfers share `next_chario_tag` and `chario_cmds`; one returns while the controller still works on its buffer. |
| `transfer_error` | The status of a failed command is dropped; the call reports success.  (`CharFile` therefore has `lost`.) |
| `delete_queues_timeout` | After a timeout a deletion command may be outstanding when its worker is gone; one queue is enough. |

Five more things the models show, as exceptions or assumptions of the properties:

* After a shutdown that only suspends the I/O queues, as the ordinary one does, the
  device is listed again before they are initialised.  `nvme_kthread`, and the
  interrupt handler once it is installed, then consume old completions and write
  the doorbell.  Written after the controller has created the new queue, it
  names a place where the driver is not (`Strayed`), and the controller may take
  the ring for full.  `QuietUntilInit` speaks of this path only until the
  registers are mapped again, and `EveryCommandEnds` excepts a strayed queue.
* `nvme_timeout` takes `q_lock` and then, in `nvme_abort_req`, `dev_list_lock`;
  `nvme_kthread` takes them the other way round.  `LockCycle` names the states in
  which each waits for the other.  TLC reaches them in a few steps, and
  `EveryCallerReturns` excepts them.
* A request with a tag up to 31 on an I/O queue is never completed by its own
  entry (`Deaf` in `NvmeQueue`).  `EveryCallerReturns` holds all the same: its timer
  aborts it, fires again, and the reset cancels it.
* `nvme_queue_rq` leaves a request's data mapped when its integrity data cannot be
  mapped (`AllReleased` of `PrpList` excepts it).
* `nvme_create_queue` takes only a negative result for a failure.  When the
  controller refuses to create a queue the status is positive, and the queue
  goes online (`OnlineIsReady` excepts it).

## Bounds

* `transfer`: two tasks, two handlers, commands of 2 blocks, 3 tags.  The
  transfer sizes are one block, one block more than a full command, and the
  largest that fits.  These are the cases the loop distinguishes.
* `prp_lists`: 6 entries per list page, commands of 3 blocks, buffers up to two
  list pages, cut into segments in every way.  Links fall before, inside and
  after a slice.  Kernel buffers have up to three list pages.  Block requests are
  small enough for an iod in the request, too large for it, and of two list
  pages; `INT_PAGES` is 2 as in the code.
* `chardev`: two threads, one file, blocks of 2 bytes, `MAX_BYTES` of two blocks,
  counts up to three blocks, three calls.  Calls need one or two transfers, and
  two of them can interleave with a seek; each block is moved or lost.
* `libchario`: one task, two ranges, a disk of three blocks, so that ranges can
  be equal, overlap or be disjoint; two initialisations (`MaxInits`), and two
  loads or flushes (`MaxRuns`), so that one follows the other.
* `queue`: a command of the character device and a request in rings of three
  slots, which wrap; one reset, on either path.  The request's number is one that
  is looked up in `chario_cmds`, or not (`Numberings`, `NCmds`).
* `delete_queues`: three queues; the violation needs one.
* `commands`: one caller beside the reset's own admin command, one admin tag, so
  that an abort and the reset compete for it, and one I/O tag of each kind.
  The number of resets and time-outs is not bounded.  The safety properties
  `FrameHasRequest`, `TagNotReused` and `StatusIsReal` were also checked with two callers,
  two admin tags and `AbortLimit = 2` (32.7 million states, too long for a run).
* `lifecycle`: two controllers, two resets each, three threads.
* `device`: two I/O queues (one may be created and the other not), two
  take-downs.  `UINT` stands for 2^32: `online_queues` wraps at 16, far above
  the number of queues.

Deadlock is checked except where the system may stop: calls are bounded in
`chardev`; `delete_queues`, `lifecycle` and `device` end; and `commands` stops in a
cycle of locks.

## Assumptions

* `Serialised` (`transfer`): callers do not overlap their transfers.  The code
  does not enforce it; `transfer_shared` shows what happens otherwise.
* `Fits`: a transfer needs no more commands than there are tags, which
  `MAX_BYTES` ensures for blocks of a page.
* `PrpList` takes blocks of one page (`BlockSize = PageSize`) and buffers of
  several commands that are page-aligned.  The slicing loops advance the list
  by blocks although its entries are pages; with smaller blocks TLC finds
  `CommandsCoverBuffer` violated.
* `Serialised` (`chardev`): the same assumption.  With `FALSE` the completions of one
  transfer count for another, a call returns with blocks in flight, and TLC
  refutes `ImplementsCharFile`.
* `Overlap = FALSE` (`queue`): users of the character device pause during a
  reset, and requests that were prepared before it have been submitted when
  the queue is frozen.  Nothing in the driver ensures either.
* `Apart` (`queue`): no request has the number of a command of the character
  device.  On an I/O queue nothing in the driver keeps them apart.
* `AdminTags >= NQueues` (`delete_queues`).
* `SubmitRaces = FALSE` (`commands`): a reset does not clear a queue while a caller is
  between `nvme_set_info` and the end of `nvme_submit_cmd`.  The code does not
  ensure it.  With `TRUE` TLC finds a task that goes to sleep after its request
  was cancelled, so that `FrameHasRequest` fails.
* The controller does not fail while it is being reset (`commands`).  If it did,
  the reset's own command would be waited for without end: both ways to queue
  a reset find the work busy.
* `RemoveRaces = FALSE` (`lifecycle`): a removal finds the device's own work at
  rest.  The code does not ensure it, and with `TRUE` a thread can be lost.
* `NvmeDevice` runs a device's procedures one after the other.

## Fairness

* A task that can run does, and the controller completes what it has (weak).
  A controller that does not is handled by the reset, in `NvmeQueue`.
* A submitter that competes for `q_lock` gets it in the end (strong): it is a
  ticket spin lock.
* In `transfer` only `nvme_kthread` is fair, strongly, because it polls every
  second and must get the lock.  Interrupts may all be lost.  The same
  holds in `queue`.
* In `commands` locks are granted to whoever keeps asking (strong), timers expire
  (weak), and the controller answers the admin commands of a reset (weak).  It
  need not answer any other command, and no interrupt need arrive.
* Workers and callers of `delete_queues` and `lifecycle` are weakly fair kernel
  threads.  The timeout is never assumed to happen.

## What is proved

### The transfer engine

`CharioTransferProofs` proves, for every set of tasks and handlers, every command
size, every tag array and every set of transfer sizes, under `Serialised`:

* `TypeCorrect`, `NoEarlyReturnHolds`, `TagOwnershipHolds`, `NoLostWakeupHolds`;
* `TagInRangeHolds`, under `Fits` as well.

None of them is inductive.  The invariant `IInv` adds what the code relies
on silently.  The heart of it is `CountInv`: `remaining` is the
number of blocks less `REQ_MAX_BLOCKS` for each command subtracted so far, so it
is negative only when every command has been issued, completed and subtracted
(lemma `NegativeIsDone`), although the last command may be short.  `BlockInv` ties
issued blocks to those settled or in flight.  `CommandInv` and `EntryInv` say that
an outstanding tag still names its task in `chario_cmds`.  `HandlerInv` covers a
handler that has subtracted and not yet tested, when the task may already have
returned and started another transfer.  `SleepInv` says that a sleeping task is
owed a wake-up.

There is one lemma per action: the task's first, then the controller's and the
handlers'.

### The file operations

`ChardevProofs` proves `ImplementsCharFileHolds`: `Chardev` implements `CharFile` for any
threads, files, buffers and disk, any block size and transfer limit, and any
results of the driver, whichever commands fail.  It has three hypotheses.
`Serialised` says that transfers do not overlap.  `WholeBlocks` says that programs ask for
and seek to whole blocks; the code does not check it.  `ErrorsKnown` says that
`CharFile` allows the errors that the code returns.  The run's constants satisfy
all three.  The assumption `MAX_BYTES <= U16 * LbaSize` is what keeps the `__u16` block count
exact (lemma `BlocksExact`).

`IInv` says that what is left of a call, its buffer and its offset advance
together and stay multiples of a block (`LocalsInv`), and that the bytes in flight
are bytes of the one transfer under way (`FlightInv`).  The refinement mapping
takes as done the bytes that have been submitted and are no longer in flight.
Lemma `TransferIs` shows that the blocks the driver is asked for are exactly the
next bytes of the call, and `BlockFacts` that a block in flight is a run of them.
There is one lemma per kind of step, `RefineEnter` to `RefineLlseek`; `RefineMove` and
`RefineLose` are the controller's.  Submitting and returning from a transfer are
stutters, since only what the controller settles shows in `CharFile`.

### The library

`LibCharioProofs` proves `RangesTileHolds`, `LoadIsCompleteHolds` and `FlushIsCompleteHolds` for any
tasks, ranges, disk and buffer, without a hypothesis; the device below may return
any error and lose any block that `CharFile` allows.  The ranges of a task lie one
behind the other (`TaskInv`), whatever `total_size` says after a second
initialisation.  `LoopInv` and `DeviceInv` say that the call in progress is
the one for the range of the loop.  `LoadInv` and `FlushInv` say what has been moved so
far, as long as nothing failed or was lost (`Sound`): of the ranges before the loop
variable everything, of its own range the blocks that the call has done.  In a flush a block may be in several ranges; the
last range that has been written to it counts.

### The queue pair

`NvmeQueueProofs` proves, for any depth, any tags fewer than the depth and any number
of resets, when `Overlap` is `FALSE` and under `Apart`:

* `RefinesQueuePair`: the rings, doorbells and phase bits implement `QueuePair`;
* `InFlightIsOwnedHolds`, `WaitedForIsInFlightHolds` and `QuietUntilInitHolds`;

and `TypeOKHolds` without these hypotheses.  The refinement mapping reads the two queues
off the rings: the commands between the controller's head and the doorbell, and the
entries from the driver's head on whose phase is the one it expects (`CountNew`).
Lemmas `RingFacts` and `QueuedIs` are about positions in a ring without `%`.  `QueueInv` has
seven parts.  `LockInv`: what the holder of `q_lock` has done so far.  `SqInv` and `CqInv`: how the
indices of the driver and of the controller lie to each other and which phase
each slot of the completion ring has.  A slot that wraps is told from an old one
only by its phase, and this is right because there are fewer tags than slots
(`RoomForOneMore`).  `PlaceInv`: a tag is in one place.  `OwnerInv` and `WaitInv` tie places to the
command structures.  `QuietInv`: what the doorbells are while the queue is out of
service.

### The deletion of queues

`DelQueueProofs` proves, for any number of queues and of admin tags, `TypeOKHolds`,
`RefcountIsPendingHolds`, `SqBeforeCqHolds` and `FlushedUnlessGivenUpHolds`.  The invariant has three parts
beside the types.  `PlaceInv`: a queue is at most in one place, the worker's list,
the worker's hands or the admin queue, and in none before the caller's loop comes
to it.  `StageInv`: its function tells how far it has come.  `CountInv`: the count is the
size of the set of queues in some place, which changes by one at a time because
of `PlaceInv`.  For `FlushedUnlessGivenUp`, `PatientInv` is added: a caller that has not
disabled the controller leaves its loop only when nothing is left to wait for.

`AllFlushedUnlessTimeout` is the other half of the run `delete_queues_timeout`.  The
comment in `nvme_wait_dq` is true when the wait is neither timed out nor interrupted
(`~MayTimeOut`), and the run shows that it needs this.

### Synchronous commands

`NvmeCommandProofs` proves `FrameHasRequestHolds`, `TagNotReusedHolds` and `StatusIsRealHolds`, for
any callers and tags, any `AbortLimit` and any number of resets and time-outs, when
`SubmitRaces` is `FALSE`.  There is one lemma per action: those of a caller, of
completions, `nvme_kthread` and timers, of the reset, and of the controller.

The argument is about who owns a tag.  `TaskInv` and `RequestInv` tie a caller and its
request to each other until the command ends.  `MessageInv` says for each command
the controller holds and each entry it has posted that its request is still the
one it was sent for, or that the queue is frozen and the request free.
`UniqueInv` says that a tag is in a queue once.  `ResetInv` says what makes a tag safe to
allocate again after a reset: a queue stays frozen until it has been
initialised, and by then nobody is about to submit to it and the controller holds
no old command.

### The life cycle

`LifecycleProofs` proves, for any number of devices, threads and resets,
`ReleasedOnceHolds`, and, when `RemoveRaces` is `FALSE`, `NoThreadLostHolds`, `PolledWhileUpHolds`,
`NoThreadAtExitHolds` and `DependenciesHeldHolds`.  `ModuleInv` says what is registered at each step
of `chario_init`, its error paths and `chario_exit`.  Together with `PlaceInv`, by which no
device is at work once the driver is unregistered, it gives `DependenciesHeld`.  `StarterInv`: a device about to start the thread is alone in that, and none runs.
`TakenInv`: the thread that a caller took out of `nvme_thread` is its own to stop.
`ThreadInv`: the thread in `nvme_thread` runs for somebody who will take it out.

### A controller

`NvmeDeviceProofs` proves all the invariants of the run `device`, for any number of queues and of
restarts: `AllReleasedHolds`, `AdminQueueValidHolds`, `ContextsHaveQueuesHolds`,
`FreezesBalancedHolds`, `OnlineIsReadyHolds` and `IrqsBalancedHolds`.  The only assumption is that an
`unsigned int` can count twice the queues (`DeviceAssumption`).

`IInv` says what is so at each place that a start, a shutdown or a removal can
reach, on each of its error paths.

* `HeldInv`: which resources are held.
* `AdminInv`: which of them belong to `admin_q`.
* `FreezeInv` and `NsInv`: how often the request queues are frozen.
* `ContextInv`: after which failures a hardware context may have lost its queue.
* `TableInv`: which queues are suspended and which have a handler.
* `CountInv` and `CtrlInv`: the queues that are ready, and those the controller has.
* `OnlineInv`: how far `online_queues` can be off.
* `HandlerInv`: a queue that is not suspended has its handler.

`OnlineInv` is the part that a look at the code does not give.  Suspending a queue that
never came online takes `online_queues` below zero, as an unsigned number.  The
next start begins to create queues at that number.  It never falls by more than
the number of I/O queues and two, so it is still larger than any queue's index:
`nvme_create_io_queues` creates nothing, and `nvme_set_irq_hints` then reads past the table, the
invalid use that `OnlineIsReady` allows after a failed creation or thread start only.

The lemmas of the first half say what each function does to each field of the
device.  Then there is one lemma per step.  It first says what becomes of the
fields on each branch, and then takes the parts of the invariant in turn.

### Only model-checked

* All liveness properties: fairness and `ENABLED` are beyond the prover.
* All of `PrpList`: its operators are recursive, as the lists are.

## What is not modelled

* The asynchronous event command that `nvme_kthread` keeps outstanding.  It has
  the reserved tag, no timer and no waiter, and shares no state with the rest of
  `NvmeCommand` but the ring.
* When a block request is tried again.  `req_completion` hands it back to the block
  layer before it releases the iod; in `PrpList` a second try is a new transfer.
  `add_disk` is commented out, so no file system or block user sends requests.
* Data integrity: arithmetic on the protection information of block requests.
* Namespace formats, the SCSI translation and the copying of the structures of
  pass-through ioctls translate one structure into another.
* The test programs.
* The reference counts of the block layer.  `add_disk`, which takes the
  reference to a request queue that `put_disk` gives back, is commented out.
* The character device's use of `current_dev` while a device is removed, and of
  the module while it is unloaded.

`PROJECT.json` lists the hazards that no property covers, each with the reason.

## Plan

1. `Lifecycle` composed with open files and `current_dev`.
2. Proof of `CommandsCoverBuffer` for blocks of a page.
3. Block requests with the block layer's queue: requeueing beside completion.
