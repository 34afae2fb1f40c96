--------------------------- MODULE LifecycleProofs ---------------------------
(***************************************************************************)
(* The polling thread that all devices share is never lost, never missing  *)
(* and never left behind, and what is registered finds what it depends on, *)
(* for any number of devices, threads and resets, when nvme_remove does    *)
(* not race with the device's own work.                                    *)
(***************************************************************************)
EXTENDS Lifecycle, TLAPS

-----------------------------------------------------------------------------
(* The inductive invariant.                                                *)

\* Places of a worker whose device is on dev_list.
Listed == {"running", "waiting", "checking"}

\* Places of a worker that will take its device off dev_list itself.
Leaving == {"disable", "shutdown"}

\* Where a device stands: on the list, with a remover, probed.
PlaceInv(d) ==
  /\ worker[d] \in Listed => d \in dev_list
  /\ d \in dev_list => /\ worker[d] \in Listed \cup Leaving \cup {"up"}
                       /\ remover[d] = "none"
  /\ remover[d] # "none" => Idle(d)
  /\ worker[d] \in {"shutdown", "down"} => resets[d] < MaxResets
  /\ pc \notin {"loaded", "exiting"} => remover[d] = "gone" \/ worker[d] = "none"

\* A device about to start the thread is alone in that, and none runs.
StarterInv ==
  \A d \in Devices :
     worker[d] = "running" =>
        /\ nvme_thread = NULL
        /\ \A e \in Devices : worker[e] = "running" => e = d

\* The thread a caller took out of nvme_thread is its own to stop.
TakenInv ==
  /\ \A d \in Devices : tmp[d]["w"] # NULL => worker[d] \in {"disabled", "down"}
  /\ \A d \in Devices : tmp[d]["r"] # NULL => remover[d] = "stop"
  /\ \A d \in Devices, x \in Callers :
        tmp[d][x] # NULL => tmp[d][x] \in threads /\ tmp[d][x] # nvme_thread
  /\ \A d, e \in Devices, x, y \in Callers :
        tmp[d][x] # NULL /\ tmp[d][x] = tmp[e][y] => d = e /\ x = y

\* nvme_thread runs for somebody who will take it out.
ThreadInv ==
  IsRunning(nvme_thread) =>
     /\ nvme_thread \in threads
     /\ \E d \in Devices : \/ d \in dev_list \/ worker[d] \in Leaving
                           \/ remover[d] = "flush"

\* What is registered at each place of chario_init, of its error paths and of
\* chario_exit.
Registered(place) ==
  CASE place \in {"out", "gone"} -> {}
    [] place \in {"kobj", "kobject_put", "leaked"} -> {"kobj"}
    [] place \in {"chrdev", "class_failed", "class_destroy", "unregister_chrdev"} ->
          {"kobj", "chrdev"}
    [] place \in {"class", "device_failed", "class_unregister"} ->
          {"kobj", "chrdev", "class"}
    [] place \in {"device", "device_destroy"} -> {"kobj", "chrdev", "class", "device"}
    [] place \in {"workq", "kill_workq"} ->
          {"kobj", "chrdev", "class", "device", "workq"}
    [] place = "exit_class" -> {"kobj", "chrdev", "class", "device", "nvme_class"}
    [] place \in {"nvme_class", "destroy_class", "exit_workq"} -> Resources \ {"driver"}
    [] OTHER -> Resources

\* The places after the second release of the class; kobject_put and the end
\* are reached without one as well.
ClassGoneTwice == {"unregister_chrdev", "kobject_put", "gone"}

HeldIs(place, r, n) ==
  \/ n = IF r \in Registered(place) THEN 1 ELSE 0
  \/ r = "class" /\ place \in ClassGoneTwice /\ n = -1

Places == DOMAIN Order \cup DOMAIN Releases \cup {"loaded", "exiting", "gone", "leaked"}

ModuleInv ==
  /\ pc \in Places
  /\ held \in [Resources -> -1 .. 1]
  /\ \A r \in Resources : HeldIs(pc, r, held[r])

IInv ==
  /\ TypeOK
  /\ \A d \in Devices : PlaceInv(d)
  /\ StarterInv
  /\ TakenInv
  /\ NoThreadLost
  /\ ThreadInv
  /\ PolledWhileUp

-----------------------------------------------------------------------------
(* The module.                                                             *)

\* The places of chario_init, and the registration each one is about.
LEMMA OrderFacts ==
  /\ DOMAIN Order = {"out", "kobj", "chrdev", "class", "device", "workq", "nvme_class"}
  /\ Order["out"] = "kobj" /\ Order["kobj"] = "chrdev" /\ Order["chrdev"] = "class"
  /\ Order["class"] = "device" /\ Order["device"] = "workq"
  /\ Order["workq"] = "nvme_class" /\ Order["nvme_class"] = "driver"
BY DEF Order

\* The devices and the threads are as they were, and the module has not been
\* unloaded nor its loading failed in this step.
LEMMA Frame ==
  ASSUME IInv, UNCHANGED <<shared, device, current_dev>>
  PROVE  StarterInv' /\ TakenInv' /\ NoThreadLost' /\ ThreadInv' /\ PolledWhileUp'
<1>1. UNCHANGED <<dev_list, nvme_thread, threads, worker, remover, tmp, resets>>
  BY DEF shared, device
<1> USE <1>1 DEF IInv
<1>2. StarterInv'
  BY DEF StarterInv
<1>3. TakenInv'
  BY DEF TakenInv
<1>4. NoThreadLost'
  BY DEF NoThreadLost
<1>5. ThreadInv'
  BY DEF ThreadInv, IsRunning
<1>6. PolledWhileUp'
  BY DEF PolledWhileUp
<1> QED BY <1>2, <1>3, <1>4, <1>5, <1>6

\* The releases, likewise, and where each failure leads.
LEMMA ReleaseFacts ==
  /\ DOMAIN Releases = {"device_failed", "class_failed", "destroy_class", "kill_workq",
        "exit_workq", "exit_class", "device_destroy", "class_unregister", "class_destroy",
        "unregister_chrdev", "kobject_put"}
  /\ Releases["device_failed"] = <<"class", "class_failed">>
  /\ Releases["class_failed"] = <<"chrdev", "leaked">>
  /\ Releases["destroy_class"] = <<"nvme_class", "kill_workq">>
  /\ Releases["kill_workq"] = <<"workq", "device_destroy">>
  /\ Releases["exit_workq"] = <<"workq", "exit_class">>
  /\ Releases["exit_class"] = <<"nvme_class", "device_destroy">>
  /\ Releases["device_destroy"] = <<"device", "class_unregister">>
  /\ Releases["class_unregister"] = <<"class", "class_destroy">>
  /\ Releases["class_destroy"] = <<"class", "unregister_chrdev">>
  /\ Releases["unregister_chrdev"] = <<"chrdev", "kobject_put">>
  /\ Releases["kobject_put"] = <<"kobj", "gone">>
BY DEF Releases, ReleasesWith

LEMMA FailureFacts ==
  /\ Failure["kobj"] = "gone" /\ Failure["chrdev"] = "leaked"
  /\ Failure["class"] = "class_failed" /\ Failure["device"] = "device_failed"
  /\ Failure["workq"] = "device_destroy" /\ Failure["nvme_class"] = "kill_workq"
  /\ Failure["driver"] = "destroy_class"
BY DEF Failure, FailureTo

\* A step that registers or releases one resource, or none, and leads to a
\* place where just that resource is the difference.
LEMMA AddHeld ==
  ASSUME ModuleInv, NEW place \in Places, NEW r \in Resources, NEW n \in {-1, 1},
         held' = [held EXCEPT ![r] = @ + n], pc' = place,
         \A x \in Resources \ {r}, m \in -1 .. 1 : HeldIs(pc, x, m) => HeldIs(place, x, m),
         \A m \in -1 .. 1 : HeldIs(pc, r, m) => HeldIs(place, r, m + n) /\ m + n \in -1 .. 1
  PROVE  ModuleInv'
<1>1. held \in [Resources -> -1 .. 1] /\ \A x \in Resources : HeldIs(pc, x, held[x])
  BY DEF ModuleInv
<1>2. held'[r] = held[r] + n /\ \A x \in Resources \ {r} : held'[x] = held[x]
  BY <1>1
<1>3. \A x \in Resources : HeldIs(place, x, held'[x]) /\ held'[x] \in -1 .. 1
  BY <1>1, <1>2
<1>4. held' \in [Resources -> -1 .. 1]
  BY <1>1, <1>3
<1>5. \A x \in Resources : HeldIs(pc', x, held'[x])
  BY <1>3
<1> QED BY <1>4, <1>5 DEF ModuleInv

\* At a place of chario_init the next registration is made.
LEMMA RegisterHeld ==
  ASSUME ModuleInv, Register
  PROVE  ModuleInv'
<1> DEFINE r == Order[pc]
           place == IF r = "driver" THEN "loaded" ELSE r
<1>1. pc \in DOMAIN Order /\ held' = [held EXCEPT ![r] = @ + 1] /\ pc' = place
  BY DEF Register, Add
<1>2. r \in Resources /\ place \in Places
  BY <1>1, OrderFacts DEF Resources, Places
<1>3. \A x \in Resources \ {r}, m \in -1 .. 1 : HeldIs(pc, x, m) => HeldIs(place, x, m)
  BY <1>1, OrderFacts DEF HeldIs, Registered, ClassGoneTwice, Resources
<1>4. \A m \in -1 .. 1 : HeldIs(pc, r, m) => HeldIs(place, r, m + 1) /\ m + 1 \in -1 .. 1
  BY <1>1, OrderFacts DEF HeldIs, Registered, ClassGoneTwice, Resources
<1> HIDE DEF r, place
<1> QED BY <1>1, <1>2, <1>3, <1>4, AddHeld

\* A registration fails: the error path finds registered what it takes back.
LEMMA RegisterFailsHeld ==
  ASSUME ModuleInv, RegisterFails
  PROVE  ModuleInv'
<1>1. pc \in DOMAIN Order
  BY DEF RegisterFails
<1>2. CASE pc' = Failure[Order[pc]] /\ UNCHANGED held
  <2>1. pc' \in Places
    BY <1>1, <1>2, OrderFacts, FailureFacts, ReleaseFacts DEF Places
  <2>2. \A x \in Resources, m \in -1 .. 1 : HeldIs(pc, x, m) => HeldIs(pc', x, m)
    BY <1>1, <1>2, OrderFacts, FailureFacts DEF HeldIs, Registered, ClassGoneTwice, Resources
  <2> QED BY <1>2, <2>1, <2>2 DEF ModuleInv
<1>3. CASE pc = "out" /\ Add("kobj", 1) /\ pc' = "kobject_put"
  <2>1. "kobj" \in Resources /\ "kobject_put" \in Places
    BY ReleaseFacts DEF Resources, Places
  <2>2. \A x \in Resources \ {"kobj"}, m \in -1 .. 1 :
           HeldIs("out", x, m) => HeldIs("kobject_put", x, m)
    BY DEF HeldIs, Registered, ClassGoneTwice
  <2>3. \A m \in -1 .. 1 : HeldIs("out", "kobj", m) =>
           HeldIs("kobject_put", "kobj", m + 1) /\ m + 1 \in -1 .. 1
    BY DEF HeldIs, Registered, ClassGoneTwice
  <2> QED BY <1>3, <2>1, <2>2, <2>3, AddHeld DEF Add
<1> QED BY <1>2, <1>3 DEF RegisterFails

\* One release of an error path or of chario_exit.
LEMMA UnwindHeld ==
  ASSUME ModuleInv, Unwind
  PROVE  ModuleInv'
<1> DEFINE r == Releases[pc][1]
           place == Releases[pc][2]
<1>1. pc \in DOMAIN Releases /\ held' = [held EXCEPT ![r] = @ + (-1)] /\ pc' = place
  BY DEF Unwind, Add
<1>2. r \in Resources /\ place \in Places
  BY <1>1, ReleaseFacts DEF Resources, Places
<1>3. \A x \in Resources \ {r}, m \in -1 .. 1 : HeldIs(pc, x, m) => HeldIs(place, x, m)
  BY <1>1, ReleaseFacts DEF HeldIs, Registered, ClassGoneTwice, Resources
<1>4. \A m \in -1 .. 1 : HeldIs(pc, r, m) => HeldIs(place, r, m + (-1)) /\ m + (-1) \in -1 .. 1
  BY <1>1, ReleaseFacts DEF HeldIs, Registered, ClassGoneTwice, Resources
<1> HIDE DEF r, place
<1> QED BY <1>1, <1>2, <1>3, <1>4, AddHeld

\* pci_unregister_driver returns.
LEMMA ExitHeld ==
  ASSUME ModuleInv, Exit
  PROVE  ModuleInv'
<1>1. pc = "exiting" /\ held' = [held EXCEPT !["driver"] = @ + (-1)] /\ pc' = "exit_workq"
  BY DEF Exit, Add
<1>2. "driver" \in Resources /\ "exit_workq" \in Places
  BY ReleaseFacts DEF Resources, Places
<1>3. \A x \in Resources \ {"driver"}, m \in -1 .. 1 :
         HeldIs("exiting", x, m) => HeldIs("exit_workq", x, m)
  BY DEF HeldIs, Registered, ClassGoneTwice, Resources
<1>4. \A m \in -1 .. 1 : HeldIs("exiting", "driver", m) =>
         HeldIs("exit_workq", "driver", m + (-1)) /\ m + (-1) \in -1 .. 1
  BY DEF HeldIs, Registered, ClassGoneTwice, Resources
<1> QED BY <1>1, <1>2, <1>3, <1>4, AddHeld

\* The steps of the devices leave the module alone.
LEMMA ModuleStep ==
  ASSUME ModuleInv, [Next]_vars
  PROVE  ModuleInv'
<1>1. ASSUME UNCHANGED module PROVE ModuleInv'
  BY <1>1 DEF module, ModuleInv
<1>2. CASE UNCHANGED vars
  BY <1>1, <1>2 DEF vars
<1>3. CASE ExitBegin
  <2>1. pc = "loaded" /\ pc' = "exiting" /\ UNCHANGED held
    BY <1>3 DEF ExitBegin
  <2>2. \A x \in Resources, m \in -1 .. 1 : HeldIs("loaded", x, m) => HeldIs("exiting", x, m)
    BY DEF HeldIs, Registered, ClassGoneTwice
  <2> QED BY <2>1, <2>2 DEF ModuleInv, Places
<1>4. ASSUME NEW d \in Devices,
             \/ nvme_probe(d) \/ Step(d) \/ ControllerFails(d)
             \/ RemoveBegin(d) \/ RemoveLeaves(d) \/ RemoveEnds(d)
      PROVE  UNCHANGED module
  BY <1>4 DEF module, nvme_probe, Step, ControllerFails, RemoveBegin,
     RemoveLeaves, RemoveEnds, ListAdd, ListAddWith, ConfigureFails, RunThread,
     RunWith, WaitThread, CheckThread, WorkerLeaves, WorkerStops
<1> QED
  BY <1>1, <1>2, <1>3, <1>4, RegisterHeld, RegisterFailsHeld, ExitHeld, UnwindHeld DEF Next

\* The module's own steps keep the rest of the invariant.
LEMMA ModuleFrame ==
  ASSUME IInv, ModuleInv', Register \/ RegisterFails \/ ExitBegin \/ Exit \/ Unwind
  PROVE  IInv'
<1>1. UNCHANGED <<shared, device, current_dev>>
  BY DEF Register, RegisterFails, ExitBegin, Exit, Unwind
<1>2. TypeOK'
  BY <1>1 DEF IInv, TypeOK, ModuleInv, Places, shared, device
<1>3. pc' \notin {"loaded", "exiting"} =>
         \/ pc \notin {"loaded", "exiting"}
         \/ \A d \in Devices : remover[d] = "gone" \/ worker[d] = "none"
  BY OrderFacts DEF Register, RegisterFails, ExitBegin, Exit, Unwind, Releases, ReleasesWith
<1>4. \A d \in Devices : PlaceInv(d)'
  BY <1>1, <1>3 DEF IInv, PlaceInv, shared, device, Idle
<1> QED BY <1>1, <1>2, <1>4, Frame DEF IInv

-----------------------------------------------------------------------------
(* The devices.                                                            *)

\* A step that leaves the threads alone, and the callers that took one.
LEMMA TakenFrame ==
  ASSUME IInv, UNCHANGED <<tmp, threads, nvme_thread>>,
         \A e \in Devices :
            /\ worker[e] \in {"disabled", "down"} => worker'[e] = worker[e]
            /\ remover[e] = "stop" => remover'[e] = remover[e]
  PROVE  TakenInv' /\ NoThreadLost'
<1>1. TakenInv'
  BY DEF IInv, TakenInv
<1>2. NoThreadLost'
  BY DEF IInv, NoThreadLost
<1> QED BY <1>1, <1>2

\* A device is probed.
LEMMA nvme_probeStep ==
  ASSUME IInv, ~RemoveRaces, NEW d \in Devices, nvme_probe(d)
  PROVE  IInv'
<1> USE DEF IInv
<1>0. TypeOK /\ PlaceInv(d)
  OBVIOUS
<1>1. TypeOK'
  BY <1>0 DEF TypeOK, nvme_probe, Move, module, shared
<1>2. ASSUME NEW e \in Devices PROVE PlaceInv(e)'
  BY <1>0, OrderFacts DEF TypeOK, PlaceInv, Idle, Listed, Leaving, nvme_probe, Move, module, shared
<1>3. StarterInv'
  BY <1>0 DEF TypeOK, PlaceInv, Listed, StarterInv, nvme_probe, Move, shared
<1>4. TakenInv' /\ NoThreadLost'
  BY <1>0, TakenFrame DEF TypeOK, nvme_probe, Move, shared
<1>5. ThreadInv'
  BY <1>0 DEF TypeOK, ThreadInv, PlaceInv, Listed, Leaving, IsRunning, nvme_probe, Move, shared
<1>6. PolledWhileUp'
  BY <1>0 DEF TypeOK, PolledWhileUp, StarterInv, ThreadInv, PlaceInv, Listed, IsRunning, nvme_probe, Move, shared
<1> QED BY <1>1, <1>2, <1>3, <1>4, <1>5, <1>6


\* A device joins dev_list; the first undertakes to start the thread.
LEMMA ListAddStep ==
  ASSUME IInv, ~RemoveRaces, NEW d \in Devices, ListAdd(d)
  PROVE  IInv'
<1> USE DEF IInv
<1>0. TypeOK /\ PlaceInv(d)
  OBVIOUS
<1>1. TypeOK'
  BY <1>0 DEF TypeOK, ListAdd, ListAddWith, Move, module
<1>2. ASSUME NEW e \in Devices PROVE PlaceInv(e)'
  BY <1>0 DEF TypeOK, PlaceInv, Idle, Listed, Leaving, ListAdd, ListAddWith, Move, module
<1>3. StarterInv'
  BY <1>0 DEF TypeOK, PlaceInv, Listed, StarterInv, ListAdd, ListAddWith, Move
<1>4. TakenInv'
  BY <1>0 DEF TypeOK, PlaceInv, TakenInv, ThreadInv, IsRunning, Callers, ListAdd, ListAddWith, Move
<1>5. NoThreadLost'
  BY <1>0 DEF TypeOK, NoThreadLost, StarterInv, TakenInv, ThreadInv, Callers, Ids, NULL, ERR, IsRunning, ListAdd, ListAddWith, Move
<1>6. ThreadInv'
  BY <1>0 DEF TypeOK, ThreadInv, PlaceInv, Listed, Leaving, IsRunning, ListAdd, ListAddWith, Move
<1>7. PolledWhileUp'
  BY <1>0 DEF TypeOK, PolledWhileUp, StarterInv, ThreadInv, PlaceInv, Listed, IsRunning, ListAdd, ListAddWith, Move
<1> QED BY <1>1, <1>2, <1>3, <1>4, <1>5, <1>6, <1>7


\* A device cannot be configured.
LEMMA ConfigureFailsStep ==
  ASSUME IInv, ~RemoveRaces, NEW d \in Devices, ConfigureFails(d)
  PROVE  IInv'
<1> USE DEF IInv
<1>0. TypeOK /\ PlaceInv(d)
  OBVIOUS
<1>1. TypeOK'
  BY <1>0 DEF TypeOK, ConfigureFails, AfterFailure, Move, module, shared
<1>2. ASSUME NEW e \in Devices PROVE PlaceInv(e)'
  BY <1>0, LifecycleAssumption DEF TypeOK, PlaceInv, Idle, Listed, Leaving, ConfigureFails, AfterFailure, Move, module, shared
<1>3. StarterInv'
  BY <1>0 DEF TypeOK, PlaceInv, Listed, StarterInv, ConfigureFails, AfterFailure, Move, shared
<1>4. TakenInv' /\ NoThreadLost'
  BY <1>0, TakenFrame DEF TypeOK, ConfigureFails, Move, shared
<1>5. ThreadInv'
  BY <1>0 DEF TypeOK, ThreadInv, PlaceInv, Listed, Leaving, IsRunning, ConfigureFails, AfterFailure, Move, shared
<1>6. PolledWhileUp'
  BY <1>0 DEF TypeOK, PolledWhileUp, StarterInv, ThreadInv, PlaceInv, Listed, IsRunning, ConfigureFails, AfterFailure, Move, shared
<1> QED BY <1>1, <1>2, <1>3, <1>4, <1>5, <1>6


\* The thread is started, or cannot be.
LEMMA RunThreadStep ==
  ASSUME IInv, ~RemoveRaces, NEW d \in Devices, RunThread(d)
  PROVE  IInv'
<1> USE DEF IInv
<1>0. TypeOK /\ PlaceInv(d)
  OBVIOUS
<1>1. TypeOK'
  BY <1>0 DEF TypeOK, RunThread, RunWith, Move, module
<1>2. ASSUME NEW e \in Devices PROVE PlaceInv(e)'
  BY <1>0 DEF TypeOK, PlaceInv, Idle, Listed, Leaving, RunThread, RunWith, Move, module
<1>3. StarterInv'
  BY <1>0 DEF TypeOK, PlaceInv, Listed, StarterInv, RunThread, RunWith, Move
<1>4. TakenInv'
  <2>1. /\ tmp' = tmp /\ remover' = remover /\ threads \subseteq threads'
        /\ \A e \in Devices : worker[e] \in {"disabled", "down"} => worker'[e] = worker[e]
    BY <1>0 DEF TypeOK, RunThread, RunWith, Move
  <2>2. \A e \in Devices, x \in Callers : tmp[e][x] # NULL => tmp[e][x] \in threads \cap Ids
    BY <1>0 DEF TypeOK, TakenInv
  <2>3. nvme_thread' \notin threads \cap Ids
    BY <1>0, LifecycleAssumption DEF RunThread, RunWith, Ids, ERR
  <2> QED BY <2>1, <2>2, <2>3 DEF TakenInv
<1>5. NoThreadLost'
  <2>1. NULL \notin threads /\ nvme_thread = NULL /\ tmp' = tmp
    BY <1>0 DEF TypeOK, Ids, NULL, StarterInv, RunThread, RunWith
  <2>2. threads' \subseteq threads \cup {nvme_thread'}
    BY DEF RunThread, RunWith
  <2> QED BY <2>1, <2>2 DEF NoThreadLost
<1>6. ThreadInv'
  BY <1>0 DEF TypeOK, ThreadInv, PlaceInv, Listed, Leaving, IsRunning, RunThread, RunWith, Move
<1>7. PolledWhileUp'
  BY <1>0 DEF TypeOK, PolledWhileUp, StarterInv, ThreadInv, PlaceInv, Listed, IsRunning, Ids, NULL, RunThread, RunWith, Move
<1> QED BY <1>1, <1>2, <1>3, <1>4, <1>5, <1>6, <1>7


\* A device that waited sees the thread.
LEMMA WaitThreadStep ==
  ASSUME IInv, ~RemoveRaces, NEW d \in Devices, WaitThread(d)
  PROVE  IInv'
<1> USE DEF IInv
<1>0. TypeOK /\ PlaceInv(d)
  OBVIOUS
<1>1. TypeOK'
  BY <1>0 DEF TypeOK, WaitThread, Move, module, shared
<1>2. ASSUME NEW e \in Devices PROVE PlaceInv(e)'
  BY <1>0 DEF TypeOK, PlaceInv, Idle, Listed, Leaving, WaitThread, Move, module, shared
<1>3. StarterInv'
  BY <1>0 DEF TypeOK, PlaceInv, Listed, StarterInv, WaitThread, Move, shared
<1>4. TakenInv' /\ NoThreadLost'
  BY <1>0, TakenFrame DEF TypeOK, WaitThread, Move, shared
<1>5. ThreadInv'
  BY <1>0 DEF TypeOK, ThreadInv, PlaceInv, Listed, Leaving, IsRunning, WaitThread, Move, shared
<1>6. PolledWhileUp'
  BY <1>0 DEF TypeOK, PolledWhileUp, StarterInv, ThreadInv, PlaceInv, Listed, IsRunning, WaitThread, Move, shared
<1> QED BY <1>1, <1>2, <1>3, <1>4, <1>5, <1>6


\* A device sees whether the thread runs.
LEMMA CheckThreadStep ==
  ASSUME IInv, ~RemoveRaces, NEW d \in Devices, CheckThread(d)
  PROVE  IInv'
<1> USE DEF IInv
<1>0. TypeOK /\ PlaceInv(d)
  OBVIOUS
<1>1. TypeOK'
  BY <1>0 DEF TypeOK, CheckThread, AfterFailure, Move, module, shared
<1>2. ASSUME NEW e \in Devices PROVE PlaceInv(e)'
  BY <1>0, LifecycleAssumption DEF TypeOK, PlaceInv, Idle, Listed, Leaving, CheckThread, AfterFailure, Move, module, shared
<1>3. StarterInv'
  BY <1>0 DEF TypeOK, PlaceInv, Listed, StarterInv, CheckThread, AfterFailure, Move, shared
<1>4. TakenInv' /\ NoThreadLost'
  BY <1>0, TakenFrame DEF TypeOK, CheckThread, Move, shared
<1>5. ThreadInv'
  BY <1>0 DEF TypeOK, ThreadInv, PlaceInv, Listed, Leaving, IsRunning, CheckThread, AfterFailure, Move, shared
<1>6. PolledWhileUp'
  BY <1>0 DEF TypeOK, PolledWhileUp, StarterInv, ThreadInv, PlaceInv, Listed, IsRunning, CheckThread, AfterFailure, Move, shared
<1> QED BY <1>1, <1>2, <1>3, <1>4, <1>5, <1>6


\* A worker takes its device off the list.
LEMMA WorkerLeavesStep ==
  ASSUME IInv, ~RemoveRaces, NEW d \in Devices, WorkerLeaves(d)
  PROVE  IInv'
<1> USE DEF IInv
<1>0. TypeOK /\ PlaceInv(d)
  OBVIOUS
<1>1. TypeOK'
  BY <1>0 DEF TypeOK, IsRunning, Callers, WorkerLeaves, LeaveList, Move, module
<1>2. ASSUME NEW e \in Devices PROVE PlaceInv(e)'
  BY <1>0 DEF TypeOK, PlaceInv, Idle, Listed, Leaving, WorkerLeaves, LeaveList, Move, module
<1>3. StarterInv'
  BY SMTT(20), <1>0 DEF TypeOK, PlaceInv, Listed, StarterInv, WorkerLeaves, LeaveList, Move
<1>4. TakenInv'
  BY <1>0 DEF TypeOK, PlaceInv, TakenInv, ThreadInv, IsRunning, Callers, WorkerLeaves, LeaveList, Move
<1>5. NoThreadLost'
  BY <1>0 DEF TypeOK, NoThreadLost, StarterInv, TakenInv, ThreadInv, Callers, Ids, NULL, ERR, IsRunning, WorkerLeaves, LeaveList, Move
<1>6. ThreadInv'
  BY SMTT(20), <1>0 DEF TypeOK, ThreadInv, PlaceInv, Listed, Leaving, IsRunning, WorkerLeaves, LeaveList, Move
<1>7. PolledWhileUp'
  BY <1>0 DEF TypeOK, PolledWhileUp, StarterInv, ThreadInv, PlaceInv, Listed, IsRunning, WorkerLeaves, LeaveList, Move
<1> QED BY <1>1, <1>2, <1>3, <1>4, <1>5, <1>6, <1>7


\* A worker stops the thread it took.
LEMMA WorkerStopsStep ==
  ASSUME IInv, ~RemoveRaces, NEW d \in Devices, WorkerStops(d)
  PROVE  IInv'
<1> USE DEF IInv
<1>0. TypeOK /\ PlaceInv(d)
  OBVIOUS
<1>1. TypeOK'
  <2>1. resets' \in [Devices -> 0 .. MaxResets]
    BY <1>0, LifecycleAssumption DEF TypeOK, PlaceInv, WorkerStops
  <2>2. tmp' \in [Devices -> [Callers -> Ids \cup {NULL}]] /\ threads' \subseteq Ids
    BY Zenon, <1>0 DEF TypeOK, WorkerStops, StopThread
  <2> QED BY SMTT(20), <2>1, <2>2, <1>0 DEF TypeOK, WorkerStops, AfterFailure, Move, module
<1>2. ASSUME NEW e \in Devices PROVE PlaceInv(e)'
  BY <1>0, LifecycleAssumption DEF TypeOK, PlaceInv, Idle, Listed, Leaving, WorkerStops, StopThread, AfterFailure, Move, module
<1>3. StarterInv'
  BY SMTT(20), <1>0 DEF TypeOK, PlaceInv, Listed, StarterInv, WorkerStops, StopThread, AfterFailure, Move
<1>4. TakenInv'
  BY <1>0 DEF TypeOK, PlaceInv, TakenInv, ThreadInv, IsRunning, Callers, WorkerStops, StopThread, AfterFailure, Move
<1>5. NoThreadLost'
  BY <1>0 DEF TypeOK, NoThreadLost, StarterInv, TakenInv, ThreadInv, Callers, Ids, NULL, ERR, IsRunning, WorkerStops, StopThread, AfterFailure, Move
<1>6. ThreadInv'
  BY <1>0 DEF TypeOK, TakenInv, Callers, NULL, ThreadInv, PlaceInv, Listed, Leaving, IsRunning, WorkerStops, StopThread, AfterFailure, Move
<1>7. PolledWhileUp'
  BY <1>0 DEF TypeOK, TakenInv, Callers, NULL, Ids, PolledWhileUp, StarterInv, ThreadInv, PlaceInv, Listed, IsRunning, WorkerStops, StopThread, AfterFailure, Move
<1> QED BY <1>1, <1>2, <1>3, <1>4, <1>5, <1>6, <1>7


\* A controller fails: its device leaves the list.
LEMMA ControllerFailsStep ==
  ASSUME IInv, ~RemoveRaces, NEW d \in Devices, ControllerFails(d)
  PROVE  IInv'
<1> USE DEF IInv
<1>0. TypeOK /\ PlaceInv(d)
  OBVIOUS
<1>1. TypeOK'
  BY <1>0 DEF TypeOK, ControllerFails, Move, module
<1>2. ASSUME NEW e \in Devices PROVE PlaceInv(e)'
  BY <1>0 DEF TypeOK, PlaceInv, Idle, Listed, Leaving, ControllerFails, Move, module
<1>3. StarterInv'
  BY <1>0 DEF TypeOK, PlaceInv, Listed, StarterInv, ControllerFails, Move
<1>4. TakenInv' /\ NoThreadLost'
  BY <1>0, TakenFrame DEF TypeOK, ControllerFails, Move
<1>5. ThreadInv'
  BY <1>0 DEF TypeOK, ThreadInv, PlaceInv, Listed, Leaving, IsRunning, ControllerFails, Move
<1>6. PolledWhileUp'
  BY <1>0 DEF TypeOK, PolledWhileUp, StarterInv, ThreadInv, PlaceInv, Listed, IsRunning, ControllerFails, Move
<1> QED BY <1>1, <1>2, <1>3, <1>4, <1>5, <1>6


\* nvme_remove begins: the device leaves the list.
LEMMA RemoveBeginStep ==
  ASSUME IInv, ~RemoveRaces, NEW d \in Devices, RemoveBegin(d)
  PROVE  IInv'
<1> USE DEF IInv
<1>0. TypeOK /\ PlaceInv(d)
  OBVIOUS
<1>1. TypeOK'
  BY <1>0 DEF TypeOK, RemoveBegin, module
<1>2. ASSUME NEW e \in Devices PROVE PlaceInv(e)'
  BY <1>0 DEF TypeOK, PlaceInv, Idle, Listed, Leaving, RemoveBegin, module
<1>3. StarterInv'
  BY <1>0 DEF TypeOK, PlaceInv, Listed, StarterInv, RemoveBegin
<1>4. TakenInv' /\ NoThreadLost'
  BY <1>0, TakenFrame DEF TypeOK, RemoveBegin
<1>5. ThreadInv'
  BY <1>0 DEF TypeOK, ThreadInv, PlaceInv, Listed, Leaving, IsRunning, RemoveBegin
<1>6. PolledWhileUp'
  BY <1>0 DEF TypeOK, PolledWhileUp, StarterInv, ThreadInv, PlaceInv, Listed, IsRunning, RemoveBegin
<1> QED BY <1>1, <1>2, <1>3, <1>4, <1>5, <1>6


\* nvme_remove takes the thread of the last device.
LEMMA RemoveLeavesStep ==
  ASSUME IInv, ~RemoveRaces, NEW d \in Devices, RemoveLeaves(d)
  PROVE  IInv'
<1> USE DEF IInv
<1>0. TypeOK /\ PlaceInv(d)
  OBVIOUS
<1>1. TypeOK'
  BY <1>0 DEF TypeOK, IsRunning, Callers, RemoveLeaves, LeaveList, module
<1>2. ASSUME NEW e \in Devices PROVE PlaceInv(e)'
  BY <1>0 DEF TypeOK, PlaceInv, Idle, Listed, Leaving, RemoveLeaves, LeaveList, module
<1>3. StarterInv'
  BY SMTT(20), <1>0 DEF TypeOK, PlaceInv, Listed, StarterInv, RemoveLeaves, LeaveList
<1>4. TakenInv'
  BY SMTT(30), ZenonT(30), <1>0 DEF TypeOK, PlaceInv, TakenInv, ThreadInv, IsRunning, Callers, RemoveLeaves, LeaveList
<1>5. NoThreadLost'
  BY <1>0 DEF TypeOK, NoThreadLost, StarterInv, TakenInv, ThreadInv, Callers, Ids, NULL, ERR, IsRunning, RemoveLeaves, LeaveList
<1>6. ThreadInv'
  BY <1>0 DEF TypeOK, ThreadInv, PlaceInv, Listed, Leaving, IsRunning, RemoveLeaves, LeaveList
<1>7. PolledWhileUp'
  BY <1>0 DEF TypeOK, PolledWhileUp, StarterInv, ThreadInv, PlaceInv, Listed, IsRunning, RemoveLeaves, LeaveList
<1> QED BY <1>1, <1>2, <1>3, <1>4, <1>5, <1>6, <1>7


\* nvme_remove stops the thread it took.
LEMMA RemoveEndsStep ==
  ASSUME IInv, ~RemoveRaces, NEW d \in Devices, RemoveEnds(d)
  PROVE  IInv'
<1> USE DEF IInv
<1>0. TypeOK /\ PlaceInv(d)
  OBVIOUS
<1>1. TypeOK'
  BY Zenon, <1>0 DEF TypeOK, RemoveEnds, StopThread, module
<1>2. ASSUME NEW e \in Devices PROVE PlaceInv(e)'
  BY <1>0 DEF TypeOK, PlaceInv, Idle, Listed, Leaving, RemoveEnds, StopThread, module
<1>3. StarterInv'
  BY <1>0 DEF TypeOK, PlaceInv, Listed, StarterInv, RemoveEnds, StopThread
<1>4. TakenInv'
  BY SMTT(30), ZenonT(30), <1>0 DEF TypeOK, PlaceInv, TakenInv, ThreadInv, IsRunning, Callers, RemoveEnds, StopThread
<1>5. NoThreadLost'
  BY <1>0 DEF TypeOK, NoThreadLost, StarterInv, TakenInv, ThreadInv, Callers, Ids, NULL, ERR, IsRunning, RemoveEnds, StopThread
<1>6. ThreadInv'
  BY SMTT(20), <1>0 DEF TypeOK, TakenInv, Callers, NULL, ThreadInv, PlaceInv, Listed, Leaving, IsRunning, RemoveEnds, StopThread
<1>7. PolledWhileUp'
  BY SMTT(30), ZenonT(30), <1>0 DEF TypeOK, TakenInv, Callers, NULL, Ids, PolledWhileUp, StarterInv, ThreadInv, PlaceInv, Listed, IsRunning, RemoveEnds, StopThread
<1> QED BY <1>1, <1>2, <1>3, <1>4, <1>5, <1>6, <1>7

-----------------------------------------------------------------------------
(* The theorems.                                                           *)

LEMMA InitInv == Init => IInv
<1> SUFFICES ASSUME Init PROVE IInv
  OBVIOUS
<1> USE DEF Init
<1>1. TypeOK
  BY LifecycleAssumption, OrderFacts DEF TypeOK
<1>2. ASSUME NEW d \in Devices PROVE PlaceInv(d)
  BY OrderFacts DEF PlaceInv, Listed, Idle
<1>3. StarterInv /\ TakenInv /\ NoThreadLost /\ ThreadInv /\ PolledWhileUp
  BY DEF StarterInv, TakenInv, NoThreadLost, ThreadInv, IsRunning, PolledWhileUp, Callers
<1> QED BY <1>1, <1>2, <1>3 DEF IInv

LEMMA InitModule == Init => ModuleInv
BY OrderFacts DEF Init, ModuleInv, HeldIs, Registered, Places

LEMMA NextInv ==
  ASSUME IInv, ModuleInv, ~RemoveRaces, [Next]_vars
  PROVE  IInv'
<1>1. CASE UNCHANGED vars
  <2>1. UNCHANGED <<pc, held, shared, device, current_dev>>
    BY <1>1 DEF vars, module
  <2>2. TypeOK'
    BY <2>1 DEF IInv, TypeOK, shared, device
  <2>3. \A d \in Devices : PlaceInv(d)'
    BY <2>1 DEF IInv, PlaceInv, Idle, shared, device
  <2> QED BY <2>1, <2>2, <2>3, Frame DEF IInv
<1>2. CASE Register \/ RegisterFails \/ ExitBegin \/ Exit \/ Unwind
  BY <1>2, ModuleStep, ModuleFrame
<1>3. ASSUME NEW d \in Devices, nvme_probe(d) \/ Step(d) \/ ControllerFails(d)
      PROVE  IInv'
  BY <1>3, nvme_probeStep, ListAddStep, ConfigureFailsStep, RunThreadStep,
     WaitThreadStep, CheckThreadStep, WorkerLeavesStep, WorkerStopsStep,
     ControllerFailsStep DEF Step
<1>4. ASSUME NEW d \in Devices, RemoveBegin(d) \/ RemoveLeaves(d) \/ RemoveEnds(d)
      PROVE  IInv'
  BY <1>4, RemoveBeginStep, RemoveLeavesStep, RemoveEndsStep
<1> QED BY <1>1, <1>2, <1>3, <1>4 DEF Next

\* The invariant of the module holds of every behaviour ...
THEOREM ModuleInvariant == Spec => []ModuleInv
BY InitModule, ModuleStep, PTL DEF Spec

\* ... and that of the devices of every one in which removals do not race.
THEOREM InductiveInvariant == ~RemoveRaces => (Spec => []IInv)
<1> SUFFICES ASSUME ~RemoveRaces PROVE Spec => []IInv
  OBVIOUS
<1>1. IInv /\ ModuleInv /\ [Next]_vars => IInv'
  BY NextInv
<1> QED BY InitInv, <1>1, ModuleInvariant, PTL DEF Spec

\* Every thread that kthread_run started and nobody stopped is nvme_thread, or
\* in the tmp of a nvme_dev_list_remove that is about to stop it.
THEOREM NoThreadLostHolds == ~RemoveRaces => (Spec => []NoThreadLost)
<1>1. IInv => NoThreadLost
  BY DEF IInv
<1> QED BY InductiveInvariant, <1>1, PTL

\* A device that is up and on dev_list is polled by a running nvme_thread.
THEOREM PolledWhileUpHolds == ~RemoveRaces => (Spec => []PolledWhileUp)
<1>1. IInv => PolledWhileUp
  BY DEF IInv
<1> QED BY InductiveInvariant, <1>1, PTL

\* No device is left when the driver is not registered: what is idle stays so.
LEMMA DriverGone ==
  ASSUME ModuleInv, IInv, held["driver"] = 0
  PROVE  \A d \in Devices : remover[d] = "gone" \/ worker[d] = "none"
<1>1. pc \notin {"loaded", "exiting"}
  BY DEF ModuleInv, HeldIs, Registered, Resources
<1> QED BY <1>1 DEF IInv, PlaceInv

\* nvme_exit's BUG_ON is not reached, and no thread runs in the module's code
\* from the return of pci_unregister_driver on: a device that still listed
\* itself, left a thread behind or was about to stop one would not be removed
\* yet.
THEOREM NoThreadAtExitHolds == ~RemoveRaces => (Spec => []NoThreadAtExit)
<1>1. ASSUME ModuleInv, IInv, held["driver"] = 0
      PROVE  ~IsRunning(nvme_thread) /\ threads = {}
  <2>1. ASSUME NEW d \in Devices
        PROVE  /\ d \notin dev_list /\ worker[d] \notin Leaving
               /\ remover[d] \notin {"flush", "stop"}
               /\ worker[d] \notin {"disabled", "down"}
    BY <1>1, DriverGone DEF IInv, PlaceInv, Idle, Listed, Leaving
  <2>2. ~IsRunning(nvme_thread)
    BY <1>1, <2>1 DEF IInv, ThreadInv
  <2>3. \A d \in Devices, who \in Callers : tmp[d][who] = NULL
    BY <1>1, <2>1 DEF IInv, TakenInv, Callers
  <2>4. threads \subseteq Ids /\ NoThreadLost
    BY <1>1 DEF IInv, TypeOK
  <2>5. ASSUME NEW t \in threads PROVE FALSE
    BY <2>2, <2>3, <2>4, LifecycleAssumption DEF NoThreadLost, IsRunning, Ids, NULL, ERR
  <2> QED BY <2>2, <2>5
<1>2. ModuleInv /\ IInv => NoThreadAtExit
  BY <1>1 DEF NoThreadAtExit
<1> QED BY ModuleInvariant, InductiveInvariant, <1>2, PTL

\* After every registration and every release of chario_init, its error paths
\* and chario_exit, what is in use finds what it depends on; works that are
\* queued or run are in use too.
THEOREM DependenciesHeldHolds == ~RemoveRaces => (Spec => []DependenciesHeld)
<1>1. ASSUME ModuleInv, IInv PROVE DependenciesHeld
  <2>1. /\ held["device"] > 0 => held["class"] > 0 /\ held["chrdev"] > 0
        /\ held["driver"] > 0 => held["workq"] > 0 /\ held["nvme_class"] > 0
        /\ held["driver"] # 0 => held["driver"] > 0
    BY <1>1, OrderFacts, ReleaseFacts
       DEF ModuleInv, HeldIs, Registered, ClassGoneTwice, Places, Resources
  <2>2. ASSUME NEW d \in Devices, held["driver"] = 0
        PROVE  worker[d] = "none" \/ Idle(d)
    BY <1>1, <2>2, DriverGone DEF IInv, PlaceInv
  <2> QED BY <2>1, <2>2 DEF DependenciesHeld
<1> QED BY ModuleInvariant, InductiveInvariant, <1>1, PTL

\* On every path out of the module each registration is taken back, once,
\* except for the two that the code gets wrong.
THEOREM ReleasedOnceHolds == Spec => []ReleasedOnce
<1>1. ASSUME ModuleInv PROVE ReleasedOnce
  BY <1>1 DEF ModuleInv, HeldIs, Registered, ClassGoneTwice, ReleasedOnce
<1> QED BY ModuleInvariant, <1>1, PTL
=============================================================================
