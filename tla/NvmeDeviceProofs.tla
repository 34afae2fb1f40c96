--------------------------- MODULE NvmeDeviceProofs ---------------------------
(***************************************************************************)
(* Invariants of NvmeDevice, for any number of queues, resets and failures.*)
(*                                                                         *)
(* Lemmas named after a function of NvmeDevice (TakeIs, SuspendedIs, ...)  *)
(* say what it does to each field of the device.  The proof of a step      *)
(* first says what becomes of the fields on each of its branches, and then *)
(* takes the parts of the invariant one after the other.                   *)
(***************************************************************************)
EXTENDS NvmeDevice, TLAPS

-----------------------------------------------------------------------------
(* The inductive invariant.                                                *)

Down    == {"map", "start_failed", "asleep", "dead", "removing", "off"}
Stopped == Down \cup {"admin", "unmap"}
First   == {"list", "tags", "io", "free_tags", "disable"}
Later   == {"alloc", "create", "started", "add", "up"}
Places  == Stopped \cup First \cup Later \cup {"absent", "shutdown", "gone"}
Reasons == {"probe", "reset", "reset_notify", "suspend", "resume", "shutdown", "remove"}

\* The calls whose failures are recorded.
Calls == {"alloc", "instance", "pools", "device", "pci_enable", "regions", "ioremap",
          "csts", "disable_ctrl", "alloc_admin", "enable_ctrl", "thread",
          "admin_tag_set", "init_admin_q", "get_admin_q", "set_features", "no_queues",
          "remap", "admin_irq", "fewer_vectors", "alloc_queue", "refused", "delete",
          "create", "identify", "tag_set", "ns"}

Queue  == [vector : Int, ready : BOOLEAN]
Device == [held : [Resources -> Int], queues : Seq(Queue), online : 0 .. UINT - 1,
           irqs : SUBSET Contexts, cqs : SUBSET Contexts, sqs : SUBSET Contexts,
           admin_q : {"null", "live", "dying", "freed", "err"},
           frozen : Int, ns_frozen : Int,
           ctx : [Contexts -> {"none", "bound", "stale"}],
           failed : SUBSET Calls, spurious : BOOLEAN,
           oops : {"no", "context", "admin_q", "index"}]

TypeInv ==
  /\ dev \in Device /\ pc \in Places /\ why \in Reasons
  /\ max_qid \in 0 .. MaxQueues
  /\ queue_count(dev) <= MaxQueues + 1
  /\ pc = "absent" => dev = NewDevice /\ why = "probe"
  /\ pc = "add" => why = "probe"

\* What is held at each place.
Base == {"mem", "pci_ref", "instance", "pools", "device", "device_ref"}
Mapped(d) == d.held["pci_enabled"] = 1 /\ d.held["regions"] = 1 /\ d.held["bar"] = 1
Unmapped(d) == /\ d.held["pci_enabled"] = 0 /\ d.held["bar"] = 0
               /\ \/ d.held["regions"] = 0
                  \/ d.held["regions"] = 1 /\ "remap" \in d.failed

HeldInv ==
  /\ pc \notin {"absent", "gone"} => \A r \in Base : dev.held[r] = 1
  /\ pc \in Later \cup (First \ {"free_tags"}) \cup {"admin", "unmap"} => Mapped(dev)
  /\ pc = "free_tags" => /\ dev.held["pci_enabled"] = 1 /\ dev.held["regions"] = 1
                         /\ \/ dev.held["bar"] = 1
                            \/ dev.held["bar"] = 0 /\ "remap" \in dev.failed
  /\ pc \in Down => Unmapped(dev)
  /\ pc = "shutdown" => Mapped(dev) \/ Unmapped(dev)
  /\ pc # "gone" =>
       /\ dev.held["tagset"] \in 0 .. 1 /\ dev.held["ns"] \in 0 .. 1
       /\ why = "probe" /\ pc # "up" => dev.held["tagset"] = 0 /\ dev.held["ns"] = 0
  /\ pc = "gone" => dev.held["pci_enabled"] = 0
  /\ AllReleased

\* admin_q and what it holds.
AdminInv ==
  /\ pc # "gone" =>
       /\ dev.held["admin_ref"] = IF dev.admin_q \in {"live", "dying"} THEN 1 ELSE 0
       /\ dev.held["admin_tags"] = IF dev.admin_q = "live" THEN 1 ELSE 0
       /\ dev.held["admin_queue"] = IF dev.admin_q = "live" THEN 1 ELSE 0
  /\ BadAdmin(dev) => /\ Failed({"init_admin_q", "get_admin_q"})
                      /\ pc = "disable" \/ dev.oops # "no"
  /\ AdminQueueValid

\* Freezing and thawing of the admin queue.
Vector(d, i) == d.queues[i + 1].vector
Once == dev.frozen >= 1 /\ (dev.frozen = 1 \/ Failed({"thread"}))
Thawed == dev.frozen = 0 \/ Failed({"thread"})

FreezeInv ==
  /\ dev.frozen >= 0
  /\ dev.admin_q = "null" => dev.frozen = 0
  /\ dev.admin_q \in {"live", "dying"} =>
       /\ pc \in Stopped \cup {"list", "tags"} => Once
       /\ pc = "disable" => Failed({"thread"}) /\ dev.frozen >= 1
       /\ pc \in Later \cup {"io", "free_tags"} => Thawed
       /\ pc = "shutdown" => IF queue_count(dev) > 0 /\ Vector(dev, 0) # -1
                            THEN Thawed ELSE Once

\* The contexts of the namespaces' queues, and their freezing.
Serving == pc = "up" \/ (pc = "shutdown" /\ dev.held["bar"] > 0)
Used == \E i \in Contexts \ {0} : dev.ctx[i] # "none"

NsInv ==
  /\ dev.ns_frozen >= 0
  /\ pc # "gone" =>
       /\ dev.held["ns"] = 0 => dev.ns_frozen = 0 /\ ~Used
       /\ dev.held["ns"] = 1 /\ ~Serving => dev.ns_frozen >= 1
       /\ Used => dev.ns_frozen = IF Serving THEN 0 ELSE 1

\* A context loses its queue only through certain failures.
Losses == {"enable_ctrl", "admin_irq", "no_queues", "create", "fewer_vectors"}
ContextInv ==
  /\ pc # "gone" /\ (\E i \in Contexts : dev.ctx[i] = "stale") => Failed(Losses)
  /\ ContextsHaveQueues
  /\ pc = "started" => Failed({"create", "no_queues"}) \/ dev.online >= queue_count(dev)

\* The queues: which are suspended and which have a handler.
Suspends(S) == \A i \in S : i < queue_count(dev) => Vector(dev, i) = -1
TableInv ==
  /\ \A i \in dev.irqs : i < queue_count(dev)
  /\ dev.oops # "index" => \A i \in dev.irqs : Vector(dev, i) # -1
  /\ pc \in Stopped => Suspends(Contexts)
  /\ pc \in First => /\ queue_count(dev) > 0 /\ Vector(dev, 0) # -1
                     /\ Suspends(Contexts \ {0})
  /\ pc \in First \ {"free_tags"} => 0 \in dev.irqs
  /\ pc = "free_tags" => 0 \in dev.irqs \/ Failed({"admin_irq"})
  /\ pc \in Later /\ dev.oops # "index" => queue_count(dev) > 0 /\ Vector(dev, 0) # -1
  /\ pc = "shutdown" =>
       \/ Suspends(Contexts)
       \/ queue_count(dev) > 0 /\ Vector(dev, 0) # -1
  /\ pc \in Stopped \cup {"gone"} => dev.irqs = {}
  /\ pc = "alloc" => dev.irqs = {0}
  /\ pc \in {"create", "started"} => \A i \in dev.irqs : i = 0 \/ i < dev.online

\* online_queues counts the queues that are ready, as long as every queue
\* could be created and the thread started.
Exact == ~Failed({"create", "thread"})
Ready(i) == dev.queues[i + 1].ready
Counts == /\ dev.online \in 1 .. queue_count(dev)
          /\ \A i \in Contexts : i < queue_count(dev) =>
                (Vector(dev, i) # -1 <=> i < dev.online) /\ (Ready(i) <=> i < dev.online)
          /\ dev.irqs = 0 .. dev.online - 1
Idle(S) == \A i \in S : i < queue_count(dev) => ~Ready(i)

CountInv ==
  Exact =>
    /\ pc \in Stopped \cup {"list"} => dev.online = 0 /\ Idle(Contexts)
    /\ pc \in {"tags", "io", "alloc", "free_tags", "disable"} =>
         dev.online = 1 /\ Ready(0) /\ Idle(Contexts \ {0})
    /\ pc = "create" => /\ dev.online \in 1 .. queue_count(dev)
                        /\ dev.irqs = 0 .. dev.online - 1
                        /\ \A i \in Contexts : i < queue_count(dev) =>
                             /\ i < dev.online => Vector(dev, i) # -1
                             /\ Ready(i) <=> i < dev.online
    /\ pc \in {"started", "add", "up"} => Counts
    /\ pc = "shutdown" => Counts \/ (dev.online = 0 /\ Idle(Contexts) /\ Suspends(Contexts))
    /\ dev.oops # "index"
    /\ pc \in {"create", "started", "add", "up"} =>
         Failed({"refused"}) \/ \A i \in Contexts \ {0} : i < dev.online => i \in dev.sqs

\* The controller's queues are in the table.
CtrlInv ==
  /\ pc \in First \cup {"alloc"} => dev.cqs = {}
  /\ ~Failed({"delete"}) =>
       /\ pc # "gone" => \A i \in dev.cqs : i < queue_count(dev)
       /\ pc \in {"create", "started"} => \A i \in dev.cqs : i < dev.online

\* online_queues falls below zero, as an unsigned number, when queues are
\* suspended that were not online, but never by so much that it seems to count
\* queues when the device starts again.
Low(k) == dev.online = 0 \/ dev.online >= UINT - k
Begun(k) == dev.online \in {0, 1} \/ dev.online >= UINT - k + 1
Slack == IF why = "reset" THEN MaxQueues + 2 ELSE MaxQueues + 1
Running0 == /\ dev.online <= queue_count(dev)
            /\ \A i \in Contexts : i < dev.online => Vector(dev, i) # -1

OnlineInv ==
  /\ pc \in {"asleep", "map", "admin", "unmap", "list"} => Low(Slack)
  /\ pc \in {"tags", "io", "free_tags", "alloc"} => Begun(Slack)
  /\ pc = "disable" => Low(Slack) \/ Begun(Slack)
  /\ pc = "start_failed" => why \in {"reset", "reset_notify"} \/ Low(Slack + 1)
  /\ pc = "shutdown" => \/ why = "remove"
                        \/ why = "reset" /\ Suspends(Contexts) /\ Low(Slack)
                        \/ Running0
  /\ pc = "create" => Begun(Slack) \/ Running0
  /\ pc \in {"started", "add", "up"} /\ dev.oops = "no" => Running0

\* A queue that is not suspended has its handler.
Handled == \A i \in Contexts :
              i < queue_count(dev) /\ Vector(dev, i) # -1 => i \in dev.irqs
HandlerInv ==
  ~Failed({"create"}) =>
    /\ pc = "create" /\ dev.oops = "no" =>
                        \/ dev.online = 0 \/ dev.online > queue_count(dev)
                        \/ /\ dev.online \in 1 .. queue_count(dev)
                           /\ dev.irqs = 0 .. dev.online - 1
    /\ pc \in {"started", "add", "up", "shutdown"} /\ dev.oops = "no" => Handled
    /\ dev.spurious => Failed({"admin_irq"})

IInv == /\ TypeInv /\ HeldInv /\ AdminInv /\ FreezeInv /\ NsInv /\ ContextInv /\ TableInv
        /\ CountInv /\ CtrlInv /\ OnlineInv /\ HandlerInv

-----------------------------------------------------------------------------
(* What each function of NvmeDevice does to each field of the device.      *)

HeldSame(e, d)  == e.held = d.held
TableSame(e, d) == e.queues = d.queues /\ e.online = d.online /\ e.irqs = d.irqs
CtrlSame(e, d)  == e.cqs = d.cqs /\ e.sqs = d.sqs
AdminSame(e, d) == e.admin_q = d.admin_q /\ e.frozen = d.frozen
NsSame(e, d)    == e.ns_frozen = d.ns_frozen /\ e.ctx = d.ctx
LogSame(e, d)   == e.failed = d.failed /\ e.spurious = d.spurious /\ e.oops = d.oops

Moved(e, d, S, n) ==
  \A r \in Resources : e.held[r] = IF r \in S THEN d.held[r] + n ELSE d.held[r]

\* Take and Drop move the resources S and nothing else.
LEMMA TakeIs ==
  ASSUME NEW d \in Device, NEW S
  PROVE  LET e == Take(d, S)
         IN  /\ e \in Device /\ Moved(e, d, S, 1)
             /\ TableSame(e, d) /\ CtrlSame(e, d) /\ AdminSame(e, d) /\ NsSame(e, d)
             /\ LogSame(e, d)
<1> DEFINE h == [r \in Resources |-> IF r \in S THEN d.held[r] + 1 ELSE d.held[r]]
<1>1. h \in [Resources -> Int] /\ \A r \in Resources : h[r] = IF r \in S THEN d.held[r] + 1 ELSE d.held[r]
  BY DEF Device
<1>2. Take(d, S) = [d EXCEPT !.held = h] BY Zenon DEF Take
<1> HIDE DEF h
<1>3. Take(d, S) \in Device BY Zenon, <1>1, <1>2 DEF Device
<1>4. /\ Moved(Take(d, S), d, S, 1) /\ TableSame(Take(d, S), d) /\ CtrlSame(Take(d, S), d)
      /\ AdminSame(Take(d, S), d) /\ NsSame(Take(d, S), d) /\ LogSame(Take(d, S), d)
  BY <1>1, <1>2 DEF Device, Moved, TableSame, CtrlSame, AdminSame, NsSame, LogSame
<1> QED BY Zenon, <1>3, <1>4

\* The same for Drop.
LEMMA DropIs ==
  ASSUME NEW d \in Device, NEW S
  PROVE  LET e == Drop(d, S)
         IN  /\ e \in Device /\ Moved(e, d, S, -1)
             /\ TableSame(e, d) /\ CtrlSame(e, d) /\ AdminSame(e, d) /\ NsSame(e, d)
             /\ LogSame(e, d)
<1> DEFINE h == [r \in Resources |-> IF r \in S THEN d.held[r] - 1 ELSE d.held[r]]
<1>1. h \in [Resources -> Int] /\ \A r \in Resources : h[r] = IF r \in S THEN d.held[r] + (-1) ELSE d.held[r]
  BY DEF Device
<1>2. Drop(d, S) = [d EXCEPT !.held = h] BY Zenon DEF Drop
<1> HIDE DEF h
<1>3. Drop(d, S) \in Device BY Zenon, <1>1, <1>2 DEF Device
<1>4. /\ Moved(Drop(d, S), d, S, -1) /\ TableSame(Drop(d, S), d) /\ CtrlSame(Drop(d, S), d)
      /\ AdminSame(Drop(d, S), d) /\ NsSame(Drop(d, S), d) /\ LogSame(Drop(d, S), d)
  BY <1>1, <1>2 DEF Device, Moved, TableSame, CtrlSame, AdminSame, NsSame, LogSame
<1> QED BY Zenon, <1>3, <1>4

\* The recorded failures.
LEMMA CallNames ==
  /\ "alloc" \in Calls /\ "instance" \in Calls /\ "pools" \in Calls /\ "device" \in Calls
  /\ "pci_enable" \in Calls /\ "regions" \in Calls /\ "ioremap" \in Calls /\ "csts" \in Calls
  /\ "disable_ctrl" \in Calls /\ "alloc_admin" \in Calls /\ "enable_ctrl" \in Calls /\ "thread" \in Calls
  /\ "admin_tag_set" \in Calls /\ "init_admin_q" \in Calls /\ "get_admin_q" \in Calls /\ "set_features" \in Calls
  /\ "no_queues" \in Calls /\ "remap" \in Calls /\ "admin_irq" \in Calls /\ "fewer_vectors" \in Calls
  /\ "alloc_queue" \in Calls /\ "refused" \in Calls /\ "delete" \in Calls /\ "create" \in Calls
  /\ "identify" \in Calls /\ "tag_set" \in Calls /\ "ns" \in Calls
  BY Zenon DEF Calls

\* Fail records the call that failed.
LEMMA FailIs ==
  ASSUME NEW d \in Device, NEW call \in Calls
  PROVE  LET e == Fail(d, call)
         IN  /\ e \in Device /\ e.failed = d.failed \cup {call}
             /\ e.spurious = d.spurious /\ e.oops = d.oops
             /\ HeldSame(e, d) /\ TableSame(e, d) /\ CtrlSame(e, d) /\ AdminSame(e, d)
             /\ NsSame(e, d)
<1> DEFINE f == d.failed \cup {call}
<1>1. f \in SUBSET Calls BY Zenon DEF Device
<1>2. Fail(d, call) = [d EXCEPT !.failed = f] BY Zenon DEF Fail
<1> HIDE DEF f
<1>3. QED BY Zenon, <1>1, <1>2 DEF Device, f, HeldSame, TableSame, CtrlSame, AdminSame, NsSame

\* OopsIf records the first invalid pointer that is used.
LEMMA OopsIs ==
  ASSUME NEW d \in Device, NEW bad \in BOOLEAN, NEW what \in {"context", "admin_q", "index"}
  PROVE  LET e == OopsIf(d, bad, what)
         IN  /\ e \in Device /\ e.oops = IF d.oops = "no" /\ bad THEN what ELSE d.oops
             /\ e.spurious = d.spurious /\ e.failed = d.failed
             /\ HeldSame(e, d) /\ TableSame(e, d) /\ CtrlSame(e, d) /\ AdminSame(e, d)
             /\ NsSame(e, d)
<1> DEFINE f == IF d.oops = "no" /\ bad THEN what ELSE d.oops
<1>1. f \in {"no", "context", "admin_q", "index"} BY Zenon DEF Device
<1>2. OopsIf(d, bad, what) = [d EXCEPT !.oops = f] BY Zenon DEF OopsIf
<1> HIDE DEF f
<1>3. QED BY Zenon, <1>1, <1>2 DEF Device, f, HeldSame, TableSame, CtrlSame, AdminSame, NsSame

\* nvme_free_queues shortens the table and leaves stale contexts.
LEMMA FreeQueuesIs ==
  ASSUME NEW d \in Device, NEW n \in Nat
  PROVE  LET e == nvme_free_queues(d, n)
         IN  /\ e \in Device
             /\ queue_count(e) = IF n < queue_count(d) THEN n ELSE queue_count(d)
             /\ \A k \in 1 .. queue_count(e) : e.queues[k] = d.queues[k]
             /\ \A i \in Contexts :
                  e.ctx[i] = IF i >= n /\ i < queue_count(d) /\ d.ctx[i] = "bound"
                             THEN "stale" ELSE d.ctx[i]
             /\ HeldSame(e, d) /\ CtrlSame(e, d) /\ AdminSame(e, d) /\ LogSame(e, d)
             /\ e.online = d.online /\ e.irqs = d.irqs /\ e.ns_frozen = d.ns_frozen
<1> DEFINE m == IF n < queue_count(d) THEN n ELSE queue_count(d)
           q == SubSeq(d.queues, 1, m)
           x == [i \in Contexts |-> IF i >= n /\ i < queue_count(d) /\ d.ctx[i] = "bound"
                                    THEN "stale" ELSE d.ctx[i]]
<1>1. d.queues \in Seq(Queue) /\ m \in 0 .. Len(d.queues) BY DEF queue_count, Device
<1>2. q \in Seq(Queue) /\ Len(q) = m /\ \A k \in 1 .. m : q[k] = d.queues[k]
  <2> HIDE DEF m
  <2> QED BY <1>1
<1>3. x \in [Contexts -> {"none", "bound", "stale"}] BY Zenon DEF Device
<1>4. \A i \in Contexts : x[i] = IF i >= n /\ i < queue_count(d) /\ d.ctx[i] = "bound"
                                 THEN "stale" ELSE d.ctx[i]
  BY Zenon
<1>5. nvme_free_queues(d, n) = [d EXCEPT !.queues = q, !.ctx = x]
  BY Zenon DEF nvme_free_queues
<1> DEFINE e == [d EXCEPT !.queues = q, !.ctx = x]
<1> HIDE DEF q, x
<1>6. /\ e \in Device /\ e.queues = q /\ e.ctx = x
      /\ HeldSame(e, d) /\ CtrlSame(e, d) /\ AdminSame(e, d) /\ LogSame(e, d)
      /\ e.online = d.online /\ e.irqs = d.irqs /\ e.ns_frozen = d.ns_frozen
  BY Zenon, <1>2, <1>3 DEF Device, HeldSame, CtrlSame, AdminSame, LogSame
<1> HIDE DEF e
<1>7. queue_count(e) = m BY Zenon, <1>2, <1>6 DEF queue_count
<1> QED BY <1>2, <1>4, <1>5, <1>6, <1>7 DEF e

\* nvme_alloc_queue adds a queue that is not ready, with vector 0.
LEMMA AllocQueueIs ==
  ASSUME NEW d \in Device
  PROVE  LET e == nvme_alloc_queue(d)
         IN  /\ e \in Device /\ queue_count(e) = queue_count(d) + 1
             /\ \A k \in 1 .. queue_count(d) : e.queues[k] = d.queues[k]
             /\ e.queues[queue_count(e)].vector = 0 /\ ~e.queues[queue_count(e)].ready
             /\ HeldSame(e, d) /\ CtrlSame(e, d) /\ AdminSame(e, d) /\ NsSame(e, d)
             /\ LogSame(e, d) /\ e.online = d.online /\ e.irqs = d.irqs
<1> DEFINE z == [vector |-> 0, ready |-> FALSE]
           q == Append(d.queues, z)
<1>0. z \in Queue /\ z.vector = 0 /\ ~z.ready BY DEF Queue
<1>1. d.queues \in Seq(Queue) BY Zenon DEF Device
<1>2. /\ q \in Seq(Queue) /\ Len(q) = Len(d.queues) + 1
      /\ q[Len(q)] = z /\ \A k \in 1 .. Len(d.queues) : q[k] = d.queues[k]
  <2> HIDE DEF z
  <2> QED BY <1>0, <1>1
<1>5. nvme_alloc_queue(d) = [d EXCEPT !.queues = q] BY Zenon DEF nvme_alloc_queue
<1> DEFINE e == [d EXCEPT !.queues = q]
<1> HIDE DEF q, z
<1>6. /\ e \in Device /\ e.queues = q
      /\ HeldSame(e, d) /\ CtrlSame(e, d) /\ AdminSame(e, d) /\ NsSame(e, d)
      /\ LogSame(e, d) /\ e.online = d.online /\ e.irqs = d.irqs
  BY Zenon, <1>2 DEF Device, HeldSame, CtrlSame, AdminSame, NsSame, LogSame
<1> HIDE DEF e
<1>7. queue_count(e) = Len(q) /\ queue_count(d) = Len(d.queues) BY Zenon, <1>6 DEF queue_count
<1> QED BY <1>0, <1>2, <1>5, <1>6, <1>7 DEF e

\* What is used of the cardinality of sets of queues (CountsOfQueues, below).
CardinalityFacts ==
  /\ \A S \in SUBSET Contexts : Cardinality(S) \in Nat /\ Cardinality(S) <= MaxQueues + 1
  /\ \A S, T \in SUBSET Contexts : S \subseteq T => Cardinality(S) <= Cardinality(T)
  /\ \A n \in 0 .. MaxQueues + 1 : Cardinality(0 .. n - 1) = n
  /\ Cardinality({}) = 0 /\ Cardinality({0}) = 1

\* nvme_suspend_queue for the queues S.
IsSuspended(e, d, S) ==
  /\ e \in Device
  /\ e.online = (d.online + UINT - Cardinality(S)) % UINT
  /\ queue_count(e) = queue_count(d)
  /\ \A k \in 1 .. queue_count(e) : e.queues[k] =
        IF k - 1 \in S THEN [vector |-> -1, ready |-> FALSE] ELSE d.queues[k]
  /\ e.irqs = d.irqs \ S
  /\ e.spurious = (d.spurious \/ ~(S \subseteq d.irqs))
  /\ e.frozen = IF 0 \in S /\ d.admin_q # "null" THEN d.frozen + 1 ELSE d.frozen
  /\ e.admin_q = d.admin_q
  /\ e.failed = d.failed
  /\ e.oops = IF d.oops = "no" /\ 0 \in S /\ BadAdmin(d) THEN "admin_q" ELSE d.oops
  /\ HeldSame(e, d) /\ CtrlSame(e, d) /\ NsSame(e, d)

\* Suspended does this.
LEMMA SuspendedIs ==
  ASSUME CardinalityFacts, NEW d \in Device, NEW S \in SUBSET Contexts
  PROVE  IsSuspended(Suspended(d, S), d, S)
<1> DEFINE z == [vector |-> -1, ready |-> FALSE]
           q == [k \in DOMAIN d.queues |-> IF k - 1 \in S THEN z ELSE d.queues[k]]
           o == (d.online + UINT - Cardinality(S)) % UINT
           s == d.irqs \ S
           x == d.spurious \/ ~(S \subseteq d.irqs)
           f == IF 0 \in S /\ d.admin_q # "null" THEN d.frozen + 1 ELSE d.frozen
           g == [d EXCEPT !.online = o, !.queues = q, !.irqs = s, !.spurious = x, !.frozen = f]
<1>0. z \in Queue BY DEF Queue
<1>1. d.queues \in Seq(Queue) BY Zenon DEF Device
<1>2. q \in Seq(Queue) /\ Len(q) = Len(d.queues)
      /\ \A k \in 1 .. Len(q) : q[k] = IF k - 1 \in S THEN z ELSE d.queues[k]
  <2> HIDE DEF z
  <2> QED BY <1>0, <1>1
<1>3. o \in 0 .. UINT - 1
  <2>1. Cardinality(S) \in Nat /\ Cardinality(S) <= MaxQueues + 1
    BY Zenon DEF CardinalityFacts
  <2> DEFINE c == Cardinality(S)
  <2>2. d.online \in Nat BY DeviceAssumption DEF Device
  <2> HIDE DEF c
  <2> QED BY <2>1, <2>2, DeviceAssumption DEF c
<1>4. s \in SUBSET Contexts /\ x \in BOOLEAN /\ f \in Int BY DEF Device
<1>5. Suspended(d, S) = OopsIf(g, 0 \in S /\ BadAdmin(d), "admin_q")
  BY Zenon DEF Suspended
<1> HIDE DEF q, o, s, x, f
<1>6. /\ g \in Device /\ g.online = o /\ g.queues = q /\ g.irqs = s /\ g.spurious = x
      /\ g.frozen = f /\ g.admin_q = d.admin_q /\ g.failed = d.failed /\ g.oops = d.oops
      /\ HeldSame(g, d) /\ CtrlSame(g, d) /\ NsSame(g, d)
  BY Zenon, <1>2, <1>3, <1>4 DEF Device, HeldSame, CtrlSame, NsSame
<1> HIDE DEF g
<1> DEFINE e == Suspended(d, S)
           b == 0 \in S /\ BadAdmin(d)
<1>b. b \in BOOLEAN /\ e = OopsIf(g, b, "admin_q") BY Zenon, <1>5
<1> HIDE DEF b, e
<1>7. /\ e \in Device
      /\ e.oops = IF g.oops = "no" /\ b THEN "admin_q" ELSE g.oops
      /\ e.spurious = g.spurious /\ e.failed = g.failed
      /\ HeldSame(e, g) /\ TableSame(e, g) /\ CtrlSame(e, g) /\ AdminSame(e, g)
      /\ NsSame(e, g)
  BY Zenon, <1>b, <1>6, OopsIs
<1> QED
  BY Zenon, <1>2, <1>6, <1>7
  DEF IsSuspended, b, e, o, s, x, f, queue_count, HeldSame, TableSame, CtrlSame, AdminSame, NsSame

\* queue_request_irq adds the handler.
LEMMA RequestIrqIs ==
  ASSUME NEW d \in Device, NEW i \in Contexts
  PROVE  LET e == queue_request_irq(d, i)
         IN  /\ e \in Device /\ e.irqs = d.irqs \cup {i}
             /\ e.queues = d.queues /\ e.online = d.online
             /\ HeldSame(e, d) /\ CtrlSame(e, d) /\ AdminSame(e, d) /\ NsSame(e, d)
             /\ LogSame(e, d)
<1> DEFINE s == d.irqs \cup {i}
<1>1. s \in SUBSET Contexts BY Zenon DEF Device
<1>2. queue_request_irq(d, i) = [d EXCEPT !.irqs = s] BY Zenon DEF queue_request_irq
<1> HIDE DEF s
<1>3. QED BY Zenon, <1>1, <1>2 DEF s, Device, HeldSame, CtrlSame, AdminSame, NsSame, LogSame

\* The table after one queue of it has been changed.
Changed(e, d, i, q) ==
  /\ queue_count(e) = queue_count(d)
  /\ e.queues[i + 1] = q
  /\ \A k \in 1 .. queue_count(d) : k # i + 1 => e.queues[k] = d.queues[k]

\* A queue is given a vector.
LEMMA SetVectorIs ==
  ASSUME NEW d \in Device, NEW i \in Nat, i < queue_count(d), NEW v \in Int
  PROVE  LET e == [d EXCEPT !.queues[i + 1].vector = v]
         IN  /\ e \in Device
             /\ Changed(e, d, i, [vector |-> v, ready |-> d.queues[i + 1].ready])
             /\ e.online = d.online /\ e.irqs = d.irqs
             /\ HeldSame(e, d) /\ CtrlSame(e, d) /\ AdminSame(e, d) /\ NsSame(e, d)
             /\ LogSame(e, d)
<1> DEFINE z == [vector |-> v, ready |-> d.queues[i + 1].ready]
           q == [d.queues EXCEPT ![i + 1] = z]
<1>1. d.queues \in Seq(Queue) /\ i + 1 \in 1 .. Len(d.queues) BY DEF Device, queue_count
<1>2. d.queues[i + 1] \in Queue BY <1>1
<1>3. z \in Queue /\ [d.queues[i + 1] EXCEPT !.vector = v] = z BY <1>2 DEF Queue
<1>4. [d EXCEPT !.queues[i + 1].vector = v] = [d EXCEPT !.queues = q]
  BY Zenon, <1>3
<1> HIDE DEF z
<1>5. q \in Seq(Queue) /\ Len(q) = Len(d.queues) /\ q[i + 1] = z
      /\ \A k \in 1 .. Len(d.queues) : k # i + 1 => q[k] = d.queues[k]
  BY <1>1, <1>3
<1> DEFINE e == [d EXCEPT !.queues = q]
<1> HIDE DEF q
<1>6. /\ e \in Device /\ e.queues = q /\ e.online = d.online /\ e.irqs = d.irqs
      /\ HeldSame(e, d) /\ CtrlSame(e, d) /\ AdminSame(e, d) /\ NsSame(e, d)
      /\ LogSame(e, d)
  BY Zenon, <1>5 DEF Device, HeldSame, CtrlSame, AdminSame, NsSame, LogSame
<1> HIDE DEF e
<1>7. Changed(e, d, i, z) BY Zenon, <1>5, <1>6 DEF Changed, queue_count
<1> QED BY Zenon, <1>4, <1>6, <1>7 DEF e, z

\* A queue of the table becomes ready.
LEMMA MadeReady ==
  ASSUME NEW v \in Queue, NEW b \in BOOLEAN
  PROVE  [v EXCEPT !.ready = b] = [vector |-> v.vector, ready |-> b]
  BY DEF Queue

\* nvme_init_queue counts the queue and makes it ready.
LEMMA InitQueueIs ==
  ASSUME NEW d \in Device, NEW i \in Nat, i < queue_count(d)
  PROVE  LET e == nvme_init_queue(d, i)
         IN  /\ e \in Device /\ e.online = (d.online + 1) % UINT
             /\ Changed(e, d, i, [vector |-> d.queues[i + 1].vector, ready |-> TRUE])
             /\ e.irqs = d.irqs
             /\ HeldSame(e, d) /\ CtrlSame(e, d) /\ AdminSame(e, d) /\ NsSame(e, d)
             /\ LogSame(e, d)
<1> DEFINE z == [vector |-> d.queues[i + 1].vector, ready |-> TRUE]
           q == [d.queues EXCEPT ![i + 1] = z]
           o == (d.online + 1) % UINT
<1>1. d.queues \in Seq(Queue) /\ i + 1 \in 1 .. Len(d.queues) BY DEF Device, queue_count
<1>2. d.queues[i + 1] \in Queue BY <1>1
<1>3. z \in Queue /\ [d.queues[i + 1] EXCEPT !.ready = TRUE] = z
  <2> DEFINE v == d.queues[i + 1]
  <2>1. v \in Queue BY Zenon, <1>2
  <2> HIDE DEF v
  <2>2. [vector |-> v.vector, ready |-> TRUE] \in Queue BY Zenon, <2>1 DEF Queue
  <2>3. [v EXCEPT !.ready = TRUE] = [vector |-> v.vector, ready |-> TRUE]
    BY Zenon, <2>1, MadeReady
  <2> QED BY Zenon, <2>2, <2>3 DEF v
<1>4. nvme_init_queue(d, i) = [d EXCEPT !.online = o, !.queues = q]
  BY Zenon, <1>3 DEF nvme_init_queue
<1>o. o \in 0 .. UINT - 1 BY DeviceAssumption DEF Device
<1> HIDE DEF z, o
<1>5. q \in Seq(Queue) /\ Len(q) = Len(d.queues) /\ q[i + 1] = z
      /\ \A k \in 1 .. Len(d.queues) : k # i + 1 => q[k] = d.queues[k]
  BY <1>1, <1>3
<1> DEFINE e == [d EXCEPT !.online = o, !.queues = q]
<1> HIDE DEF q
<1>6. /\ e \in Device /\ e.queues = q /\ e.online = o /\ e.irqs = d.irqs
      /\ HeldSame(e, d) /\ CtrlSame(e, d) /\ AdminSame(e, d) /\ NsSame(e, d)
      /\ LogSame(e, d)
  BY Zenon, <1>5, <1>o DEF Device, HeldSame, CtrlSame, AdminSame, NsSame, LogSame
<1> HIDE DEF e
<1>7. Changed(e, d, i, z) BY Zenon, <1>5, <1>6 DEF Changed, queue_count
<1> QED BY Zenon, <1>4, <1>6, <1>7 DEF e, z, o

\* nvme_disable_ctrl: the controller has no I/O queues.
LEMMA DisableCtrlIs ==
  ASSUME NEW d \in Device
  PROVE  LET e == nvme_disable_ctrl(d)
         IN  /\ e \in Device /\ e.cqs = {} /\ e.sqs = {}
             /\ HeldSame(e, d) /\ TableSame(e, d) /\ AdminSame(e, d) /\ NsSame(e, d)
             /\ LogSame(e, d)
<1> DEFINE e == [d EXCEPT !.cqs = {}, !.sqs = {}]
<1>1. /\ e \in Device /\ e.cqs = {} /\ e.sqs = {}
      /\ HeldSame(e, d) /\ TableSame(e, d) /\ AdminSame(e, d) /\ NsSame(e, d)
      /\ LogSame(e, d)
  BY Zenon DEF Device, HeldSame, TableSame, AdminSame, NsSame, LogSame
<1> QED BY Zenon, <1>1 DEF nvme_disable_ctrl

\* nvme_dev_unmap gives back what nvme_dev_map took, the regions only if the
\* registers are mapped.
LEMMA UnmapIs ==
  ASSUME NEW d \in Device
  PROVE  LET e == nvme_dev_unmap(d)
         IN  /\ e \in Device
             /\ \A r \in Resources \ {"bar", "regions", "pci_enabled"} : e.held[r] = d.held[r]
             /\ d.held["bar"] > 0 => /\ e.held["bar"] = d.held["bar"] - 1
                                     /\ e.held["regions"] = d.held["regions"] - 1
             /\ ~(d.held["bar"] > 0) => /\ e.held["bar"] = d.held["bar"]
                                        /\ e.held["regions"] = d.held["regions"]
             /\ e.held["pci_enabled"] = IF d.held["pci_enabled"] > 0
                                        THEN d.held["pci_enabled"] - 1
                                        ELSE d.held["pci_enabled"]
             /\ TableSame(e, d) /\ CtrlSame(e, d) /\ AdminSame(e, d) /\ NsSame(e, d)
             /\ LogSame(e, d)
<1> DEFINE f == IF d.held["bar"] > 0 THEN Drop(d, {"bar", "regions"}) ELSE d
           e == IF f.held["pci_enabled"] > 0 THEN Drop(f, {"pci_enabled"}) ELSE f
           S == IF d.held["bar"] > 0 THEN {"bar", "regions"} ELSE {}
           T == IF f.held["pci_enabled"] > 0 THEN {"pci_enabled"} ELSE {}
<1>0. \A r \in Resources : d.held[r] \in Int BY Zenon DEF Device
<1>1. f \in Device /\ Moved(f, d, S, -1) /\ TableSame(f, d) /\ CtrlSame(f, d) /\ AdminSame(f, d)
      /\ NsSame(f, d) /\ LogSame(f, d)
  <2>1. CASE d.held["bar"] > 0
    <3>1. f = Drop(d, {"bar", "regions"}) /\ S = {"bar", "regions"} BY Zenon, <2>1
    <3> QED BY Zenon, <3>1, DropIs
  <2>2. CASE ~(d.held["bar"] > 0)
    <3>1. f = d /\ S = {} BY Zenon, <2>2
    <3> QED BY Zenon, <3>1 DEF Moved, TableSame, CtrlSame, AdminSame, NsSame, LogSame
  <2> QED BY Zenon, <2>1, <2>2
<1> HIDE DEF f
<1>2. e \in Device /\ Moved(e, f, T, -1) /\ TableSame(e, f) /\ CtrlSame(e, f) /\ AdminSame(e, f)
      /\ NsSame(e, f) /\ LogSame(e, f)
  <2>1. CASE f.held["pci_enabled"] > 0
    <3>1. e = Drop(f, {"pci_enabled"}) /\ T = {"pci_enabled"} BY Zenon, <2>1
    <3> QED BY Zenon, <1>1, <3>1, DropIs
  <2>2. CASE ~(f.held["pci_enabled"] > 0)
    <3>1. e = f /\ T = {} BY Zenon, <2>2
    <3> QED BY Zenon, <1>1, <3>1 DEF Moved, TableSame, CtrlSame, AdminSame, NsSame, LogSame
  <2> QED BY Zenon, <2>1, <2>2
<1>3. e = nvme_dev_unmap(d) BY Zenon DEF nvme_dev_unmap, f
<1> HIDE DEF e
<1>4. TableSame(e, d) /\ CtrlSame(e, d) /\ AdminSame(e, d) /\ NsSame(e, d) /\ LogSame(e, d)
  BY Zenon, <1>1, <1>2 DEF TableSame, CtrlSame, AdminSame, NsSame, LogSame
<1>5. "bar" \in Resources /\ "regions" \in Resources /\ "pci_enabled" \in Resources
  BY Zenon DEF Resources
<1>6. \A r \in Resources : f.held[r] = IF r \in S THEN d.held[r] + (-1) ELSE d.held[r]
  BY Zenon, <1>1 DEF Moved
<1>7. \A r \in Resources : e.held[r] = IF r \in T THEN f.held[r] + (-1) ELSE f.held[r]
  BY Zenon, <1>2 DEF Moved
<1> QED BY Zenon, <1>0, <1>2, <1>3, <1>4, <1>5, <1>6, <1>7

\* The namespaces' queues are frozen and thawed.
LEMMA NsFrozenIs ==
  ASSUME NEW d \in Device, NEW n \in Int
  PROVE  LET e == [d EXCEPT !.ns_frozen = n]
         IN  /\ e \in Device /\ e.ns_frozen = n /\ e.ctx = d.ctx
             /\ HeldSame(e, d) /\ TableSame(e, d) /\ CtrlSame(e, d) /\ AdminSame(e, d)
             /\ LogSame(e, d)
  BY Zenon DEF Device, HeldSame, TableSame, CtrlSame, AdminSame, LogSame

\* nvme_exit_hctx for the contexts S.
LEMMA ExitContextsIs ==
  ASSUME NEW d \in Device, NEW S \in SUBSET Contexts
  PROVE  LET e == ExitContexts(d, S)
         IN  /\ e \in Device
             /\ \A i \in Contexts : e.ctx[i] = IF i \in S THEN "none" ELSE d.ctx[i]
             /\ e.oops = IF d.oops = "no" /\ (\E i \in S : d.ctx[i] = "stale")
                         THEN "context" ELSE d.oops
             /\ e.failed = d.failed /\ e.spurious = d.spurious
             /\ e.ns_frozen = d.ns_frozen
             /\ HeldSame(e, d) /\ TableSame(e, d) /\ CtrlSame(e, d) /\ AdminSame(e, d)
<1> DEFINE x == [i \in Contexts |-> IF i \in S THEN "none" ELSE d.ctx[i]]
           g == [d EXCEPT !.ctx = x]
           b == \E i \in S : d.ctx[i] = "stale"
           e == OopsIf(g, b, "context")
<1>1. x \in [Contexts -> {"none", "bound", "stale"}] BY Zenon DEF Device
<1>2. \A i \in Contexts : x[i] = IF i \in S THEN "none" ELSE d.ctx[i] BY Zenon
<1>3. ExitContexts(d, S) = e BY Zenon DEF ExitContexts
<1>b. b \in BOOLEAN BY Zenon
<1> HIDE DEF x, b
<1>4. /\ g \in Device /\ g.ctx = x /\ g.ns_frozen = d.ns_frozen
      /\ HeldSame(g, d) /\ TableSame(g, d) /\ CtrlSame(g, d) /\ AdminSame(g, d) /\ LogSame(g, d)
  BY Zenon, <1>1 DEF Device, HeldSame, TableSame, CtrlSame, AdminSame, LogSame
<1> HIDE DEF g
<1>5. /\ e \in Device /\ e.oops = IF g.oops = "no" /\ b THEN "context" ELSE g.oops
      /\ e.spurious = g.spurious /\ e.failed = g.failed
      /\ HeldSame(e, g) /\ TableSame(e, g) /\ CtrlSame(e, g) /\ AdminSame(e, g)
      /\ NsSame(e, g)
  BY Zenon, <1>b, <1>4, OopsIs
<1> HIDE DEF e
<1> QED
  BY Zenon, <1>2, <1>3, <1>4, <1>5 DEF b, HeldSame, TableSame, CtrlSame, AdminSame, LogSame, NsSame

\* nvme_dev_remove_admin for a queue that is there.
LEMMA RemoveAdminIs ==
  ASSUME NEW d \in Device, d.admin_q \notin {"null", "dying"}
  PROVE  LET e == nvme_dev_remove_admin(d)
         IN  /\ e \in Device /\ Moved(e, d, {"admin_queue", "admin_tags"}, -1)
             /\ e.admin_q = IF d.held["admin_ref"] > 0 THEN "dying" ELSE "freed"
             /\ e.frozen = d.frozen
             /\ \A i \in Contexts : e.ctx[i] = IF i = 0 THEN "none" ELSE d.ctx[i]
             /\ e.oops = IF d.oops # "no" THEN d.oops
                         ELSE IF d.ctx[0] = "stale" THEN "context"
                         ELSE IF BadAdmin(d) THEN "admin_q" ELSE "no"
             /\ e.failed = d.failed /\ e.spurious = d.spurious
             /\ e.ns_frozen = d.ns_frozen /\ TableSame(e, d) /\ CtrlSame(e, d)
<1> DEFINE a == IF d.held["admin_ref"] > 0 THEN "dying" ELSE "freed"
           R == {"admin_queue", "admin_tags"}
           f == [d EXCEPT !.admin_q = a]
           g == ExitContexts(f, {0})
           h == Drop(g, R)
           b == BadAdmin(d)
           e == OopsIf(h, b, "admin_q")
<1>0. a \in {"null", "live", "dying", "freed", "err"} BY Zenon
<1>1. nvme_dev_remove_admin(d) = e BY Zenon DEF nvme_dev_remove_admin
<1>b. b \in BOOLEAN /\ {0} \in SUBSET Contexts BY DeviceAssumption DEF BadAdmin, Contexts
<1> HIDE DEF a, b
<1>2. /\ f \in Device /\ f.admin_q = a /\ f.frozen = d.frozen
      /\ HeldSame(f, d) /\ TableSame(f, d) /\ CtrlSame(f, d) /\ NsSame(f, d) /\ LogSame(f, d)
  BY Zenon, <1>0 DEF Device, HeldSame, TableSame, CtrlSame, NsSame, LogSame
<1> HIDE DEF f
<1>3. /\ g \in Device
      /\ \A i \in Contexts : g.ctx[i] = IF i \in {0} THEN "none" ELSE f.ctx[i]
      /\ g.oops = IF f.oops = "no" /\ (\E i \in {0} : f.ctx[i] = "stale")
                  THEN "context" ELSE f.oops
      /\ g.failed = f.failed /\ g.spurious = f.spurious
      /\ g.ns_frozen = f.ns_frozen
      /\ HeldSame(g, f) /\ TableSame(g, f) /\ CtrlSame(g, f) /\ AdminSame(g, f)
  BY Zenon, <1>b, <1>2, ExitContextsIs
<1> HIDE DEF g
<1>4. /\ h \in Device /\ Moved(h, g, R, -1)
      /\ TableSame(h, g) /\ CtrlSame(h, g) /\ AdminSame(h, g) /\ NsSame(h, g)
      /\ LogSame(h, g)
  BY Zenon, <1>3, DropIs
<1> HIDE DEF h
<1>5. /\ e \in Device /\ e.oops = IF h.oops = "no" /\ b THEN "admin_q" ELSE h.oops
      /\ e.spurious = h.spurious /\ e.failed = h.failed
      /\ HeldSame(e, h) /\ TableSame(e, h) /\ CtrlSame(e, h) /\ AdminSame(e, h)
      /\ NsSame(e, h)
  BY Zenon, <1>b, <1>4, OopsIs
<1> HIDE DEF e
<1>6. Moved(e, d, R, -1) BY <1>2, <1>3, <1>4, <1>5 DEF Moved, HeldSame
<1>7. \A i \in Contexts : e.ctx[i] = IF i = 0 THEN "none" ELSE d.ctx[i]
  BY Zenon, <1>2, <1>3, <1>4, <1>5 DEF NsSame
<1>8. e.oops = IF d.oops # "no" THEN d.oops ELSE IF d.ctx[0] = "stale" THEN "context"
               ELSE IF b THEN "admin_q" ELSE "no"
  BY Zenon, <1>2, <1>3, <1>4, <1>5 DEF NsSame, LogSame
<1>9. /\ e.admin_q = a /\ e.frozen = d.frozen /\ e.failed = d.failed /\ e.spurious = d.spurious
      /\ e.ns_frozen = d.ns_frozen /\ TableSame(e, d) /\ CtrlSame(e, d)
  BY <1>2, <1>3, <1>4, <1>5 DEF NsSame, LogSame, AdminSame, TableSame, CtrlSame
<1> QED BY Zenon, <1>1, <1>5, <1>6, <1>7, <1>8, <1>9 DEF a, b

-----------------------------------------------------------------------------
(* Facts that the steps share.                                             *)

\* What has failed stays recorded.
LEMMA FailedMono ==
  ASSUME dev.failed \subseteq dev'.failed, NEW S, Failed(S)
  PROVE  Failed(S)'
  BY Zenon DEF Failed

\* A failed call is one that Failed finds.
LEMMA HasFailed ==
  ASSUME NEW S, NEW x \in S, x \in dev'.failed
  PROVE  Failed(S)'
  BY Zenon DEF Failed

\* The new device.
LEMMA NewIs ==
  /\ NewDevice \in Device
  /\ \A r \in Resources : NewDevice.held[r] = 0
  /\ NewDevice.queues = << >> /\ NewDevice.online = 0
  /\ NewDevice.irqs = {} /\ NewDevice.cqs = {} /\ NewDevice.sqs = {}
  /\ NewDevice.admin_q = "null" /\ NewDevice.frozen = 0 /\ NewDevice.ns_frozen = 0
  /\ \A i \in Contexts : NewDevice.ctx[i] = "none"
  /\ NewDevice.failed = {} /\ ~NewDevice.spurious /\ NewDevice.oops = "no"
<1> DEFINE h == [r \in Resources |-> 0]
           x == [i \in Contexts |-> "none"]
<1>1. h \in [Resources -> Int] /\ \A r \in Resources : h[r] = 0 OBVIOUS
<1>2. x \in [Contexts -> {"none", "bound", "stale"}] /\ \A i \in Contexts : x[i] = "none"
  BY Zenon
<1>3. << >> \in Seq(Queue) /\ 0 \in 0 .. UINT - 1 BY DeviceAssumption
<1> HIDE DEF h, x
<1> QED BY <1>1, <1>2, <1>3 DEF NewDevice, Device, h, x

\* A call of nvme_probe or nvme_dev_map that fails leaves nothing behind.
LEMMA UndoIsHeld ==
  \A call \in {"alloc", "instance", "pools", "device", "pci_enable", "regions", "ioremap", "csts"} :
     Held[call] = Undo[call]
<1>1. Held["alloc"] = Undo["alloc"] /\ Held["pci_enable"] = Undo["pci_enable"]
  BY Zenon DEF Held, Undo
<1>2. Held["instance"] = Undo["instance"] /\ Held["pools"] = Undo["pools"]
  BY Zenon DEF Held, Undo, put_pci, release
<1>3. Held["device"] = Undo["device"] BY Zenon DEF Held, Undo, put_pci, release
<1>4. Held["regions"] = Undo["regions"] /\ Held["ioremap"] = Undo["ioremap"]
  BY Zenon DEF Held, Undo, disable_pci, disable
<1>5. Held["csts"] = Undo["csts"] BY Zenon DEF Held, Undo, disable_pci, disable
<1> QED BY Zenon, <1>1, <1>2, <1>3, <1>4, <1>5

\* What is left of such a call: its name among the failures.
LEMMA UnwoundIs ==
  ASSUME NEW d \in Device, NEW call \in Calls, Held[call] = Undo[call]
  PROVE  LET e == Unwound(d, call)
         IN  /\ e \in Device /\ e.failed = d.failed \cup {call}
             /\ \A r \in Resources : e.held[r] = d.held[r]
             /\ e.spurious = d.spurious /\ e.oops = d.oops
             /\ TableSame(e, d) /\ CtrlSame(e, d) /\ AdminSame(e, d) /\ NsSame(e, d)
<1> DEFINE f == Take(d, Held[call])
           g == Drop(f, Undo[call])
           e == Fail(g, call)
<1>0. Unwound(d, call) = e BY Zenon DEF Unwound
<1>1. /\ f \in Device /\ Moved(f, d, Held[call], 1)
      /\ TableSame(f, d) /\ CtrlSame(f, d) /\ AdminSame(f, d) /\ NsSame(f, d) /\ LogSame(f, d)
  BY Zenon, TakeIs
<1> HIDE DEF f
<1>2. /\ g \in Device /\ Moved(g, f, Undo[call], -1)
      /\ TableSame(g, f) /\ CtrlSame(g, f) /\ AdminSame(g, f) /\ NsSame(g, f) /\ LogSame(g, f)
  BY Zenon, <1>1, DropIs
<1> HIDE DEF g
<1>3. /\ e \in Device /\ e.failed = g.failed \cup {call}
      /\ e.spurious = g.spurious /\ e.oops = g.oops
      /\ HeldSame(e, g) /\ TableSame(e, g) /\ CtrlSame(e, g) /\ AdminSame(e, g) /\ NsSame(e, g)
  BY Zenon, <1>2, FailIs
<1> HIDE DEF e
<1>4. \A r \in Resources : e.held[r] = d.held[r]
  <2> TAKE r \in Resources
  <2>1. d.held[r] \in Int BY Zenon DEF Device
  <2>2. f.held[r] = IF r \in Held[call] THEN d.held[r] + 1 ELSE d.held[r] BY Zenon, <1>1 DEF Moved
  <2>3. g.held[r] = IF r \in Held[call] THEN f.held[r] + (-1) ELSE f.held[r] BY Zenon, <1>2 DEF Moved
  <2>4. e.held[r] = g.held[r] BY Zenon, <1>3 DEF HeldSame
  <2> QED BY <2>1, <2>2, <2>3, <2>4
<1> QED
  BY Zenon, <1>0, <1>1, <1>2, <1>3, <1>4
  DEF TableSame, CtrlSame, AdminSame, NsSame, LogSame

\* Adding one modulo UINT.
LEMMA ModTwice ==
  ASSUME NEW x \in Nat, x < 2 * UINT
  PROVE  x % UINT = IF x < UINT THEN x ELSE x - UINT
<1> DEFINE q == x \div UINT
           r == x % UINT
<1>0. UINT \in Nat /\ UINT > 0 BY DeviceAssumption
<1>1. q \in Int /\ r \in 0 .. UINT - 1 /\ x = UINT * q + r BY <1>0
<1> HIDE DEF q, r
<1>2. q < 2
  <2> SUFFICES ASSUME q >= 2 PROVE FALSE BY <1>1
  <2>1. UINT * q >= UINT * 2 BY <1>0, <1>1
  <2> QED BY <1>0, <1>1, <2>1
<1>3. q >= 0
  <2> SUFFICES ASSUME q <= -1 PROVE FALSE BY <1>1
  <2>1. UINT * q <= UINT * (-1) BY <1>0, <1>1
  <2> QED BY <1>0, <1>1, <2>1
<1>4. CASE q = 0 BY <1>0, <1>1, <1>4 DEF r
<1>5. CASE q = 1 BY <1>0, <1>1, <1>5 DEF r
<1> QED BY <1>1, <1>2, <1>3, <1>4, <1>5

-----------------------------------------------------------------------------
(* Every step preserves the invariant.                                     *)

\* nvme_probe takes all of Base, or gives back what it took.
LEMMA ProbeStep ==
  ASSUME IInv, nvme_probe
  PROVE  IInv'
<1>0. /\ pc = "absent" /\ dev = NewDevice /\ why' = "probe" /\ max_qid' = max_qid
      /\ max_qid \in 0 .. MaxQueues
  BY Zenon DEF nvme_probe, Running, IInv, TypeInv
<1> DEFINE Fresh ==
      /\ dev' \in Device /\ queue_count(dev') = 0 /\ dev'.online = 0 /\ dev'.irqs = {}
      /\ dev'.cqs = {} /\ dev'.sqs = {} /\ dev'.admin_q = "null" /\ dev'.frozen = 0
      /\ dev'.ns_frozen = 0 /\ (\A i \in Contexts : dev'.ctx[i] = "none")
      /\ dev'.spurious = FALSE /\ dev'.oops = "no"
      /\ \/ pc' = "map" /\ \A r \in Resources : dev'.held[r] = IF r \in Base THEN 1 ELSE 0
         \/ pc' = "gone" /\ \A r \in Resources : dev'.held[r] = 0
<1>1. Fresh
  <2>1. CASE Goto(Take(dev, Base), "map")
    <3>1. /\ dev' \in Device /\ Moved(dev', dev, Base, 1) /\ pc' = "map"
          /\ TableSame(dev', dev) /\ CtrlSame(dev', dev) /\ AdminSame(dev', dev)
          /\ NsSame(dev', dev) /\ LogSame(dev', dev)
      BY Zenon, <2>1, <1>0, NewIs, TakeIs DEF Goto
    <3> QED BY <1>0, <3>1, NewIs DEF Moved, TableSame, CtrlSame, AdminSame, NsSame, LogSame, queue_count
  <2>2. ASSUME NEW call \in ProbeFailures, Goto(Unwound(dev, call), "gone")
        PROVE  Fresh
    <3>0. call \in Calls /\ Held[call] = Undo[call] BY Zenon, UndoIsHeld, CallNames DEF ProbeFailures
    <3>1. /\ dev' \in Device /\ pc' = "gone"
          /\ \A r \in Resources : dev'.held[r] = dev.held[r]
          /\ dev'.spurious = dev.spurious /\ dev'.oops = dev.oops
          /\ TableSame(dev', dev) /\ CtrlSame(dev', dev) /\ AdminSame(dev', dev)
          /\ NsSame(dev', dev)
      BY Zenon, <2>2, <3>0, <1>0, NewIs, UnwoundIs DEF Goto
    <3> QED BY <1>0, <3>1, NewIs DEF TableSame, CtrlSame, AdminSame, NsSame, queue_count
  <2> QED BY Zenon, <2>1, <2>2 DEF nvme_probe, Base
<1>2. TypeInv' BY <1>0, <1>1, DeviceAssumption DEF TypeInv, Places, Stopped, Down, Reasons
<1>3. HeldInv'
  BY <1>0, <1>1 DEF HeldInv, Base, Resources, Down, First, Later, Mapped, Unmapped, AllReleased
<1>4. AdminInv' BY Zenon, <1>1 DEF AdminInv, Resources, Base, BadAdmin, AdminQueueValid
<1>5. FreezeInv' BY <1>1 DEF FreezeInv
<1>6. NsInv' BY <1>1 DEF NsInv, Used, Resources, Base
<1>7. ContextInv' BY Zenon, <1>1 DEF ContextInv, ContextsHaveQueues
<1>8. TableInv' BY <1>1, DeviceAssumption DEF TableInv, Suspends, Contexts, Stopped, Down, First, Later
<1>9. CountInv' BY <1>1, DeviceAssumption DEF CountInv, Idle, Contexts, Stopped, Down
<1>10. CtrlInv' BY Zenon, <1>1 DEF CtrlInv
<1>11. OnlineInv' /\ HandlerInv' BY Zenon, <1>1 DEF OnlineInv, HandlerInv, Low
<1> QED BY Zenon, <1>2, <1>3, <1>4, <1>5, <1>6, <1>7, <1>8, <1>9, <1>10, <1>11 DEF IInv

\* nvme_dev_map maps the registers, or gives back what it took.
LEMMA MapStep ==
  ASSUME IInv, nvme_dev_map
  PROVE  IInv'
<1>0. /\ pc = "map" /\ dev.oops = "no" /\ why' = why /\ max_qid' = max_qid
      /\ dev \in Device /\ why \in Reasons /\ max_qid \in 0 .. MaxQueues
      /\ queue_count(dev) <= MaxQueues + 1
  BY Zenon DEF nvme_dev_map, Running, IInv, TypeInv
<1> DEFINE Kept ==
      /\ dev' \in Device /\ dev.failed \subseteq dev'.failed
      /\ dev'.spurious = dev.spurious /\ dev'.oops = "no"
      /\ TableSame(dev', dev) /\ CtrlSame(dev', dev) /\ AdminSame(dev', dev)
      /\ NsSame(dev', dev)
      /\ \/ /\ pc' = "admin" /\ dev.held["regions"] = 0
            /\ Moved(dev', dev, {"pci_enabled", "regions", "bar"}, 1)
         \/ /\ pc' = "start_failed"
            /\ \A r \in Resources : dev'.held[r] = dev.held[r]
<1>1. Kept
  <2>1. CASE dev.held["regions"] = 0 /\ Goto(Take(dev, {"pci_enabled", "regions", "bar"}), "admin")
    <3>1. /\ dev' \in Device /\ Moved(dev', dev, {"pci_enabled", "regions", "bar"}, 1)
          /\ TableSame(dev', dev) /\ CtrlSame(dev', dev) /\ AdminSame(dev', dev)
          /\ NsSame(dev', dev) /\ LogSame(dev', dev)
      BY Zenon, <2>1, <1>0, TakeIs DEF Goto
    <3> QED BY Zenon, <1>0, <2>1, <3>1 DEF LogSame, Goto
  <2>2. ASSUME NEW call \in {"ioremap", "csts", "pci_enable", "regions"},
               Goto(Unwound(dev, call), "start_failed")
        PROVE  Kept
    <3>0. call \in Calls /\ Held[call] = Undo[call] BY Zenon, UndoIsHeld, CallNames
    <3>1. /\ dev' \in Device /\ dev'.failed = dev.failed \cup {call}
          /\ \A r \in Resources : dev'.held[r] = dev.held[r]
          /\ dev'.spurious = dev.spurious /\ dev'.oops = dev.oops
          /\ TableSame(dev', dev) /\ CtrlSame(dev', dev) /\ AdminSame(dev', dev)
          /\ NsSame(dev', dev)
      BY Zenon, <2>2, <3>0, <1>0, UnwoundIs DEF Goto
    <3> QED BY Zenon, <1>0, <2>2, <3>1 DEF Goto
  <2> QED BY Zenon, <2>1, <2>2 DEF nvme_dev_map
<1>m. \A S : Failed(S) => Failed(S)' BY Zenon, <1>1, FailedMono
<1>h. /\ dev' \in Device /\ dev'.spurious = dev.spurious /\ dev'.oops = "no"
      /\ dev'.queues = dev.queues /\ dev'.online = dev.online /\ dev'.irqs = dev.irqs
      /\ dev'.cqs = dev.cqs /\ dev'.sqs = dev.sqs /\ dev'.admin_q = dev.admin_q
      /\ dev'.frozen = dev.frozen /\ dev'.ns_frozen = dev.ns_frozen /\ dev'.ctx = dev.ctx
      /\ queue_count(dev') = queue_count(dev) /\ pc' \in {"admin", "start_failed"}
      /\ \A r \in Resources \ {"pci_enabled", "regions", "bar"} : dev'.held[r] = dev.held[r]
  BY Zenon, <1>1 DEF TableSame, CtrlSame, AdminSame, NsSame, queue_count, Moved
<1>2. TypeInv' BY Zenon, <1>0, <1>h DEF TypeInv, Places, Stopped, Down
<1>3. HeldInv'
  <2>1. /\ \A r \in Base : dev.held[r] = 1
        /\ dev.held["tagset"] \in 0 .. 1 /\ dev.held["ns"] \in 0 .. 1
        /\ why = "probe" => dev.held["tagset"] = 0 /\ dev.held["ns"] = 0
        /\ Unmapped(dev)
    BY Zenon, <1>0 DEF IInv, HeldInv, Down
  <2>2. pc' = "admin" => Mapped(dev')
    BY <1>1, <2>1 DEF Moved, Mapped, Unmapped, Resources
  <2>3. pc' = "start_failed" => Unmapped(dev')
    BY Zenon, <1>1, <2>1 DEF Unmapped, Resources
  <2> QED BY <1>0, <1>h, <2>1, <2>2, <2>3
          DEF HeldInv, Base, Resources, Down, First, Later, AllReleased
<1>4. AdminInv' BY Zenon, <1>0, <1>h, <1>m DEF IInv, AdminInv, Resources, BadAdmin, AdminQueueValid
<1>5. FreezeInv' BY Zenon, <1>0, <1>h, <1>m DEF IInv, FreezeInv, Once, Stopped, Down, Later
<1>6. NsInv' BY Zenon, <1>0, <1>h, <1>m DEF IInv, NsInv, Used, Serving, Resources
<1>7. ContextInv' BY Zenon, <1>0, <1>h, <1>m DEF IInv, ContextInv, ContextsHaveQueues
<1>8. TableInv'
  BY Zenon, <1>0, <1>h, <1>m DEF IInv, TableInv, Suspends, Vector, Stopped, Down, First, Later
<1>9. CountInv' BY Zenon, <1>0, <1>h, <1>m DEF IInv, CountInv, Exact, Idle, Ready, Stopped, Down
<1>10. CtrlInv' BY Zenon, <1>0, <1>h, <1>m DEF IInv, CtrlInv, First
<1>11. OnlineInv' BY <1>0, <1>h, DeviceAssumption DEF IInv, OnlineInv, Low, Slack, Device
<1>12. HandlerInv' BY Zenon, <1>0, <1>h, <1>m DEF IInv, HandlerInv
<1> QED BY Zenon, <1>2, <1>3, <1>4, <1>5, <1>6, <1>7, <1>8, <1>9, <1>10, <1>11, <1>12 DEF IInv

\* Four outcomes: the controller is not disabled, the admin queue cannot be
\* allocated, the controller is not enabled, or the admin queue has its handler.
LEMMA ConfigureStep ==
  ASSUME IInv, nvme_configure_admin_queue
  PROVE  IInv'
<1>0. /\ pc = "admin" /\ dev.oops = "no" /\ why' = why /\ max_qid' = max_qid
      /\ dev \in Device /\ why \in Reasons /\ max_qid \in 0 .. MaxQueues
      /\ queue_count(dev) <= MaxQueues + 1 /\ queue_count(dev) \in Nat
  BY DEF nvme_configure_admin_queue, Running, IInv, TypeInv, queue_count, Device
<1>i. dev.irqs = {} /\ Suspends(Contexts) BY Zenon, <1>0 DEF IInv, TableInv, Stopped
<1> DEFINE d == nvme_disable_ctrl(dev)
           e == WithAdminQueue(d)
           Rest == /\ dev' \in Device /\ dev.failed \subseteq dev'.failed
                   /\ HeldSame(dev', dev) /\ AdminSame(dev', dev) /\ dev'.oops = "no"
                   /\ dev'.spurious = dev.spurious /\ dev'.ns_frozen = dev.ns_frozen
                   /\ dev'.online = dev.online
           Kept == /\ pc' = "unmap" /\ TableSame(dev', dev) /\ NsSame(dev', dev)
                   /\ dev'.cqs = dev.cqs \/ dev'.cqs = {}
           Freed == /\ pc' = "unmap" /\ queue_count(dev') = 0 /\ dev'.irqs = {} /\ dev'.cqs = {}
                    /\ "enable_ctrl" \in dev'.failed
                    /\ \A i \in Contexts : dev.ctx[i] = "none" => dev'.ctx[i] = "none"
           Enabled == /\ pc' = "list" /\ dev'.cqs = {} /\ dev'.irqs = {0} /\ NsSame(dev', dev)
                      /\ queue_count(dev') = IF queue_count(dev) = 0 THEN 1 ELSE queue_count(dev)
                      /\ Vector(dev', 0) = 0
                      /\ dev'.queues[1].ready <=> (queue_count(dev) > 0 /\ dev.queues[1].ready)
                      /\ \A k \in 2 .. queue_count(dev) : dev'.queues[k] = dev.queues[k]
<1>1. Rest /\ (Kept \/ Freed \/ Enabled)
  <2>d. /\ d \in Device /\ d.cqs = {} /\ d.sqs = {}
        /\ HeldSame(d, dev) /\ TableSame(d, dev) /\ AdminSame(d, dev) /\ NsSame(d, dev)
        /\ LogSame(d, dev) /\ queue_count(d) = queue_count(dev)
    BY Zenon, <1>0, DisableCtrlIs DEF TableSame, queue_count
  <2> HIDE DEF d
  <2>e. /\ e \in Device /\ e.cqs = {} /\ e.irqs = {}
        /\ HeldSame(e, dev) /\ AdminSame(e, dev) /\ NsSame(e, dev) /\ LogSame(e, dev)
        /\ e.online = dev.online
        /\ queue_count(e) = IF queue_count(dev) = 0 THEN 1 ELSE queue_count(dev)
        /\ \A k \in 1 .. queue_count(dev) : e.queues[k] = dev.queues[k]
        /\ queue_count(dev) = 0 => ~e.queues[1].ready
    <3>1. CASE queue_count(d) = 0
      <4>1. e = nvme_alloc_queue(d) BY Zenon, <3>1 DEF WithAdminQueue
      <4>2. /\ e \in Device /\ queue_count(e) = queue_count(d) + 1
            /\ ~e.queues[queue_count(e)].ready
            /\ HeldSame(e, d) /\ CtrlSame(e, d) /\ AdminSame(e, d) /\ NsSame(e, d)
            /\ LogSame(e, d) /\ e.online = d.online /\ e.irqs = d.irqs
        BY Zenon, <4>1, <2>d, AllocQueueIs
      <4> HIDE DEF e
      <4> QED BY <2>d, <3>1, <4>2, <1>0, <1>i
              DEF HeldSame, TableSame, CtrlSame, AdminSame, NsSame, LogSame
    <3>2. CASE queue_count(d) # 0
      <4>1. e = d BY Zenon, <3>2 DEF WithAdminQueue
      <4> HIDE DEF e
      <4> QED BY Zenon, <2>d, <3>2, <4>1, <1>0, <1>i
              DEF HeldSame, TableSame, CtrlSame, AdminSame, NsSame, LogSame
    <3> QED BY Zenon, <3>1, <3>2
  <2> HIDE DEF e
  <2>1. CASE Goto(NotReady(dev, "disable_ctrl"), "unmap")
    <3>1. /\ dev' \in Device /\ dev'.failed = dev.failed \cup {"disable_ctrl"}
          /\ dev'.spurious = dev.spurious /\ dev'.oops = dev.oops
          /\ HeldSame(dev', dev) /\ TableSame(dev', dev) /\ CtrlSame(dev', dev)
          /\ AdminSame(dev', dev) /\ NsSame(dev', dev)
      BY Zenon, <1>0, <2>1, FailIs, CallNames DEF Goto, NotReady
    <3> QED BY Zenon, <1>0, <2>1, <3>1 DEF Goto, TableSame, CtrlSame, NsSame
  <2>2. CASE Goto(Fail(d, "alloc_admin"), "unmap")
    <3>1. /\ dev' \in Device /\ dev'.failed = d.failed \cup {"alloc_admin"}
          /\ dev'.spurious = d.spurious /\ dev'.oops = d.oops
          /\ HeldSame(dev', d) /\ TableSame(dev', d) /\ CtrlSame(dev', d)
          /\ AdminSame(dev', d) /\ NsSame(dev', d)
      BY Zenon, <2>d, <2>2, FailIs, CallNames DEF Goto
    <3> QED BY Zenon, <1>0, <2>d, <2>2, <3>1
            DEF Goto, HeldSame, TableSame, CtrlSame, AdminSame, NsSame, LogSame
  <2>3. CASE Goto(nvme_free_queues(NotReady(e, "enable_ctrl"), 0), "unmap")
    <3> DEFINE f == Fail(e, "enable_ctrl")
    <3>1. /\ f \in Device /\ f.failed = e.failed \cup {"enable_ctrl"}
          /\ f.spurious = e.spurious /\ f.oops = e.oops
          /\ HeldSame(f, e) /\ TableSame(f, e) /\ CtrlSame(f, e) /\ AdminSame(f, e)
          /\ NsSame(f, e)
      BY Zenon, <2>e, FailIs, CallNames
    <3>2. dev' = nvme_free_queues(f, 0) /\ pc' = "unmap" BY Zenon, <2>3 DEF Goto, NotReady
    <3> HIDE DEF f
    <3>3. /\ dev' \in Device
          /\ queue_count(dev') = IF 0 < queue_count(f) THEN 0 ELSE queue_count(f)
          /\ \A i \in Contexts :
               dev'.ctx[i] = IF i >= 0 /\ i < queue_count(f) /\ f.ctx[i] = "bound"
                             THEN "stale" ELSE f.ctx[i]
          /\ HeldSame(dev', f) /\ CtrlSame(dev', f) /\ AdminSame(dev', f) /\ LogSame(dev', f)
          /\ dev'.online = f.online /\ dev'.irqs = f.irqs /\ dev'.ns_frozen = f.ns_frozen
      BY <3>1, <3>2, FreeQueuesIs
    <3>4. queue_count(f) \in Nat BY <3>1 DEF queue_count, Device
    <3>5. Rest BY Zenon, <1>0, <2>e, <3>1, <3>2, <3>3
               DEF HeldSame, TableSame, CtrlSame, AdminSame, NsSame, LogSame
    <3>6. Freed BY <1>0, <2>e, <3>1, <3>2, <3>3, <3>4 DEF TableSame, CtrlSame, NsSame, LogSame
    <3> QED BY Zenon, <3>5, <3>6
  <2>4. CASE Goto(queue_request_irq([e EXCEPT !.queues[1].vector = 0], 0), "list")
    <3> DEFINE f == [e EXCEPT !.queues[0 + 1].vector = 0]
    <3>0. 0 \in Nat /\ 0 < queue_count(e) /\ 0 \in Int /\ 0 \in Contexts
      BY <1>0, <2>e, DeviceAssumption DEF Contexts
    <3>1. /\ f \in Device /\ Changed(f, e, 0, [vector |-> 0, ready |-> e.queues[0 + 1].ready])
          /\ f.online = e.online /\ f.irqs = e.irqs
          /\ HeldSame(f, e) /\ CtrlSame(f, e) /\ AdminSame(f, e) /\ NsSame(f, e)
          /\ LogSame(f, e)
      BY Zenon, <2>e, <3>0, SetVectorIs
    <3>2. dev' = queue_request_irq(f, 0) /\ pc' = "list" BY <2>4 DEF Goto
    <3> HIDE DEF f
    <3>3. /\ dev' \in Device /\ dev'.irqs = f.irqs \cup {0}
          /\ dev'.queues = f.queues /\ dev'.online = f.online
          /\ HeldSame(dev', f) /\ CtrlSame(dev', f) /\ AdminSame(dev', f) /\ NsSame(dev', f)
          /\ LogSame(dev', f)
      BY Zenon, <3>0, <3>1, <3>2, RequestIrqIs
    <3>4. /\ queue_count(dev') = queue_count(e)
          /\ Vector(dev', 0) = 0 /\ dev'.queues[1].ready = e.queues[1].ready
          /\ \A k \in 1 .. queue_count(e) : k # 1 => dev'.queues[k] = e.queues[k]
      BY <3>1, <3>3 DEF Changed, Vector, queue_count
    <3>5. Rest BY Zenon, <1>0, <2>e, <3>1, <3>3 DEF HeldSame, CtrlSame, AdminSame, NsSame, LogSame
    <3>6. dev'.cqs = {} /\ dev'.irqs = {0} /\ NsSame(dev', dev)
      BY Zenon, <2>e, <3>1, <3>3 DEF CtrlSame, NsSame
    <3>7. /\ dev'.queues[1].ready <=> (queue_count(dev) > 0 /\ dev.queues[1].ready)
          /\ \A k \in 2 .. queue_count(dev) : dev'.queues[k] = dev.queues[k]
      BY <1>0, <2>e, <3>4
    <3>8. queue_count(dev') = IF queue_count(dev) = 0 THEN 1 ELSE queue_count(dev)
      BY Zenon, <2>e, <3>4
    <3>9. Vector(dev', 0) = 0 BY Zenon, <3>4
    <3> QED BY Zenon, <3>2, <3>5, <3>6, <3>7, <3>8, <3>9
  <2> QED BY Zenon, <2>1, <2>2, <2>3, <2>4 DEF nvme_configure_admin_queue, d, e
<1> HIDE DEF d, e
<1>m. \A S : Failed(S) => Failed(S)' BY Zenon, <1>1, FailedMono
<1>p. pc' \in {"unmap", "list"} BY Zenon, <1>1
<1>h. /\ dev' \in Device /\ dev'.held = dev.held /\ dev'.admin_q = dev.admin_q
      /\ dev'.frozen = dev.frozen /\ dev'.oops = "no" /\ dev'.spurious = dev.spurious
      /\ dev'.ns_frozen = dev.ns_frozen /\ dev'.online = dev.online
  BY Zenon, <1>1 DEF HeldSame, AdminSame
<1>q. pc' = "unmap" => /\ Suspends(Contexts)' /\ dev'.irqs = {}
                       /\ (Idle(Contexts) => Idle(Contexts)')
  <2>1. CASE Kept BY Zenon, <2>1, <1>i DEF TableSame, Suspends, Idle, Ready, Vector, queue_count
  <2>2. CASE Freed BY <2>2 DEF Suspends, Idle, Contexts
  <2> QED BY Zenon, <1>1, <2>1, <2>2
<1>l. pc' = "list" => Enabled BY Zenon, <1>1
<1>2. TypeInv'
  <2>1. queue_count(dev') <= MaxQueues + 1
    <3>1. CASE Kept BY Zenon, <3>1, <1>0 DEF TableSame, queue_count
    <3>2. CASE Freed BY <3>2, DeviceAssumption
    <3>3. CASE Enabled BY <3>3, <1>0, DeviceAssumption
    <3> QED BY Zenon, <1>1, <3>1, <3>2, <3>3
  <2> QED BY Zenon, <1>0, <1>h, <1>p, <2>1 DEF TypeInv, Places, Stopped, Down, First
<1>3. HeldInv' BY Zenon, <1>0, <1>h, <1>p DEF IInv, HeldInv, Down, First, Later, Mapped, AllReleased
<1>4. AdminInv' BY Zenon, <1>0, <1>h, <1>p DEF IInv, AdminInv, BadAdmin, AdminQueueValid
<1>5. FreezeInv' BY Zenon, <1>0, <1>h, <1>p, <1>m DEF IInv, FreezeInv, Once, Stopped, Down, Later
<1>6. NsInv'
  <2>1. Used' => Used
    <3>1. CASE Kept BY Zenon, <3>1 DEF Used, NsSame
    <3>2. CASE Freed BY Zenon, <3>2 DEF Used
    <3>3. CASE Enabled BY Zenon, <3>3 DEF Used, NsSame
    <3> QED BY Zenon, <1>1, <3>1, <3>2, <3>3
  <2> QED BY Zenon, <1>0, <1>h, <1>p, <2>1 DEF IInv, NsInv, Serving
<1>7. ContextInv'
  <2>1. (\E i \in Contexts : dev'.ctx[i] = "stale") => Failed(Losses)'
    <3>1. CASE Kept BY Zenon, <3>1, <1>0, <1>m DEF NsSame, IInv, ContextInv
    <3>2. CASE Freed BY Zenon, <3>2, HasFailed DEF Losses
    <3>3. CASE Enabled BY Zenon, <3>3, <1>0, <1>m DEF NsSame, IInv, ContextInv
    <3> QED BY Zenon, <1>1, <3>1, <3>2, <3>3
  <2> QED BY Zenon, <1>h, <1>p, <2>1 DEF ContextInv, ContextsHaveQueues
<1>8. TableInv'
  <2>1. CASE pc' = "unmap"
    BY Zenon, <1>q, <2>1 DEF TableInv, Suspends, Stopped, Down, First, Later
  <2>2. CASE pc' = "list"
    <3>1. queue_count(dev') > 0 /\ Vector(dev', 0) = 0 /\ dev'.irqs = {0} BY <1>0, <1>l, <2>2
    <3>2. Suspends(Contexts \ {0})'
      BY <1>0, <1>i, <1>l, <2>2 DEF Suspends, Vector, Contexts
    <3> QED BY <2>2, <3>1, <3>2 DEF TableInv, Stopped, Down, First, Later
  <2> QED BY Zenon, <1>p, <2>1, <2>2
<1>9. CountInv'
  <2> SUFFICES ASSUME Exact' PROVE CountInv' BY Zenon DEF CountInv
  <2>1. dev.online = 0 /\ Idle(Contexts) BY Zenon, <1>0, <1>m DEF IInv, CountInv, Exact, Stopped
  <2>2. pc' = "list" => Idle(Contexts)'
    <3> SUFFICES ASSUME Enabled PROVE Idle(Contexts)' BY Zenon, <1>l
    <3>1. queue_count(dev) > 0 => ~dev.queues[1].ready
      BY <2>1, DeviceAssumption DEF Idle, Ready, Contexts
    <3>2. ~dev'.queues[1].ready BY Zenon, <3>1
    <3>3. \A k \in 2 .. queue_count(dev) : k - 1 \in Contexts /\ ~dev.queues[(k - 1) + 1].ready
      BY <1>0, <2>1, DeviceAssumption DEF Idle, Ready, Contexts
    <3> QED BY <1>0, <3>2, <3>3 DEF Idle, Ready, Contexts
  <2> QED BY Zenon, <1>h, <1>p, <1>q, <2>1, <2>2 DEF CountInv, Stopped, Down
<1>10. CtrlInv'
  <2>1. CASE Kept BY Zenon, <2>1, <1>0, <1>m DEF IInv, CtrlInv, TableSame, queue_count, First
  <2>2. CASE Freed BY Zenon, <2>2 DEF CtrlInv, First
  <2>3. CASE Enabled BY Zenon, <2>3 DEF CtrlInv, First
  <2> QED BY Zenon, <1>1, <2>1, <2>2, <2>3
<1>11. OnlineInv' BY Zenon, <1>0, <1>h, <1>p DEF IInv, OnlineInv, Low, Slack
<1>12. HandlerInv' BY Zenon, <1>0, <1>h, <1>p, <1>m DEF IInv, HandlerInv
<1> QED BY Zenon, <1>2, <1>3, <1>4, <1>5, <1>6, <1>7, <1>8, <1>9, <1>10, <1>11, <1>12 DEF IInv

\* nvme_init_queue counts the admin queue, or the thread could not be started.
LEMMA JoinListStep ==
  ASSUME IInv, JoinList
  PROVE  IInv'
<1>0. /\ pc = "list" /\ dev.oops = "no" /\ why' = why /\ max_qid' = max_qid
      /\ dev \in Device /\ why \in Reasons /\ max_qid \in 0 .. MaxQueues
      /\ queue_count(dev) <= MaxQueues + 1 /\ queue_count(dev) \in Nat /\ queue_count(dev) > 0
      /\ dev.online \in 0 .. UINT - 1
  BY DEF JoinList, Running, IInv, TypeInv, TableInv, First, queue_count, Device
<1> DEFINE Counted == /\ pc' = "tags" /\ dev'.failed = dev.failed
                      /\ dev'.online = (dev.online + 1) % UINT
                      /\ Changed(dev', dev, 0, [vector |-> dev.queues[1].vector, ready |-> TRUE])
           Alone   == /\ pc' = "disable" /\ "thread" \in dev'.failed
                      /\ dev.failed \subseteq dev'.failed
                      /\ dev'.online = dev.online /\ dev'.queues = dev.queues
<1>1. /\ dev' \in Device /\ (Counted \/ Alone)
      /\ dev'.irqs = dev.irqs /\ dev'.spurious = dev.spurious /\ dev'.oops = "no"
      /\ HeldSame(dev', dev) /\ CtrlSame(dev', dev) /\ AdminSame(dev', dev) /\ NsSame(dev', dev)
  <2>1. CASE Goto(nvme_init_queue(dev, 0), "tags")
    <3>1. 0 \in Nat /\ 0 < queue_count(dev) BY Zenon, <1>0
    <3>2. /\ dev' \in Device /\ dev'.online = (dev.online + 1) % UINT
          /\ Changed(dev', dev, 0, [vector |-> dev.queues[0 + 1].vector, ready |-> TRUE])
          /\ dev'.irqs = dev.irqs
          /\ HeldSame(dev', dev) /\ CtrlSame(dev', dev) /\ AdminSame(dev', dev)
          /\ NsSame(dev', dev) /\ LogSame(dev', dev)
      BY Zenon, <1>0, <2>1, <3>1, InitQueueIs DEF Goto
    <3> QED BY <1>0, <2>1, <3>2 DEF Goto, LogSame
  <2>2. CASE Goto(Fail(dev, "thread"), "disable")
    <3>1. /\ dev' \in Device /\ dev'.failed = dev.failed \cup {"thread"}
          /\ dev'.spurious = dev.spurious /\ dev'.oops = dev.oops
          /\ HeldSame(dev', dev) /\ TableSame(dev', dev) /\ CtrlSame(dev', dev)
          /\ AdminSame(dev', dev) /\ NsSame(dev', dev)
      BY Zenon, <1>0, <2>2, FailIs, CallNames DEF Goto
    <3> QED BY Zenon, <1>0, <2>2, <3>1 DEF Goto, TableSame
  <2> QED BY Zenon, <2>1, <2>2 DEF JoinList
<1>m. \A S : Failed(S) => Failed(S)' BY Zenon, <1>1, FailedMono
<1>t. pc' = "disable" => Failed({"thread"})' /\ Failed({"create", "thread"})'
  BY Zenon, <1>1, HasFailed
<1>h. /\ dev'.held = dev.held /\ dev'.admin_q = dev.admin_q /\ dev'.frozen = dev.frozen
      /\ dev'.cqs = dev.cqs /\ dev'.ns_frozen = dev.ns_frozen /\ dev'.ctx = dev.ctx
      /\ pc' \in {"tags", "disable"} /\ queue_count(dev') = queue_count(dev)
  BY Zenon, <1>1 DEF HeldSame, CtrlSame, AdminSame, NsSame, Changed, queue_count
<1>v. \A i \in Contexts : i < queue_count(dev) => Vector(dev', i) = Vector(dev, i)
  <2>1. CASE Counted
    BY <1>0, <2>1, DeviceAssumption DEF Changed, Vector, Contexts
  <2>2. CASE Alone BY Zenon, <2>2 DEF Vector
  <2> QED BY Zenon, <1>1, <2>1, <2>2
<1>o. pc' = "tags" => /\ dev'.online = IF dev.online + 1 < UINT THEN dev.online + 1 ELSE 0
                      /\ dev'.queues[1].ready
                      /\ \A i \in Contexts \ {0} : i < queue_count(dev) =>
                            dev'.queues[i + 1] = dev.queues[i + 1]
  <2> SUFFICES ASSUME Counted
               PROVE  /\ dev'.online = IF dev.online + 1 < UINT THEN dev.online + 1 ELSE 0
                      /\ dev'.queues[1].ready
                      /\ \A i \in Contexts \ {0} : i < queue_count(dev) =>
                            dev'.queues[i + 1] = dev.queues[i + 1]
    BY Zenon, <1>1
  <2>1. dev.online + 1 \in Nat /\ dev.online + 1 < 2 * UINT BY <1>0, DeviceAssumption
  <2>2. dev'.online = IF dev.online + 1 < UINT THEN dev.online + 1 ELSE (dev.online + 1) - UINT
    BY Zenon, <2>1, ModTwice
  <2> QED BY <1>0, <2>2, DeviceAssumption DEF Changed, Contexts
<1>2. TypeInv' BY Zenon, <1>0, <1>1, <1>h DEF TypeInv, Places, First
<1>3. HeldInv' BY Zenon, <1>0, <1>h DEF IInv, HeldInv, Down, First, Later, Mapped, AllReleased
<1>4. AdminInv' BY Zenon, <1>0, <1>1, <1>h DEF IInv, AdminInv, BadAdmin, AdminQueueValid
<1>5. FreezeInv' BY Zenon, <1>0, <1>h, <1>m, <1>t DEF IInv, FreezeInv, Once, Stopped, Down, Later
<1>6. NsInv' BY Zenon, <1>0, <1>h DEF IInv, NsInv, Used, Serving
<1>7. ContextInv' BY Zenon, <1>0, <1>1, <1>h, <1>m DEF IInv, ContextInv, ContextsHaveQueues
<1>8. TableInv'
  <2>1. /\ \A i \in dev.irqs : i \in Contexts /\ i < queue_count(dev) /\ Vector(dev, i) # -1
        /\ Suspends(Contexts \ {0}) /\ Vector(dev, 0) # -1 /\ 0 \in dev.irqs /\ 0 \in Contexts
    BY Zenon, <1>0, DeviceAssumption DEF IInv, TableInv, First, Device, Contexts
  <2>2. Suspends(Contexts \ {0})' BY Zenon, <1>h, <1>v, <2>1 DEF Suspends
  <2> QED BY Zenon, <1>0, <1>1, <1>h, <1>v, <2>1, <2>2 DEF TableInv, Stopped, Down, First, Later
<1>9. CountInv'
  <2> SUFFICES ASSUME Exact' PROVE CountInv' BY Zenon DEF CountInv
  <2>0. pc' = "tags" BY Zenon, <1>h, <1>t DEF Exact
  <2>1. dev.online = 0 /\ Idle(Contexts) BY Zenon, <1>0, <1>m DEF IInv, CountInv, Exact
  <2>2. dev'.online = 1 BY <1>o, <2>0, <2>1, DeviceAssumption
  <2>3. Ready(0)' /\ Idle(Contexts \ {0})' BY <1>h, <1>o, <2>0, <2>1 DEF Idle, Ready
  <2> QED BY Zenon, <1>1, <2>0, <2>2, <2>3 DEF CountInv, Stopped, Down
<1>10. CtrlInv' BY Zenon, <1>0, <1>h DEF IInv, CtrlInv, First
<1>11. OnlineInv'
  <2>1. Low(Slack) /\ Slack' = Slack /\ Slack \in Nat /\ Slack < UINT
    BY <1>0, DeviceAssumption DEF IInv, OnlineInv, Slack
  <2>2. pc' = "tags" => Begun(Slack)'
    BY <1>0, <1>o, <2>1, DeviceAssumption DEF Low, Begun
  <2>3. pc' = "disable" => Low(Slack)' BY Zenon, <1>1, <2>1 DEF Low
  <2> QED BY Zenon, <1>h, <2>2, <2>3 DEF OnlineInv
<1>12. HandlerInv' BY Zenon, <1>0, <1>1, <1>h, <1>m DEF IInv, HandlerInv
<1> QED BY Zenon, <1>2, <1>3, <1>4, <1>5, <1>6, <1>7, <1>8, <1>9, <1>10, <1>11, <1>12 DEF IInv

\* nvme_alloc_admin_tags makes the admin request queue, fails to, or thaws it.
LEMMA AdminTagsStep ==
  ASSUME IInv, nvme_alloc_admin_tags
  PROVE  IInv'
<1>0. /\ pc = "tags" /\ dev.oops = "no" /\ why' = why /\ max_qid' = max_qid
      /\ dev \in Device /\ why \in Reasons /\ max_qid \in 0 .. MaxQueues
      /\ queue_count(dev) <= MaxQueues + 1 /\ 0 \in Contexts
  BY DeviceAssumption DEF nvme_alloc_admin_tags, AdminTags, Running, IInv, TypeInv, Contexts
<1>a. /\ ~BadAdmin(dev) /\ \A r \in Resources : dev.held[r] \in Int
      /\ dev.held["admin_ref"] = IF dev.admin_q \in {"live", "dying"} THEN 1 ELSE 0
      /\ dev.held["admin_tags"] = IF dev.admin_q = "live" THEN 1 ELSE 0
      /\ dev.held["admin_queue"] = IF dev.admin_q = "live" THEN 1 ELSE 0
      /\ dev.frozen \in Int /\ (dev.admin_q = "null" => dev.frozen = 0)
  BY Zenon, <1>0 DEF IInv, AdminInv, FreezeInv, Device
<1> DEFINE Refs == {"admin_tags", "admin_queue", "admin_ref"}
           Same == \A r \in Resources : dev'.held[r] = dev.held[r]
           Broken == /\ pc' = "disable" /\ dev.admin_q = "null" /\ dev'.frozen = dev.frozen /\ Same
                     /\ \/ dev'.admin_q = "null"
                        \/ /\ dev'.admin_q \in {"err", "freed"}
                           /\ dev'.failed \cap {"init_admin_q", "get_admin_q"} # {}
           Made   == /\ pc' = "io" /\ dev.admin_q = "null" /\ dev'.frozen = dev.frozen
                     /\ dev'.admin_q = "live" /\ Moved(dev', dev, Refs, 1)
           Thaws  == /\ pc' = "io" /\ dev.admin_q # "null" /\ dev'.frozen = dev.frozen - 1
                     /\ dev'.admin_q = dev.admin_q /\ Same
           Rest   == /\ dev' \in Device /\ dev.failed \subseteq dev'.failed
                     /\ TableSame(dev', dev) /\ CtrlSame(dev', dev)
                     /\ dev'.spurious = dev.spurious /\ dev'.oops = "no"
                     /\ dev'.ns_frozen = dev.ns_frozen /\ dev'.ctx[0] \in {dev.ctx[0], "none", "bound"}
                     /\ \A i \in Contexts \ {0} : dev'.ctx[i] = dev.ctx[i]
<1>1. Rest /\ (Broken \/ Made \/ Thaws)
  <2>1. CASE dev.admin_q = "null" /\ Goto(Fail(dev, "admin_tag_set"), "disable")
    <3>1. /\ dev' \in Device /\ dev'.failed = dev.failed \cup {"admin_tag_set"}
          /\ dev'.spurious = dev.spurious /\ dev'.oops = dev.oops
          /\ HeldSame(dev', dev) /\ TableSame(dev', dev) /\ CtrlSame(dev', dev)
          /\ AdminSame(dev', dev) /\ NsSame(dev', dev)
      BY Zenon, <1>0, <2>1, FailIs, CallNames DEF Goto
    <3> QED BY Zenon, <1>0, <2>1, <3>1 DEF Goto, HeldSame, AdminSame, NsSame
  <2>2. CASE dev.admin_q = "null" /\ Goto(Fail([dev EXCEPT !.admin_q = "err"], "init_admin_q"), "disable")
    <3> DEFINE f == [dev EXCEPT !.admin_q = "err"]
    <3>1. /\ f \in Device /\ f.admin_q = "err" /\ f.frozen = dev.frozen
          /\ HeldSame(f, dev) /\ TableSame(f, dev) /\ CtrlSame(f, dev) /\ NsSame(f, dev)
          /\ LogSame(f, dev)
      BY Zenon, <1>0 DEF Device, HeldSame, TableSame, CtrlSame, NsSame, LogSame
    <3>2. dev' = Fail(f, "init_admin_q") BY Zenon, <2>2 DEF Goto
    <3> HIDE DEF f
    <3>3. /\ dev' \in Device /\ dev'.failed = f.failed \cup {"init_admin_q"}
          /\ dev'.spurious = f.spurious /\ dev'.oops = f.oops
          /\ HeldSame(dev', f) /\ TableSame(dev', f) /\ CtrlSame(dev', f) /\ AdminSame(dev', f)
          /\ NsSame(dev', f)
      BY Zenon, <3>1, <3>2, FailIs, CallNames
    <3>4. Rest BY Zenon, <1>0, <3>1, <3>3 DEF TableSame, CtrlSame, NsSame, LogSame
    <3>5. Broken BY Zenon, <2>2, <3>1, <3>3 DEF Goto, HeldSame, AdminSame
    <3> QED BY Zenon, <3>4, <3>5
  <2> DEFINE t == Take(dev, {"admin_tags", "admin_queue"})
             d == [t EXCEPT !.admin_q = "live", !.ctx[0] = "bound"]
             x == [dev.ctx EXCEPT ![0] = "bound"]
  <2>d. /\ d \in Device /\ d.admin_q = "live" /\ d.frozen = dev.frozen
        /\ d.ctx[0] = "bound" /\ d.ns_frozen = dev.ns_frozen
        /\ \A i \in Contexts \ {0} : d.ctx[i] = dev.ctx[i]
        /\ Moved(d, dev, {"admin_tags", "admin_queue"}, 1)
        /\ TableSame(d, dev) /\ CtrlSame(d, dev) /\ LogSame(d, dev)
    <3>1. /\ t \in Device /\ Moved(t, dev, {"admin_tags", "admin_queue"}, 1)
          /\ TableSame(t, dev) /\ CtrlSame(t, dev) /\ AdminSame(t, dev) /\ NsSame(t, dev)
          /\ LogSame(t, dev)
      BY Zenon, <1>0, TakeIs
    <3> HIDE DEF t
    <3>2. x \in [Contexts -> {"none", "bound", "stale"}] /\ x[0] = "bound"
          /\ \A i \in Contexts \ {0} : x[i] = dev.ctx[i]
      BY Zenon, <1>0 DEF Device
    <3>3. d = [t EXCEPT !.admin_q = "live", !.ctx = x] BY Zenon, <3>1 DEF NsSame
    <3> HIDE DEF x, d
    <3>4. /\ d \in Device /\ d.admin_q = "live" /\ d.ctx = x /\ d.held = t.held
          /\ d.frozen = t.frozen /\ d.ns_frozen = t.ns_frozen
          /\ TableSame(d, t) /\ CtrlSame(d, t) /\ LogSame(d, t)
      BY Zenon, <3>1, <3>2, <3>3 DEF Device, TableSame, CtrlSame, LogSame
    <3> QED BY Zenon, <3>1, <3>2, <3>4 DEF Moved, TableSame, CtrlSame, AdminSame, NsSame, LogSame
  <2> HIDE DEF d, t, x
  <2>r. /\ "admin_ref" \in Resources /\ "admin_tags" \in Resources /\ "admin_queue" \in Resources
    BY Zenon DEF Resources
  <2>3. CASE dev.admin_q = "null" /\ Goto(Fail(nvme_dev_remove_admin(d), "get_admin_q"), "disable")
    <3> DEFINE e == nvme_dev_remove_admin(d)
    <3>0. d.held["admin_ref"] = 0 BY Zenon, <1>a, <2>3, <2>d, <2>r DEF Moved
    <3>1. /\ e \in Device /\ Moved(e, d, {"admin_queue", "admin_tags"}, -1)
          /\ e.admin_q = IF d.held["admin_ref"] > 0 THEN "dying" ELSE "freed"
          /\ e.frozen = d.frozen
          /\ \A i \in Contexts : e.ctx[i] = IF i = 0 THEN "none" ELSE d.ctx[i]
          /\ e.oops = IF d.oops # "no" THEN d.oops
                      ELSE IF d.ctx[0] = "stale" THEN "context"
                      ELSE IF BadAdmin(d) THEN "admin_q" ELSE "no"
          /\ e.failed = d.failed /\ e.spurious = d.spurious
          /\ e.ns_frozen = d.ns_frozen /\ TableSame(e, d) /\ CtrlSame(e, d)
      BY Zenon, <2>d, RemoveAdminIs
    <3>2. dev' = Fail(e, "get_admin_q") /\ pc' = "disable" BY Zenon, <2>3 DEF Goto
    <3> HIDE DEF e
    <3>3. /\ dev' \in Device /\ dev'.failed = e.failed \cup {"get_admin_q"}
          /\ dev'.spurious = e.spurious /\ dev'.oops = e.oops
          /\ HeldSame(dev', e) /\ TableSame(dev', e) /\ CtrlSame(dev', e) /\ AdminSame(dev', e)
          /\ NsSame(dev', e)
      BY Zenon, <3>1, <3>2, FailIs, CallNames
    <3>4. e.admin_q = "freed" /\ e.oops = "no"
      BY <1>0, <3>0, <3>1, <2>d DEF BadAdmin, LogSame
    <3>5. Rest BY <1>0, <2>d, <3>1, <3>3, <3>4 DEF TableSame, CtrlSame, NsSame, LogSame
    <3>6. Same
      <4> SUFFICES ASSUME NEW r \in Resources PROVE dev'.held[r] = dev.held[r] BY Zenon
      <4>1. dev'.held[r] = e.held[r] BY Zenon, <3>3 DEF HeldSame
      <4>2. e.held[r] = IF r \in {"admin_queue", "admin_tags"} THEN d.held[r] + (-1) ELSE d.held[r]
        BY Zenon, <3>1 DEF Moved
      <4>3. d.held[r] = IF r \in {"admin_tags", "admin_queue"} THEN dev.held[r] + 1 ELSE dev.held[r]
        BY Zenon, <2>d DEF Moved
      <4> QED BY <1>a, <4>1, <4>2, <4>3
    <3>7. Broken BY Zenon, <2>3, <2>d, <3>1, <3>2, <3>3, <3>4, <3>6 DEF AdminSame
    <3> QED BY Zenon, <3>5, <3>7
  <2>4. CASE dev.admin_q = "null" /\ Goto(Take(d, {"admin_ref"}), "io")
    <3>1. /\ dev' \in Device /\ Moved(dev', d, {"admin_ref"}, 1)
          /\ TableSame(dev', d) /\ CtrlSame(dev', d) /\ AdminSame(dev', d) /\ NsSame(dev', d)
          /\ LogSame(dev', d)
      BY Zenon, <2>d, <2>4, TakeIs DEF Goto
    <3>2. Rest BY Zenon, <1>0, <2>d, <3>1 DEF TableSame, CtrlSame, NsSame, LogSame
    <3>3. Moved(dev', dev, Refs, 1)
      BY Zenon, <2>d, <3>1 DEF Moved
    <3>4. Made BY Zenon, <2>4, <2>d, <3>1, <3>3 DEF Goto, AdminSame
    <3> QED BY Zenon, <3>2, <3>4
  <2>5. CASE dev.admin_q # "null"
             /\ Goto(OopsIf([dev EXCEPT !.frozen = @ - 1], BadAdmin(dev), "admin_q"), "io")
    <3> DEFINE n == dev.frozen - 1
               f == [dev EXCEPT !.frozen = n]
               b == BadAdmin(dev)
    <3>1. n \in Int /\ b = FALSE BY <1>a
    <3>2. dev' = OopsIf(f, b, "admin_q") BY Zenon, <2>5 DEF Goto
    <3> HIDE DEF n, b
    <3>3. /\ f \in Device /\ f.admin_q = dev.admin_q /\ f.frozen = n
          /\ HeldSame(f, dev) /\ TableSame(f, dev) /\ CtrlSame(f, dev) /\ NsSame(f, dev)
          /\ LogSame(f, dev)
      BY Zenon, <1>0, <3>1 DEF Device, HeldSame, TableSame, CtrlSame, NsSame, LogSame
    <3> HIDE DEF f
    <3>4. /\ dev' \in Device /\ dev'.oops = IF f.oops = "no" /\ b THEN "admin_q" ELSE f.oops
          /\ dev'.spurious = f.spurious /\ dev'.failed = f.failed
          /\ HeldSame(dev', f) /\ TableSame(dev', f) /\ CtrlSame(dev', f) /\ AdminSame(dev', f)
          /\ NsSame(dev', f)
      BY Zenon, <3>1, <3>2, <3>3, OopsIs
    <3>5. Rest BY Zenon, <1>0, <3>1, <3>3, <3>4 DEF TableSame, CtrlSame, NsSame, LogSame
    <3>6. Thaws BY Zenon, <2>5, <3>3, <3>4 DEF Goto, HeldSame, AdminSame, n
    <3> QED BY Zenon, <3>5, <3>6
  <2> QED BY Zenon, <2>1, <2>2, <2>3, <2>4, <2>5 DEF nvme_alloc_admin_tags, AdminTags, d, t
<1>m. \A S : Failed(S) => Failed(S)' BY Zenon, <1>1, FailedMono
<1>h. /\ dev' \in Device /\ dev'.queues = dev.queues /\ dev'.online = dev.online
      /\ dev'.irqs = dev.irqs /\ dev'.cqs = dev.cqs /\ queue_count(dev') = queue_count(dev)
      /\ dev'.oops = "no" /\ dev'.spurious = dev.spurious /\ dev'.ns_frozen = dev.ns_frozen
      /\ pc' \in {"disable", "io"}
      /\ \A r \in Resources \ Refs : dev'.held[r] = dev.held[r]
  BY Zenon, <1>1 DEF TableSame, CtrlSame, Moved, queue_count
<1>2. TypeInv' BY Zenon, <1>0, <1>h DEF TypeInv, Places, First
<1>3. HeldInv'
  BY <1>0, <1>h DEF IInv, HeldInv, Down, First, Later, Mapped, AllReleased, Resources, Base
<1>4. AdminInv'
  <2>1. CASE Broken
    BY Zenon, <1>a, <1>h, <2>1 DEF AdminInv, AdminQueueValid, BadAdmin, Failed, Resources
  <2>2. CASE Made
    <3>1. dev'.held["admin_ref"] = 1 /\ dev'.held["admin_tags"] = 1 /\ dev'.held["admin_queue"] = 1
      BY <1>a, <2>2 DEF Moved, Resources
    <3> QED BY Zenon, <1>h, <2>2, <3>1 DEF AdminInv, AdminQueueValid, BadAdmin
  <2>3. CASE Thaws BY Zenon, <1>a, <1>h, <2>3 DEF AdminInv, AdminQueueValid, BadAdmin, Resources
  <2> QED BY Zenon, <1>1, <2>1, <2>2, <2>3
<1>5. FreezeInv'
  <2>1. CASE Broken BY <1>a, <2>1 DEF FreezeInv
  <2>2. CASE Made BY <1>a, <2>2 DEF FreezeInv, Thawed, Stopped, Down
  <2>3. CASE Thaws
    <3>1. dev.admin_q \in {"live", "dying"} BY Zenon, <1>0, <1>a, <2>3 DEF BadAdmin, Device
    <3>2. Once BY Zenon, <1>0, <3>1 DEF IInv, FreezeInv
    <3> QED BY <1>a, <1>m, <2>3, <3>2 DEF FreezeInv, Once, Thawed, Stopped, Down
  <2> QED BY Zenon, <1>1, <2>1, <2>2, <2>3
<1>6. NsInv'
  <2>1. Used' = Used BY Zenon, <1>1 DEF Used
  <2> QED BY Zenon, <1>0, <1>h, <2>1 DEF IInv, NsInv, Serving, Resources
<1>7. ContextInv'
  <2>1. (\E i \in Contexts : dev'.ctx[i] = "stale") => \E i \in Contexts : dev.ctx[i] = "stale"
    BY Zenon, <1>0, <1>1
  <2> QED BY Zenon, <1>0, <1>h, <1>m, <2>1 DEF IInv, ContextInv, ContextsHaveQueues
<1>8. TableInv' BY Zenon, <1>0, <1>h DEF IInv, TableInv, Suspends, Vector, Stopped, Down, First, Later
<1>9. CountInv' BY Zenon, <1>0, <1>h, <1>m DEF IInv, CountInv, Exact, Idle, Ready, Stopped, Down
<1>10. CtrlInv' BY Zenon, <1>0, <1>h DEF IInv, CtrlInv, First
<1>11. OnlineInv' BY Zenon, <1>0, <1>h DEF IInv, OnlineInv, Begun, Slack
<1>12. HandlerInv' BY Zenon, <1>0, <1>h, <1>m DEF IInv, HandlerInv
<1> QED BY Zenon, <1>2, <1>3, <1>4, <1>5, <1>6, <1>7, <1>8, <1>9, <1>10, <1>11, <1>12 DEF IInv

\* The steps that only choose what runs next.
LEMMA AsyncProbeStep ==
  ASSUME IInv, nvme_async_probe
  PROVE  IInv'
<1>0. /\ pc = "started" /\ dev.oops = "no" /\ why = "probe" /\ why' = why /\ max_qid' = max_qid
      /\ dev' = dev /\ pc' \in {"add", "up"} /\ 0 \in Contexts
  BY DeviceAssumption DEF nvme_async_probe, Running, Goto, Contexts
<1>2. TypeInv' BY Zenon, <1>0 DEF IInv, TypeInv, Places, Stopped, Down, First, Later, Reasons
<1>3. HeldInv' BY Zenon, <1>0 DEF IInv, HeldInv, Down, First, Later, Mapped, Unmapped, AllReleased
<1>4. AdminInv' BY Zenon, <1>0 DEF IInv, AdminInv, AdminQueueValid, BadAdmin, Failed
<1>5. FreezeInv'
  BY Zenon, <1>0
  DEF IInv, FreezeInv, TableInv, Suspends, Once, Thawed, Vector, Failed, queue_count, Stopped, Down, Later, Contexts
<1>6. NsInv' BY Zenon, <1>0 DEF IInv, NsInv, HeldInv, Used, Serving, Mapped, Unmapped, Down, Later
<1>7. ContextInv' BY Zenon, <1>0 DEF IInv, ContextInv, ContextsHaveQueues, Failed
<1>8. TableInv'
  BY Zenon, <1>0 DEF IInv, TableInv, Suspends, Vector, queue_count, Stopped, Down, First, Later
<1>9. CountInv'
  BY Zenon, <1>0
  DEF IInv, CountInv, TableInv, Exact, Counts, Idle, Ready, Suspends, Vector, Failed, queue_count, Stopped, Down
<1>10. CtrlInv' BY Zenon, <1>0 DEF IInv, CtrlInv, Failed, queue_count, First
<1>11. OnlineInv'
  BY Zenon, <1>0 DEF IInv, OnlineInv, Low, Begun, Slack, Running0, Suspends, Vector, queue_count
<1>12. HandlerInv'
  BY Zenon, <1>0
  DEF IInv, HandlerInv, TableInv, Handled, Suspends, Vector, Failed, queue_count, Stopped, Down
<1> QED BY Zenon, <1>2, <1>3, <1>4, <1>5, <1>6, <1>7, <1>8, <1>9, <1>10, <1>11, <1>12 DEF IInv

\* A start failed: the device is dead, or shut down and removed.
LEMMA StartFailedStep ==
  ASSUME IInv, StartFailed
  PROVE  IInv'
<1>0. /\ pc = "start_failed" /\ dev.oops = "no" /\ max_qid' = max_qid /\ dev' = dev
      /\ \/ why \in {"reset", "reset_notify"} /\ why' = why /\ pc' = "dead"
         \/ why \notin {"reset", "reset_notify"} /\ why' = "reset" /\ pc' = "shutdown"
      /\ 0 \in Contexts
  BY DeviceAssumption DEF StartFailed, Running, Goto, Contexts
<1>2. TypeInv' BY Zenon, <1>0 DEF IInv, TypeInv, Places, Stopped, Down, First, Later, Reasons
<1>3. HeldInv' BY Zenon, <1>0 DEF IInv, HeldInv, Down, First, Later, Mapped, Unmapped, AllReleased
<1>4. AdminInv' BY Zenon, <1>0 DEF IInv, AdminInv, AdminQueueValid, BadAdmin, Failed
<1>5. FreezeInv'
  BY Zenon, <1>0
  DEF IInv, FreezeInv, TableInv, Suspends, Once, Thawed, Vector, Failed, queue_count, Stopped, Down, Later, Contexts
<1>6. NsInv' BY <1>0 DEF IInv, NsInv, HeldInv, Used, Serving, Mapped, Unmapped, Down, Later
<1>7. ContextInv' BY Zenon, <1>0 DEF IInv, ContextInv, ContextsHaveQueues, Failed
<1>8. TableInv'
  BY Zenon, <1>0 DEF IInv, TableInv, Suspends, Vector, queue_count, Stopped, Down, First, Later
<1>9. CountInv'
  BY Zenon, <1>0
  DEF IInv, CountInv, TableInv, Exact, Counts, Idle, Ready, Suspends, Vector, Failed, queue_count, Stopped, Down
<1>10. CtrlInv' BY Zenon, <1>0 DEF IInv, CtrlInv, Failed, queue_count, First
<1>11. OnlineInv'
  <2>1. CASE pc' = "dead" BY Zenon, <2>1 DEF OnlineInv
  <2>2. CASE pc' = "shutdown"
    <3>1. Suspends(Contexts)'
      BY Zenon, <1>0 DEF IInv, TableInv, Suspends, Vector, queue_count, Stopped, Down
    <3>2. Low(Slack)' BY <1>0, <2>2, DeviceAssumption DEF IInv, OnlineInv, Low, Slack
    <3> QED BY Zenon, <1>0, <2>2, <3>1, <3>2 DEF OnlineInv
  <2> QED BY Zenon, <1>0, <2>1, <2>2
<1>12. HandlerInv'
  BY Zenon, <1>0
  DEF IInv, HandlerInv, TableInv, Handled, Suspends, Vector, Failed, queue_count, Stopped, Down
<1> QED BY Zenon, <1>2, <1>3, <1>4, <1>5, <1>6, <1>7, <1>8, <1>9, <1>10, <1>11, <1>12 DEF IInv

\* A reset, a sleep or a reset notification begins.
LEMMA TakeDownStep ==
  ASSUME IInv, TakeDown
  PROVE  IInv'
<1>0. /\ pc = "up" /\ dev.oops = "no" /\ max_qid' = max_qid /\ dev' = dev
      /\ why' \in {"reset", "reset_notify", "suspend", "shutdown"} /\ pc' = "shutdown"
      /\ 0 \in Contexts
  BY DeviceAssumption DEF TakeDown, Running, Goto, Contexts
<1>2. TypeInv' BY Zenon, <1>0 DEF IInv, TypeInv, Places, Stopped, Down, First, Later, Reasons
<1>3. HeldInv' BY Zenon, <1>0 DEF IInv, HeldInv, Down, First, Later, Mapped, Unmapped, AllReleased
<1>4. AdminInv' BY Zenon, <1>0 DEF IInv, AdminInv, AdminQueueValid, BadAdmin, Failed
<1>5. FreezeInv'
  BY Zenon, <1>0
  DEF IInv, FreezeInv, TableInv, Suspends, Once, Thawed, Vector, Failed, queue_count, Stopped, Down, Later, Contexts
<1>6. NsInv' BY <1>0 DEF IInv, NsInv, HeldInv, Used, Serving, Mapped, Unmapped, Down, Later
<1>7. ContextInv' BY Zenon, <1>0 DEF IInv, ContextInv, ContextsHaveQueues, Failed
<1>8. TableInv'
  BY Zenon, <1>0 DEF IInv, TableInv, Suspends, Vector, queue_count, Stopped, Down, First, Later
<1>9. CountInv'
  BY Zenon, <1>0
  DEF IInv, CountInv, TableInv, Exact, Counts, Idle, Ready, Suspends, Vector, Failed, queue_count, Stopped, Down
<1>10. CtrlInv' BY Zenon, <1>0 DEF IInv, CtrlInv, Failed, queue_count, First
<1>11. OnlineInv'
  BY Zenon, <1>0 DEF IInv, OnlineInv, Low, Begun, Slack, Running0, Suspends, Vector, queue_count
<1>12. HandlerInv'
  BY Zenon, <1>0
  DEF IInv, HandlerInv, TableInv, Handled, Suspends, Vector, Failed, queue_count, Stopped, Down
<1> QED BY Zenon, <1>2, <1>3, <1>4, <1>5, <1>6, <1>7, <1>8, <1>9, <1>10, <1>11, <1>12 DEF IInv

\* The device wakes up.
LEMMA ResumeStep ==
  ASSUME IInv, nvme_resume
  PROVE  IInv'
<1>0. /\ pc = "asleep" /\ dev.oops = "no" /\ max_qid' = max_qid /\ dev' = dev
      /\ why' = (IF why = "suspend" THEN "resume" ELSE why) /\ pc' = "map"
      /\ 0 \in Contexts
  BY DeviceAssumption DEF nvme_resume, Running, Goto, Contexts
<1>2. TypeInv' BY Zenon, <1>0 DEF IInv, TypeInv, Places, Stopped, Down, First, Later, Reasons
<1>3. HeldInv' BY Zenon, <1>0 DEF IInv, HeldInv, Down, First, Later, Mapped, Unmapped, AllReleased
<1>4. AdminInv' BY Zenon, <1>0 DEF IInv, AdminInv, AdminQueueValid, BadAdmin, Failed
<1>5. FreezeInv'
  BY Zenon, <1>0
  DEF IInv, FreezeInv, TableInv, Suspends, Once, Thawed, Vector, Failed, queue_count, Stopped, Down, Later, Contexts
<1>6. NsInv' BY Zenon, <1>0 DEF IInv, NsInv, HeldInv, Used, Serving, Mapped, Unmapped, Down, Later
<1>7. ContextInv' BY Zenon, <1>0 DEF IInv, ContextInv, ContextsHaveQueues, Failed
<1>8. TableInv'
  BY Zenon, <1>0 DEF IInv, TableInv, Suspends, Vector, queue_count, Stopped, Down, First, Later
<1>9. CountInv'
  BY Zenon, <1>0
  DEF IInv, CountInv, TableInv, Exact, Counts, Idle, Ready, Suspends, Vector, Failed, queue_count, Stopped, Down
<1>10. CtrlInv' BY Zenon, <1>0 DEF IInv, CtrlInv, Failed, queue_count, First
<1>11. OnlineInv'
  BY Zenon, <1>0 DEF IInv, OnlineInv, Low, Begun, Slack, Running0, Suspends, Vector, queue_count
<1>12. HandlerInv'
  BY Zenon, <1>0
  DEF IInv, HandlerInv, TableInv, Handled, Suspends, Vector, Failed, queue_count, Stopped, Down
<1> QED BY Zenon, <1>2, <1>3, <1>4, <1>5, <1>6, <1>7, <1>8, <1>9, <1>10, <1>11, <1>12 DEF IInv

\* The device is removed.
LEMMA RemoveStep ==
  ASSUME IInv, nvme_remove
  PROVE  IInv'
<1>0. /\ pc \in {"up", "dead"} /\ dev.oops = "no" /\ max_qid' = max_qid /\ dev' = dev
      /\ why' = "remove" /\ pc' = "shutdown" /\ 0 \in Contexts
  BY DeviceAssumption DEF nvme_remove, Running, Goto, Contexts
<1>2. TypeInv' BY Zenon, <1>0 DEF IInv, TypeInv, Places, Stopped, Down, First, Later, Reasons
<1>3. HeldInv' BY Zenon, <1>0 DEF IInv, HeldInv, Down, First, Later, Mapped, Unmapped, AllReleased
<1>4. AdminInv' BY Zenon, <1>0 DEF IInv, AdminInv, AdminQueueValid, BadAdmin, Failed
<1>5. FreezeInv'
  BY Zenon, <1>0
  DEF IInv, FreezeInv, TableInv, Suspends, Once, Thawed, Vector, Failed, queue_count, Stopped, Down, Later, Contexts
<1>6. NsInv' BY <1>0 DEF IInv, NsInv, HeldInv, Used, Serving, Mapped, Unmapped, Down, Later
<1>7. ContextInv' BY Zenon, <1>0 DEF IInv, ContextInv, ContextsHaveQueues, Failed
<1>8. TableInv'
  BY Zenon, <1>0 DEF IInv, TableInv, Suspends, Vector, queue_count, Stopped, Down, First, Later
<1>9. CountInv'
  BY Zenon, <1>0
  DEF IInv, CountInv, TableInv, Exact, Counts, Idle, Ready, Suspends, Vector, Failed, queue_count, Stopped, Down
<1>10. CtrlInv' BY Zenon, <1>0 DEF IInv, CtrlInv, Failed, queue_count, First
<1>11. OnlineInv'
  BY Zenon, <1>0 DEF IInv, OnlineInv, Low, Begun, Slack, Running0, Suspends, Vector, queue_count
<1>12. HandlerInv'
  BY Zenon, <1>0
  DEF IInv, HandlerInv, TableInv, Handled, Suspends, Vector, Failed, queue_count, Stopped, Down
<1> QED BY Zenon, <1>2, <1>3, <1>4, <1>5, <1>6, <1>7, <1>8, <1>9, <1>10, <1>11, <1>12 DEF IInv

\* nvme_setup_io_queues: the admin command fails, the controller gives no
\* queues, the registers or the admin handler are lost, or there are vectors.
LEMMA SetupIoStep ==
  ASSUME IInv, nvme_setup_io_queues
  PROVE  IInv'
<1>0. /\ pc = "io" /\ dev.oops = "no" /\ why' = why /\ why \in Reasons
      /\ dev \in Device /\ max_qid \in 0 .. MaxQueues /\ 0 \in Contexts
      /\ queue_count(dev) <= MaxQueues + 1 /\ queue_count(dev) \in Nat
      /\ dev.online \in 0 .. UINT - 1 /\ ~BadAdmin(dev) /\ dev.cqs = {}
  <2>1. dev \in Device BY Zenon DEF IInv, TypeInv
  <2>2. dev.online \in 0 .. UINT - 1 /\ queue_count(dev) \in Nat
    BY SMT, Z3, <2>1 DEF Device, queue_count
  <2>3. pc = "io" /\ dev.oops = "no" /\ why' = why
    BY Zenon DEF nvme_setup_io_queues, Running
  <2> QED BY SMT, Z3, <2>1, <2>2, <2>3, DeviceAssumption
          DEF IInv, TypeInv, AdminInv, CtrlInv, First, Contexts
<1>t. /\ queue_count(dev) > 0 /\ Vector(dev, 0) # -1 /\ Suspends(Contexts \ {0}) /\ dev.irqs = {0}
  BY SMT, Z3, <1>0 DEF IInv, TableInv, First, Suspends, Device
<1>l. (\E i \in Contexts : dev.ctx[i] = "stale") => Failed(Losses)
  BY Zenon, <1>0 DEF IInv, ContextInv
<1> DEFINE d == OopsIf(dev, dev.ctx[0] = "stale", "context")
           Rest == /\ dev' \in Device /\ dev.failed \subseteq dev'.failed
                   /\ dev'.online = dev.online /\ dev'.spurious = dev.spurious
                   /\ CtrlSame(dev', dev) /\ AdminSame(dev', dev)
                   /\ dev'.ns_frozen = dev.ns_frozen /\ max_qid' \in 0 .. MaxQueues
                   /\ queue_count(dev') \in 1 .. queue_count(dev)
                   /\ \A k \in 1 .. queue_count(dev') : dev'.queues[k] = dev.queues[k]
                   /\ \A i \in Contexts : dev'.ctx[i] = dev.ctx[i] \/
                         (dev.ctx[i] = "bound" /\ dev'.ctx[i] = "stale" /\ dev'.failed \cap Losses # {})
                   /\ \A r \in Resources \ {"bar"} : dev'.held[r] = dev.held[r]
                   /\ dev'.oops = "context" => dev.ctx[0] = "stale"
           Mends == /\ pc' = "free_tags" /\ dev'.oops # "index"
                    /\ \/ dev'.held["bar"] = dev.held["bar"]
                       \/ dev'.held["bar"] = dev.held["bar"] - 1 /\ "remap" \in dev'.failed
                    /\ \/ dev'.irqs = {0}
                       \/ dev'.irqs = {} /\ "admin_irq" \in dev'.failed
           NoQueues == /\ pc' = "started" /\ dev'.held["bar"] = dev.held["bar"] /\ dev'.irqs = {0}
                       /\ "no_queues" \in dev'.failed /\ queue_count(dev') = queue_count(dev)
                       /\ IF dev.online > queue_count(dev)
                          THEN dev'.oops # "no" ELSE dev'.oops # "index"
           Vectors == /\ pc' = "alloc" /\ dev'.held["bar"] = dev.held["bar"] /\ dev'.irqs = {0}
                      /\ dev'.oops # "index"
<1>r. "bar" \in Resources /\ dev.held["bar"] \in Int /\ Failed(Losses) = (dev.failed \cap Losses # {})
  BY Zenon, <1>0 DEF Resources, Device, Failed
<1>1. Rest /\ dev'.oops # "admin_q" /\ (Mends \/ NoQueues \/ Vectors)
  <2>d. /\ d \in Device /\ d.oops \in {"no", "context"}
        /\ d.oops = "context" => dev.ctx[0] = "stale"
        /\ d.spurious = dev.spurious /\ d.failed = dev.failed /\ queue_count(d) = queue_count(dev)
        /\ HeldSame(d, dev) /\ TableSame(d, dev) /\ CtrlSame(d, dev) /\ AdminSame(d, dev)
        /\ NsSame(d, dev)
    <3> DEFINE b == dev.ctx[0] = "stale"
    <3>1. b \in BOOLEAN /\ d = OopsIf(dev, b, "context") BY Zenon
    <3> HIDE DEF b, d
    <3>2. /\ d \in Device /\ d.oops = IF dev.oops = "no" /\ b THEN "context" ELSE dev.oops
          /\ d.spurious = dev.spurious /\ d.failed = dev.failed
          /\ HeldSame(d, dev) /\ TableSame(d, dev) /\ CtrlSame(d, dev) /\ AdminSame(d, dev)
          /\ NsSame(d, dev)
      BY Zenon, <1>0, <3>1, OopsIs
    <3> QED BY Zenon, <1>0, <3>2 DEF b, TableSame, queue_count
  <2>1. CASE Goto(Fail(dev, "set_features"), "free_tags") /\ UNCHANGED max_qid
    <3>1. /\ dev' \in Device /\ dev'.failed = dev.failed \cup {"set_features"}
          /\ dev'.spurious = dev.spurious /\ dev'.oops = dev.oops
          /\ HeldSame(dev', dev) /\ TableSame(dev', dev) /\ CtrlSame(dev', dev)
          /\ AdminSame(dev', dev) /\ NsSame(dev', dev)
      BY Zenon, <1>0, <2>1, FailIs, CallNames DEF Goto
    <3>2. Rest BY SMT, Z3, <1>0, <1>t, <2>1, <3>1 DEF HeldSame, TableSame, NsSame, queue_count
    <3>3. Mends BY Zenon, <1>0, <1>t, <2>1, <3>1 DEF Goto, HeldSame, TableSame
    <3> QED BY Zenon, <1>0, <3>1, <3>2, <3>3
  <2> HIDE DEF d
  <2>2. CASE Goto(nvme_set_irq_hints(Fail(d, "no_queues")), "started") /\ UNCHANGED max_qid
    <3> DEFINE f == Fail(d, "no_queues")
               b == f.online > queue_count(f)
    <3>1. /\ f \in Device /\ f.failed = d.failed \cup {"no_queues"}
          /\ f.spurious = d.spurious /\ f.oops = d.oops
          /\ HeldSame(f, d) /\ TableSame(f, d) /\ CtrlSame(f, d) /\ AdminSame(f, d) /\ NsSame(f, d)
      BY Zenon, <2>d, FailIs, CallNames
    <3>2. dev' = OopsIf(f, b, "index") /\ pc' = "started" /\ max_qid' = max_qid
      BY Zenon, <2>2 DEF Goto, nvme_set_irq_hints
    <3>3. b \in BOOLEAN BY SMT, Z3
    <3> HIDE DEF f, b
    <3>4. /\ dev' \in Device /\ dev'.oops = IF f.oops = "no" /\ b THEN "index" ELSE f.oops
          /\ dev'.spurious = f.spurious /\ dev'.failed = f.failed
          /\ HeldSame(dev', f) /\ TableSame(dev', f) /\ CtrlSame(dev', f) /\ AdminSame(dev', f)
          /\ NsSame(dev', f)
      BY Zenon, <3>1, <3>2, <3>3, OopsIs
    <3>5. HeldSame(dev', dev) /\ TableSame(dev', dev) /\ CtrlSame(dev', dev)
          /\ AdminSame(dev', dev) /\ NsSame(dev', dev) /\ dev'.spurious = dev.spurious
          /\ dev'.failed = dev.failed \cup {"no_queues"}
          /\ queue_count(dev') = queue_count(dev) /\ b = (dev.online > queue_count(dev))
      BY Zenon, <2>d, <3>1, <3>4
      DEF HeldSame, TableSame, CtrlSame, AdminSame, NsSame, queue_count, b
    <3>6. Rest BY SMT, Z3, <1>0, <1>t, <2>d, <3>1, <3>2, <3>4, <3>5 DEF HeldSame, TableSame, NsSame
    <3>7. NoQueues BY Zenon, <1>t, <2>d, <3>1, <3>2, <3>4, <3>5 DEF HeldSame, TableSame
    <3> QED BY Zenon, <2>d, <3>1, <3>4, <3>6, <3>7
  <2>3. CASE Goto(Fail(Drop(d, {"bar"}), "remap"), "free_tags") /\ UNCHANGED max_qid
    <3> DEFINE f == Drop(d, {"bar"})
    <3>1. /\ f \in Device /\ Moved(f, d, {"bar"}, -1)
          /\ TableSame(f, d) /\ CtrlSame(f, d) /\ AdminSame(f, d) /\ NsSame(f, d) /\ LogSame(f, d)
      BY Zenon, <2>d, DropIs
    <3>2. dev' = Fail(f, "remap") /\ pc' = "free_tags" /\ max_qid' = max_qid
      BY Zenon, <2>3 DEF Goto
    <3> HIDE DEF f
    <3>3. /\ dev' \in Device /\ dev'.failed = f.failed \cup {"remap"}
          /\ dev'.spurious = f.spurious /\ dev'.oops = f.oops
          /\ HeldSame(dev', f) /\ TableSame(dev', f) /\ CtrlSame(dev', f) /\ AdminSame(dev', f)
          /\ NsSame(dev', f)
      BY Zenon, <3>1, <3>2, FailIs, CallNames
    <3>4. TableSame(dev', dev) /\ CtrlSame(dev', dev) /\ AdminSame(dev', dev) /\ NsSame(dev', dev)
          /\ dev'.spurious = dev.spurious /\ dev'.failed = dev.failed \cup {"remap"}
          /\ queue_count(dev') = queue_count(dev) /\ dev'.oops = d.oops
          /\ Moved(dev', dev, {"bar"}, -1)
      BY SMT, Z3, <2>d, <3>1, <3>3
      DEF HeldSame, TableSame, CtrlSame, AdminSame, NsSame, LogSame, queue_count, Moved
    <3>5. Rest BY SMT, Z3, <1>0, <1>t, <2>d, <3>2, <3>3, <3>4 DEF TableSame, NsSame, Moved
    <3>6. dev'.held["bar"] = dev.held["bar"] - 1 BY Zenon, <1>r, <3>4 DEF Moved
    <3>7. Mends BY Zenon, <1>t, <2>d, <3>2, <3>4, <3>6 DEF TableSame
    <3> QED BY Zenon, <2>d, <3>4, <3>5, <3>7
  <2> DEFINE e == [d EXCEPT !.irqs = @ \ {0}]
  <2>4. CASE Goto(Fail(nvme_free_queues(e, 1), "admin_irq"), "free_tags") /\ max_qid' \in 1 .. MaxQueues
    <3> DEFINE s == d.irqs \ {0}
               f == nvme_free_queues(e, 1)
    <3>0. s \in SUBSET Contexts /\ s = {} BY Zenon, <1>t, <2>d DEF TableSame
    <3>1. e = [d EXCEPT !.irqs = s] BY Zenon
    <3> HIDE DEF s, e
    <3>2. /\ e \in Device /\ e.irqs = {} /\ e.queues = d.queues /\ e.online = d.online
          /\ HeldSame(e, d) /\ CtrlSame(e, d) /\ AdminSame(e, d) /\ NsSame(e, d) /\ LogSame(e, d)
      BY Zenon, <2>d, <3>0, <3>1 DEF Device, HeldSame, CtrlSame, AdminSame, NsSame, LogSame
    <3>3. /\ f \in Device
          /\ queue_count(f) = IF 1 < queue_count(e) THEN 1 ELSE queue_count(e)
          /\ \A k \in 1 .. queue_count(f) : f.queues[k] = e.queues[k]
          /\ \A i \in Contexts :
               f.ctx[i] = IF i >= 1 /\ i < queue_count(e) /\ e.ctx[i] = "bound"
                          THEN "stale" ELSE e.ctx[i]
          /\ HeldSame(f, e) /\ CtrlSame(f, e) /\ AdminSame(f, e) /\ LogSame(f, e)
          /\ f.online = e.online /\ f.irqs = e.irqs /\ f.ns_frozen = e.ns_frozen
      BY Zenon, <3>2, FreeQueuesIs
    <3>4. dev' = Fail(f, "admin_irq") /\ pc' = "free_tags" BY Zenon, <2>4 DEF Goto
    <3> HIDE DEF f
    <3>5. /\ dev' \in Device /\ dev'.failed = f.failed \cup {"admin_irq"}
          /\ dev'.spurious = f.spurious /\ dev'.oops = f.oops
          /\ HeldSame(dev', f) /\ TableSame(dev', f) /\ CtrlSame(dev', f) /\ AdminSame(dev', f)
          /\ NsSame(dev', f)
      BY Zenon, <3>3, <3>4, FailIs, CallNames
    <3>6. queue_count(e) = queue_count(dev) /\ queue_count(dev') = queue_count(f)
      BY Zenon, <2>d, <3>2, <3>5 DEF TableSame, queue_count
    <3>7. dev'.failed \cap Losses # {} /\ "admin_irq" \in dev'.failed BY Zenon, <3>5 DEF Losses
    <3>8. \A i \in Contexts : dev'.ctx[i] = dev.ctx[i] \/
                 (dev.ctx[i] = "bound" /\ dev'.ctx[i] = "stale" /\ dev'.failed \cap Losses # {})
      BY SMT, Z3, <2>d, <3>2, <3>3, <3>5, <3>7 DEF NsSame
    <3>9. /\ queue_count(dev') = 1 /\ dev'.queues[1] = dev.queues[1]
      BY SMT, Z3, <1>0, <1>t, <2>d, <3>2, <3>3, <3>5, <3>6 DEF TableSame
    <3>10. /\ HeldSame(dev', dev) /\ CtrlSame(dev', dev) /\ AdminSame(dev', dev)
           /\ dev'.failed = dev.failed \cup {"admin_irq"} /\ dev'.spurious = dev.spurious
           /\ dev'.oops = d.oops /\ dev'.ns_frozen = dev.ns_frozen /\ dev'.online = dev.online
           /\ dev'.irqs = {}
      <4>1. HeldSame(dev', dev) /\ CtrlSame(dev', dev) /\ AdminSame(dev', dev)
        BY SMT, Z3, <2>d, <3>2, <3>3, <3>5 DEF HeldSame, CtrlSame, AdminSame
      <4>2. /\ dev'.failed = dev.failed \cup {"admin_irq"} /\ dev'.spurious = dev.spurious
            /\ dev'.oops = d.oops
        BY SMT, Z3, <2>d, <3>2, <3>3, <3>5 DEF LogSame
      <4>3. dev'.ns_frozen = dev.ns_frozen /\ dev'.online = dev.online /\ dev'.irqs = {}
        BY SMTT(20), Z3, <2>d, <3>2, <3>3, <3>5 DEF TableSame, NsSame
      <4> QED BY Zenon, <4>1, <4>2, <4>3
    <3>11. Rest BY SMT, Z3, <1>0, <1>t, <2>4, <2>d, <3>5, <3>8, <3>9, <3>10 DEF HeldSame
    <3>12. Mends BY Zenon, <2>d, <3>4, <3>7, <3>10 DEF HeldSame
    <3> QED BY Zenon, <2>d, <3>10, <3>11, <3>12
  <2>5. ASSUME NEW vecs \in 1 .. MaxQueues, max_qid' = vecs,
               Goto(nvme_free_queues(IF vecs + 1 < queue_count(d) THEN Fail(d, "fewer_vectors")
                                     ELSE d, vecs + 1), "alloc")
        PROVE  Rest /\ dev'.oops # "admin_q" /\ Vectors
    <3> DEFINE f == IF vecs + 1 < queue_count(d) THEN Fail(d, "fewer_vectors") ELSE d
    <3>1. /\ f \in Device /\ d.failed \subseteq f.failed
          /\ vecs + 1 < queue_count(d) => "fewer_vectors" \in f.failed
          /\ f.spurious = d.spurious /\ f.oops = d.oops
          /\ HeldSame(f, d) /\ TableSame(f, d) /\ CtrlSame(f, d) /\ AdminSame(f, d) /\ NsSame(f, d)
      <4>1. CASE vecs + 1 < queue_count(d)
        <5>1. f = Fail(d, "fewer_vectors") BY Zenon, <4>1
        <5> HIDE DEF f
        <5>2. /\ f \in Device /\ f.failed = d.failed \cup {"fewer_vectors"}
              /\ f.spurious = d.spurious /\ f.oops = d.oops
              /\ HeldSame(f, d) /\ TableSame(f, d) /\ CtrlSame(f, d) /\ AdminSame(f, d) /\ NsSame(f, d)
          BY Zenon, <2>d, <5>1, FailIs, CallNames
        <5> QED BY Zenon, <5>2
      <4>2. CASE ~(vecs + 1 < queue_count(d))
        <5>1. f = d BY Zenon, <4>2
        <5> HIDE DEF f
        <5> QED BY Zenon, <2>d, <4>2, <5>1 DEF HeldSame, TableSame, CtrlSame, AdminSame, NsSame
      <4> QED BY Zenon, <4>1, <4>2
    <3>2. dev' = nvme_free_queues(f, vecs + 1) /\ pc' = "alloc" /\ vecs + 1 \in Nat
      BY SMT, Z3, <2>5 DEF Goto
    <3> HIDE DEF f
    <3>3. /\ dev' \in Device
          /\ queue_count(dev') = IF vecs + 1 < queue_count(f) THEN vecs + 1 ELSE queue_count(f)
          /\ \A k \in 1 .. queue_count(dev') : dev'.queues[k] = f.queues[k]
          /\ \A i \in Contexts :
               dev'.ctx[i] = IF i >= vecs + 1 /\ i < queue_count(f) /\ f.ctx[i] = "bound"
                             THEN "stale" ELSE f.ctx[i]
          /\ HeldSame(dev', f) /\ CtrlSame(dev', f) /\ AdminSame(dev', f) /\ LogSame(dev', f)
          /\ dev'.online = f.online /\ dev'.irqs = f.irqs /\ dev'.ns_frozen = f.ns_frozen
      BY Zenon, <3>1, <3>2, FreeQueuesIs
    <3>4. queue_count(f) = queue_count(dev) /\ queue_count(d) = queue_count(dev)
      BY Zenon, <2>d, <3>1 DEF TableSame, queue_count
    <3>5. vecs + 1 < queue_count(dev) => dev'.failed \cap Losses # {}
      BY Zenon, <3>1, <3>3, <3>4 DEF Losses, LogSame
    <3>6. \A i \in Contexts : dev'.ctx[i] = dev.ctx[i] \/
                 (dev.ctx[i] = "bound" /\ dev'.ctx[i] = "stale" /\ dev'.failed \cap Losses # {})
      <4> SUFFICES ASSUME NEW i \in Contexts
                   PROVE  dev'.ctx[i] = dev.ctx[i] \/
                 (dev.ctx[i] = "bound" /\ dev'.ctx[i] = "stale" /\ dev'.failed \cap Losses # {})
        BY Zenon
      <4>1. i \in Int /\ f.ctx[i] = dev.ctx[i] BY SMT, Z3, <2>d, <3>1 DEF NsSame, Contexts
      <4> QED BY SMT, Z3, <1>0, <3>3, <3>4, <3>5, <4>1
    <3>7. /\ queue_count(dev') \in 1 .. queue_count(dev)
          /\ \A k \in 1 .. queue_count(dev') : dev'.queues[k] = dev.queues[k]
      BY SMT, Z3, <1>0, <1>t, <2>d, <3>1, <3>3, <3>4 DEF TableSame
    <3>10. /\ HeldSame(dev', dev) /\ CtrlSame(dev', dev) /\ AdminSame(dev', dev)
           /\ dev.failed \subseteq dev'.failed /\ dev'.spurious = dev.spurious
           /\ dev'.oops = d.oops /\ dev'.ns_frozen = dev.ns_frozen /\ dev'.online = dev.online
           /\ dev'.irqs = {0}
      BY Zenon, <1>t, <2>d, <3>1, <3>3 DEF HeldSame, TableSame, CtrlSame, AdminSame, NsSame, LogSame
    <3>m. max_qid' \in 0 .. MaxQueues BY SMT, Z3, <2>5
    <3>11. Rest BY Zenon, <2>d, <3>3, <3>6, <3>7, <3>10, <3>m DEF HeldSame
    <3>12. Vectors BY Zenon, <2>d, <3>2, <3>10 DEF HeldSame
    <3> QED BY Zenon, <2>d, <3>10, <3>11, <3>12
  <2> QED BY Zenon, <2>1, <2>2, <2>3, <2>4, <2>5 DEF nvme_setup_io_queues, d
<1> HIDE DEF d
<1>m. \A S : Failed(S) => Failed(S)' BY Zenon, <1>1, FailedMono
<1>h. /\ dev' \in Device /\ dev'.online = dev.online /\ dev'.spurious = dev.spurious
      /\ dev'.cqs = {} /\ dev'.admin_q = dev.admin_q /\ dev'.frozen = dev.frozen
      /\ dev'.ns_frozen = dev.ns_frozen /\ pc' \in {"free_tags", "started", "alloc"}
      /\ dev'.oops \in {"no", "context", "index"}
      /\ \A r \in Resources \ {"bar"} : dev'.held[r] = dev.held[r]
  BY Zenon, <1>0, <1>1 DEF CtrlSame, AdminSame, Device
<1>q. /\ queue_count(dev') \in 1 .. queue_count(dev)
      /\ \A i \in Contexts : i < queue_count(dev') =>
            /\ Vector(dev', i) = Vector(dev, i)
            /\ dev'.queues[i + 1] = dev.queues[i + 1]
  <2>1. \A i \in Contexts : i < queue_count(dev') => i + 1 \in 1 .. queue_count(dev')
    BY SMT, Z3, <1>0, <1>1 DEF Contexts
  <2> QED BY Zenon, <1>1, <2>1 DEF Vector
<1>s. (\E i \in Contexts : dev'.ctx[i] = "stale") => Failed(Losses)'
  BY Zenon, <1>1, <1>l, <1>m DEF Failed
<1>c. dev'.oops = "context" => Failed(Losses)' BY Zenon, <1>0, <1>1, <1>l, <1>m
<1>v. Vector(dev', 0) # -1 /\ Suspends(Contexts \ {0})'
  <2>1. \A i \in Contexts : i \in Nat BY SMT, Z3 DEF Contexts
  <2>2. Vector(dev', 0) # -1 BY SMT, Z3, <1>0, <1>t, <1>q
  <2>3. Suspends(Contexts \ {0})' BY SMT, Z3, <1>0, <1>t, <1>q, <2>1 DEF Suspends
  <2> QED BY Zenon, <2>2, <2>3
<1>2. TypeInv' BY SMT, Z3, <1>0, <1>1, <1>h, <1>q, DeviceAssumption DEF TypeInv, Places, First, Later
<1>3. HeldInv'
  <2>1. /\ \A r \in Base : dev.held[r] = 1
        /\ dev.held["tagset"] \in 0 .. 1 /\ dev.held["ns"] \in 0 .. 1
        /\ why = "probe" => dev.held["tagset"] = 0 /\ dev.held["ns"] = 0
        /\ Mapped(dev)
    BY Zenon, <1>0 DEF IInv, HeldInv, First
  <2>2. dev'.held["pci_enabled"] = 1 /\ dev'.held["regions"] = 1
    BY Zenon, <1>h, <2>1 DEF Mapped, Resources
  <2>3. pc' = "free_tags" => dev'.held["bar"] = 1 \/ (dev'.held["bar"] = 0 /\ "remap" \in dev'.failed)
    BY SMT, Z3, <1>1, <2>1 DEF Mapped
  <2>4. pc' # "free_tags" => dev'.held["bar"] = 1 BY Zenon, <1>1, <2>1 DEF Mapped
  <2> QED BY SMT, Z3, <1>0, <1>h, <2>1, <2>2, <2>3, <2>4
          DEF HeldInv, Base, Resources, Down, First, Later, Mapped, AllReleased
<1>4. AdminInv' BY Zenon, <1>0, <1>h DEF IInv, AdminInv, BadAdmin, AdminQueueValid, Resources
<1>5. FreezeInv' BY Zenon, <1>0, <1>h, <1>m DEF IInv, FreezeInv, Thawed, Stopped, Down, Later
<1>6. NsInv'
  <2>1. Used' => Used BY Zenon, <1>1 DEF Used
  <2> QED BY Zenon, <1>0, <1>h, <2>1 DEF IInv, NsInv, Serving, Resources
<1>7. ContextInv'
  <2>1. dev'.oops = "context" =>
          Failed({"enable_ctrl", "admin_irq", "no_queues", "create", "fewer_vectors"})'
    BY Zenon, <1>c DEF Losses
  <2>2. pc' = "started" => Failed({"create", "no_queues"})' BY Zenon, <1>1, HasFailed
  <2> QED BY Zenon, <1>s, <2>1, <2>2 DEF ContextInv, ContextsHaveQueues
<1>8. TableInv'
  <2>1. pc' = "free_tags" => 0 \in dev'.irqs \/ Failed({"admin_irq"})' BY Zenon, <1>1, HasFailed
  <2>2. dev'.irqs = {0} \/ (dev'.irqs = {} /\ pc' = "free_tags") BY Zenon, <1>1
  <2> QED BY SMT, Z3, <1>h, <1>q, <1>v, <2>1, <2>2 DEF TableInv, Stopped, Down, First, Later
<1>9. CountInv'
  <2> SUFFICES ASSUME Exact' PROVE CountInv' BY Zenon DEF CountInv
  <2>1. dev.online = 1 /\ Ready(0) /\ Idle(Contexts \ {0})
    BY Zenon, <1>0, <1>m DEF IInv, CountInv, Exact
  <2>0. \A i \in Contexts : i \in Nat BY SMT, Z3 DEF Contexts
  <2>2. Ready(0)' /\ Idle(Contexts \ {0})' BY SMT, Z3, <1>0, <1>q, <2>0, <2>1 DEF Idle, Ready
  <2>3. dev'.oops # "index" BY SMT, Z3, <1>0, <1>1, <1>t, <2>1
  <2>4. \A i \in Contexts : i < dev'.online <=> i = 0 BY SMT, Z3, <1>h, <2>1 DEF Contexts
  <2>5. pc' = "started" => dev'.irqs = 0 .. dev'.online - 1 BY SMT, Z3, <1>1, <1>h, <2>1
  <2>6. dev'.online = 1 BY Zenon, <1>h, <2>1
  <2>7. \A i \in Contexts : i < queue_count(dev') =>
          (Vector(dev', i) # -1 <=> i < dev'.online) /\ (Ready(i)' <=> i < dev'.online)
    BY Zenon, <1>v, <2>2, <2>4 DEF Suspends, Idle
  <2>8. pc' = "started" => Counts' BY SMT, Z3, <1>q, <2>5, <2>6, <2>7 DEF Counts
  <2> QED BY Zenon, <1>h, <2>2, <2>3, <2>4, <2>6, <2>8 DEF CountInv, Stopped, Down
<1>10. CtrlInv' BY Zenon, <1>h DEF CtrlInv
<1>11. OnlineInv'
  <2>1. Begun(Slack) /\ Slack' = Slack /\ Slack \in Nat /\ Slack <= MaxQueues + 2
    BY SMT, Z3, <1>0, DeviceAssumption DEF IInv, OnlineInv, Slack
  <2>2. pc' = "started" /\ dev'.oops = "no" => Running0'
    <3> SUFFICES ASSUME pc' = "started", dev'.oops = "no" PROVE Running0' BY Zenon
    <3>1. dev.online <= queue_count(dev) /\ queue_count(dev') = queue_count(dev) BY SMT, Z3, <1>1, <1>0
    <3>2. dev.online \in {0, 1} BY SMT, Z3, <1>0, <2>1, <3>1, DeviceAssumption DEF Begun
    <3>3. \A i \in Contexts : i < dev.online => i = 0 BY SMT, Z3, <3>2 DEF Contexts
    <3> QED BY Zenon, <1>h, <1>v, <3>1, <3>3 DEF Running0
  <2> QED BY Zenon, <1>h, <2>1, <2>2 DEF OnlineInv, Begun
<1>12. HandlerInv'
  <2>1. pc' = "started" => Handled'
    BY Zenon, <1>1, <1>v DEF Handled, Suspends
  <2> QED BY Zenon, <1>0, <1>h, <1>m, <2>1 DEF IInv, HandlerInv
<1> QED BY Zenon, <1>2, <1>3, <1>4, <1>5, <1>6, <1>7, <1>8, <1>9, <1>10, <1>11, <1>12 DEF IInv

\* A queue is allocated, cannot be, or there are enough.
LEMMA AllocStep ==
  ASSUME IInv, AllocQueues
  PROVE  IInv'
<1>0. /\ pc = "alloc" /\ dev.oops = "no" /\ why' = why /\ why \in Reasons /\ max_qid' = max_qid
      /\ dev \in Device /\ max_qid \in 0 .. MaxQueues /\ 0 \in Contexts
      /\ queue_count(dev) <= MaxQueues + 1 /\ queue_count(dev) \in Nat
      /\ dev.online \in 0 .. UINT - 1 /\ ~BadAdmin(dev) /\ dev.cqs = {}
  BY SMT, Z3, DeviceAssumption
  DEF AllocQueues, Running, IInv, TypeInv, AdminInv, CtrlInv, Contexts, queue_count, Device
<1>t. /\ queue_count(dev) > 0 /\ Vector(dev, 0) # -1 /\ dev.irqs = {0}
  BY Zenon, <1>0 DEF IInv, TableInv, Later
<1> DEFINE Longer == /\ pc' = "alloc" /\ queue_count(dev') = queue_count(dev) + 1
                     /\ queue_count(dev) <= MaxQueues
                     /\ ~dev'.queues[queue_count(dev')].ready
           Kept == pc' = "create" /\ queue_count(dev') = queue_count(dev)
<1>1. /\ dev' \in Device /\ dev.failed \subseteq dev'.failed /\ (Longer \/ Kept)
      /\ \A k \in 1 .. queue_count(dev) : dev'.queues[k] = dev.queues[k]
      /\ HeldSame(dev', dev) /\ CtrlSame(dev', dev) /\ AdminSame(dev', dev) /\ NsSame(dev', dev)
      /\ dev'.spurious = dev.spurious /\ dev'.oops = "no"
      /\ dev'.online = dev.online /\ dev'.irqs = dev.irqs
  <2>1. CASE queue_count(dev) <= max_qid /\ Goto(nvme_alloc_queue(dev), "alloc")
    <3>1. /\ dev' \in Device /\ queue_count(dev') = queue_count(dev) + 1
          /\ \A k \in 1 .. queue_count(dev) : dev'.queues[k] = dev.queues[k]
          /\ ~dev'.queues[queue_count(dev')].ready
          /\ HeldSame(dev', dev) /\ CtrlSame(dev', dev) /\ AdminSame(dev', dev)
          /\ NsSame(dev', dev) /\ LogSame(dev', dev) /\ dev'.online = dev.online
          /\ dev'.irqs = dev.irqs
      BY Zenon, <1>0, <2>1, AllocQueueIs DEF Goto
    <3>2. Longer BY SMT, Z3, <1>0, <2>1, <3>1, DeviceAssumption DEF Goto
    <3> QED BY Zenon, <1>0, <3>1, <3>2 DEF LogSame
  <2>2. CASE Goto(Fail(dev, "alloc_queue"), "create")
    <3>1. /\ dev' \in Device /\ dev'.failed = dev.failed \cup {"alloc_queue"}
          /\ dev'.spurious = dev.spurious /\ dev'.oops = dev.oops
          /\ HeldSame(dev', dev) /\ TableSame(dev', dev) /\ CtrlSame(dev', dev)
          /\ AdminSame(dev', dev) /\ NsSame(dev', dev)
      BY Zenon, <1>0, <2>2, FailIs, CallNames DEF Goto
    <3> QED BY Zenon, <1>0, <2>2, <3>1 DEF Goto, TableSame, queue_count
  <2>3. CASE Goto(dev, "create")
    BY Zenon, <1>0, <2>3 DEF Goto, queue_count, HeldSame, CtrlSame, AdminSame, NsSame
  <2> QED BY Zenon, <2>1, <2>2, <2>3 DEF AllocQueues
<1>m. \A S : Failed(S) => Failed(S)' BY Zenon, <1>1, FailedMono
<1>h. /\ dev'.held = dev.held /\ dev'.cqs = {} /\ dev'.admin_q = dev.admin_q
      /\ dev'.frozen = dev.frozen /\ dev'.ns_frozen = dev.ns_frozen /\ dev'.ctx = dev.ctx
      /\ pc' \in {"alloc", "create"} /\ queue_count(dev') \in Nat /\ queue_count(dev') > 0
      /\ queue_count(dev') <= MaxQueues + 1 /\ queue_count(dev) <= queue_count(dev')
      /\ Vector(dev', 0) # -1 /\ dev'.irqs = {0}
  BY SMT, Z3, <1>0, <1>t, <1>1, DeviceAssumption DEF HeldSame, CtrlSame, AdminSame, NsSame, Vector
<1>2. TypeInv' BY Zenon, <1>0, <1>1, <1>h DEF TypeInv, Places, Later
<1>3. HeldInv' BY Zenon, <1>0, <1>h DEF IInv, HeldInv, Down, First, Later, Mapped, AllReleased
<1>4. AdminInv' BY Zenon, <1>0, <1>1, <1>h DEF IInv, AdminInv, BadAdmin, AdminQueueValid
<1>5. FreezeInv' BY Zenon, <1>0, <1>h, <1>m DEF IInv, FreezeInv, Thawed, Stopped, Down, Later
<1>6. NsInv' BY Zenon, <1>0, <1>h DEF IInv, NsInv, Used, Serving
<1>7. ContextInv' BY Zenon, <1>0, <1>1, <1>h, <1>m DEF IInv, ContextInv, ContextsHaveQueues
<1>8. TableInv' BY Zenon, <1>h DEF TableInv, Stopped, Down, First, Later
<1>9. CountInv'
  <2> SUFFICES ASSUME Exact' PROVE CountInv' BY Zenon DEF CountInv
  <2>1. dev.online = 1 /\ Ready(0) /\ Idle(Contexts \ {0})
    BY Zenon, <1>0, <1>m DEF IInv, CountInv, Exact
  <2>2. Ready(0)' BY SMT, Z3, <1>0, <1>1, <1>t, <2>1 DEF Ready
  <2>3. Idle(Contexts \ {0})'
    <3> SUFFICES ASSUME NEW i \in Contexts \ {0}, i < queue_count(dev')
                 PROVE  ~dev'.queues[i + 1].ready
      BY Zenon DEF Idle, Ready
    <3>1. i \in Nat BY SMT, Z3 DEF Contexts
    <3>2. CASE i < queue_count(dev) BY SMT, Z3, <1>0, <1>1, <2>1, <3>1, <3>2 DEF Idle, Ready
    <3>3. CASE i >= queue_count(dev)
      <4>1. Longer BY SMT, Z3, <1>0, <1>1, <3>1, <3>3
      <4>2. i + 1 = queue_count(dev') BY SMT, Z3, <1>0, <3>1, <3>3, <4>1
      <4> QED BY Zenon, <4>1, <4>2
    <3> QED BY SMT, Z3, <1>0, <3>1, <3>2, <3>3
  <2>4. \A i \in Contexts : i < dev'.online <=> i = 0 BY SMT, Z3, <1>1, <2>1 DEF Contexts
  <2>6. dev'.online = 1 /\ dev'.irqs = 0 .. dev'.online - 1 BY SMT, Z3, <1>h, <1>1, <2>1
  <2>7. \A i \in Contexts : i < queue_count(dev') =>
          /\ i < dev'.online => Vector(dev', i) # -1
          /\ Ready(i)' <=> i < dev'.online
    BY Zenon, <1>h, <2>2, <2>3, <2>4 DEF Idle
  <2> QED BY SMT, Z3, <1>1, <1>h, <2>2, <2>3, <2>4, <2>6, <2>7 DEF CountInv, Stopped, Down
<1>10. CtrlInv' BY Zenon, <1>h DEF CtrlInv
<1>b. Begun(Slack) /\ Slack' = Slack /\ Slack \in Nat /\ Slack <= MaxQueues + 2
  BY SMT, Z3, <1>0, DeviceAssumption DEF IInv, OnlineInv, Slack
<1>11. OnlineInv' BY Zenon, <1>1, <1>h, <1>b DEF OnlineInv, Begun
<1>12. HandlerInv'
  <2>1. \/ dev'.online = 0 \/ dev'.online > queue_count(dev')
        \/ dev'.online = 1
    BY SMT, Z3, <1>0, <1>1, <1>h, <1>b, DeviceAssumption DEF Begun
  <2>2. dev'.online = 1 => dev'.online \in 1 .. queue_count(dev') /\ dev'.irqs = 0 .. dev'.online - 1
    BY SMT, Z3, <1>h
  <2> QED BY Zenon, <1>0, <1>1, <1>h, <1>m, <2>1, <2>2 DEF IInv, HandlerInv
<1> QED BY Zenon, <1>2, <1>3, <1>4, <1>5, <1>6, <1>7, <1>8, <1>9, <1>10, <1>11, <1>12 DEF IInv

\* What the admin commands for queue i may change.
Asked(e, d, i) ==
  /\ e \in Device /\ d.failed \subseteq e.failed
  /\ e.cqs \subseteq d.cqs \cup {i} /\ d.sqs \subseteq e.sqs \cup {i}
  /\ e.spurious = d.spurious /\ e.oops = d.oops
  /\ HeldSame(e, d) /\ TableSame(e, d) /\ AdminSame(e, d) /\ NsSame(e, d)

\* Two commands for the queue change no more than one.
LEMMA AskedTwice ==
  ASSUME NEW d, NEW e, NEW f, NEW i, Asked(e, d, i), Asked(f, e, i)
  PROVE  Asked(f, d, i)
  BY Zenon DEF Asked, HeldSame, TableSame, AdminSame, NsSame

\* A command that fails changes neither queue.
LEMMA FailAsked ==
  ASSUME NEW d \in Device, NEW call \in Calls, NEW i
  PROVE  Asked(Fail(d, call), d, i) /\ call \in Fail(d, call).failed
<1> DEFINE e == Fail(d, call)
<1>1. /\ e \in Device /\ e.failed = d.failed \cup {call}
      /\ e.spurious = d.spurious /\ e.oops = d.oops
      /\ HeldSame(e, d) /\ TableSame(e, d) /\ CtrlSame(e, d) /\ AdminSame(e, d) /\ NsSame(e, d)
  BY Zenon, FailIs
<1> HIDE DEF e
<1>2. Asked(e, d, i) /\ call \in e.failed BY Zenon, <1>1 DEF Asked, CtrlSame
<1> QED BY Zenon, <1>2 DEF e

\* The completion queue i is created or deleted.
LEMMA SetCqsAsked ==
  ASSUME NEW d \in Device, NEW i, NEW v \in SUBSET Contexts, v \subseteq d.cqs \cup {i}
  PROVE  Asked([d EXCEPT !.cqs = v], d, i) /\ [d EXCEPT !.cqs = v].cqs = v
<1> DEFINE e == [d EXCEPT !.cqs = v]
<1>1. /\ e \in Device /\ e.failed = d.failed /\ e.cqs = v /\ e.sqs = d.sqs
      /\ e.spurious = d.spurious /\ e.oops = d.oops
      /\ HeldSame(e, d) /\ TableSame(e, d) /\ AdminSame(e, d) /\ NsSame(e, d)
  BY Zenon DEF Device, HeldSame, TableSame, AdminSame, NsSame
<1> HIDE DEF e
<1>2. Asked(e, d, i) /\ e.cqs = v BY Zenon, <1>1 DEF Asked
<1> QED BY Zenon, <1>2 DEF e

\* The submission queue i is created or deleted.
LEMMA SetSqsAsked ==
  ASSUME NEW d \in Device, NEW i, NEW v \in SUBSET Contexts, d.sqs \subseteq v \cup {i}
  PROVE  Asked([d EXCEPT !.sqs = v], d, i) /\ [d EXCEPT !.sqs = v].sqs = v
<1> DEFINE e == [d EXCEPT !.sqs = v]
<1>1. /\ e \in Device /\ e.failed = d.failed /\ e.cqs = d.cqs /\ e.sqs = v
      /\ e.spurious = d.spurious /\ e.oops = d.oops
      /\ HeldSame(e, d) /\ TableSame(e, d) /\ AdminSame(e, d) /\ NsSame(e, d)
  BY Zenon DEF Device, HeldSame, TableSame, AdminSame, NsSame
<1> HIDE DEF e
<1>2. Asked(e, d, i) /\ e.sqs = v BY Zenon, <1>1 DEF Asked
<1> QED BY Zenon, <1>2 DEF e

\* A completion queue is created, or the controller refuses.
LEMMA AllocCqAsked ==
  ASSUME NEW d \in Device, NEW i \in Contexts, NEW e \in adapter_alloc_cq(d, i)
  PROVE  Asked(e, d, i)
<1> DEFINE v == d.cqs \cup {i}
<1>1. v \in SUBSET Contexts /\ v \subseteq d.cqs \cup {i} BY Zenon DEF Device
<1>2. e = [d EXCEPT !.cqs = v] \/ e = Fail(d, "refused") BY Zenon DEF adapter_alloc_cq
<1> HIDE DEF v
<1>3. CASE e = [d EXCEPT !.cqs = v] BY Zenon, <1>1, <1>3, SetCqsAsked
<1>4. CASE e = Fail(d, "refused") BY Zenon, <1>4, FailAsked, CallNames
<1> QED BY Zenon, <1>2, <1>3, <1>4

\* A submission queue is created, or the controller refuses.
LEMMA AllocSqAsked ==
  ASSUME NEW d \in Device, NEW i \in Contexts, NEW e \in adapter_alloc_sq(d, i)
  PROVE  Asked(e, d, i) /\ ("refused" \in e.failed \/ i \in e.sqs)
<1> DEFINE v == d.sqs \cup {i}
<1>1. v \in SUBSET Contexts /\ d.sqs \subseteq v \cup {i} /\ i \in v BY Zenon DEF Device
<1>2. e = [d EXCEPT !.sqs = v] \/ e = Fail(d, "refused") BY Zenon DEF adapter_alloc_sq
<1> HIDE DEF v
<1>3. CASE e = [d EXCEPT !.sqs = v] BY Zenon, <1>1, <1>3, SetSqsAsked
<1>4. CASE e = Fail(d, "refused") BY Zenon, <1>4, FailAsked, CallNames
<1> QED BY Zenon, <1>2, <1>3, <1>4

\* The controller deletes the submission queue, or will not.
LEMMA DeleteSqAsked ==
  ASSUME NEW d \in Device, NEW i \in Contexts, NEW e \in adapter_delete_sq(d, i)
  PROVE  Asked(e, d, i)
<1> DEFINE v == d.sqs \ {i}
<1>1. v \in SUBSET Contexts /\ d.sqs \subseteq v \cup {i} BY Zenon DEF Device
<1>2. e = [d EXCEPT !.sqs = v] \/ e = Fail(d, "delete") BY Zenon DEF adapter_delete_sq
<1> HIDE DEF v
<1>3. CASE e = [d EXCEPT !.sqs = v] BY Zenon, <1>1, <1>3, SetSqsAsked
<1>4. CASE e = Fail(d, "delete") BY Zenon, <1>4, FailAsked, CallNames
<1> QED BY Zenon, <1>2, <1>3, <1>4

\* The controller deletes the completion queue, or will not.
LEMMA DeleteCqAsked ==
  ASSUME NEW d \in Device, NEW i \in Contexts, NEW e \in adapter_delete_cq(d, i)
  PROVE  Asked(e, d, i) /\ ("delete" \in e.failed \/ i \notin e.cqs)
<1> DEFINE v == d.cqs \ {i}
<1>1. v \in SUBSET Contexts /\ v \subseteq d.cqs \cup {i} /\ i \notin v BY Zenon DEF Device
<1>2. e = [d EXCEPT !.cqs = v] \/ e = Fail(d, "delete") BY Zenon DEF adapter_delete_cq
<1> HIDE DEF v
<1>3. CASE e = [d EXCEPT !.cqs = v] BY Zenon, <1>1, <1>3, SetCqsAsked
<1>4. CASE e = Fail(d, "delete") BY Zenon, <1>4, FailAsked, CallNames
<1> QED BY Zenon, <1>2, <1>3, <1>4

\* The error labels leave no completion queue that the controller would delete.
LEMMA ReleasedAsked ==
  ASSUME NEW d \in Device, NEW i \in Contexts, i \notin d.cqs \/ "delete" \in d.failed,
         NEW e \in {d} \cup release_cq(d, i) \cup release_sq(d, i)
  PROVE  Asked(e, d, i) /\ ("delete" \in e.failed \/ i \notin e.cqs)
<1>1. CASE e = d BY Zenon, <1>1 DEF Asked, HeldSame, TableSame, AdminSame, NsSame
<1>2. CASE e \in release_cq(d, i)
  <2>1. PICK f \in adapter_alloc_cq(d, i) : e \in adapter_delete_cq(f, i) BY Zenon, <1>2 DEF release_cq
  <2>2. Asked(f, d, i) /\ f \in Device BY Zenon, AllocCqAsked DEF Asked
  <2>3. Asked(e, f, i) /\ ("delete" \in e.failed \/ i \notin e.cqs) BY Zenon, <2>1, <2>2, DeleteCqAsked
  <2> QED BY Zenon, <2>2, <2>3, AskedTwice
<1>3. CASE e \in release_sq(d, i)
  <2>1. PICK f \in adapter_alloc_cq(d, i) :
          \E g \in adapter_alloc_sq(f, i) : \E h \in adapter_delete_sq(g, i) :
             e \in adapter_delete_cq(h, i)
    BY SMT, Z3, <1>3 DEF release_sq
  <2>2. PICK g \in adapter_alloc_sq(f, i) :
          \E h \in adapter_delete_sq(g, i) : e \in adapter_delete_cq(h, i)
    BY Zenon, <2>1
  <2>3. PICK h \in adapter_delete_sq(g, i) : e \in adapter_delete_cq(h, i) BY Zenon, <2>2
  <2>4. Asked(f, d, i) /\ f \in Device BY Zenon, AllocCqAsked DEF Asked
  <2>5. Asked(g, f, i) /\ g \in Device BY Zenon, <2>4, AllocSqAsked DEF Asked
  <2>6. Asked(h, g, i) /\ h \in Device BY Zenon, <2>5, DeleteSqAsked DEF Asked
  <2>7. Asked(e, h, i) /\ ("delete" \in e.failed \/ i \notin e.cqs) BY Zenon, <2>3, <2>6, DeleteCqAsked
  <2>8. Asked(g, d, i) BY Zenon, <2>4, <2>5, AskedTwice
  <2>9. Asked(h, d, i) BY ZenonT(30), <2>8, <2>6, AskedTwice
  <2> QED BY Zenon, <2>7, <2>9, AskedTwice
<1> QED BY Zenon, <1>1, <1>2, <1>3

\* One queue is created, one cannot be, or all are there.
LEMMA CreateStep ==
  ASSUME IInv, nvme_create_queue
  PROVE  IInv'
<1>0. /\ pc = "create" /\ dev.oops = "no" /\ why' = why /\ why \in Reasons /\ max_qid' = max_qid
      /\ dev \in Device /\ max_qid \in 0 .. MaxQueues /\ 0 \in Contexts
      /\ queue_count(dev) <= MaxQueues + 1 /\ queue_count(dev) \in Nat /\ queue_count(dev) > 0
      /\ dev.online \in 0 .. UINT - 1 /\ dev.online \in Nat /\ ~BadAdmin(dev) /\ Vector(dev, 0) # -1
  <2>1. dev \in Device BY Zenon DEF IInv, TypeInv
  <2>2. dev.online \in 0 .. UINT - 1 /\ dev.online \in Nat /\ queue_count(dev) \in Nat
    BY SMT, Z3, <2>1 DEF Device, queue_count
  <2>3. /\ pc = "create" /\ dev.oops = "no" /\ why' = why /\ max_qid' = max_qid
    BY Zenon DEF nvme_create_queue, Running
  <2> QED BY SMT, Z3, <2>1, <2>2, <2>3, DeviceAssumption
          DEF IInv, TypeInv, AdminInv, TableInv, Later, Contexts
<1> DEFINE i == dev.online
           d == OopsIf([dev EXCEPT !.queues[i + 1].vector = i - 1], i = 0, "index")
           Rest == /\ dev' \in Device /\ dev.failed \subseteq dev'.failed
                   /\ dev'.spurious = dev.spurious
                   /\ HeldSame(dev', dev) /\ AdminSame(dev', dev) /\ NsSame(dev', dev)
           Enough == /\ pc' = "started" /\ i > queue_count(dev) - 1 /\ TableSame(dev', dev)
                     /\ CtrlSame(dev', dev) /\ dev'.failed = dev.failed
                     /\ dev'.oops = IF i > queue_count(dev) THEN "index" ELSE "no"
           Given == /\ i < queue_count(dev) /\ i \in Contexts
                    /\ dev'.cqs \subseteq dev.cqs \cup {i} /\ dev.sqs \subseteq dev'.sqs \cup {i}
                    /\ dev'.oops = IF i = 0 THEN "index" ELSE "no"
           Created == /\ pc' = "create" /\ Given /\ dev'.online = i + 1
                      /\ dev'.irqs = dev.irqs \cup {i}
                      /\ "refused" \in dev'.failed \/ i \in dev'.sqs
                      /\ Changed(dev', dev, i, [vector |-> i - 1, ready |-> TRUE])
           Broke == /\ pc' = "started" /\ Given /\ dev'.online = i /\ dev'.irqs = dev.irqs
                    /\ "create" \in dev'.failed /\ ("delete" \in dev'.failed \/ i \notin dev'.cqs)
                    /\ Changed(dev', dev, i, [vector |-> i - 1, ready |-> dev.queues[i + 1].ready])
<1>1. Rest /\ (Enough \/ Created \/ Broke)
  <2>1. CASE i > queue_count(dev) - 1 /\ Goto(nvme_set_irq_hints(dev), "started")
    <3> DEFINE b == dev.online > queue_count(dev)
    <3>1. b \in BOOLEAN /\ dev' = OopsIf(dev, b, "index") /\ pc' = "started"
      BY SMT, Z3, <2>1 DEF Goto, nvme_set_irq_hints
    <3> HIDE DEF b
    <3>2. /\ dev' \in Device /\ dev'.oops = IF dev.oops = "no" /\ b THEN "index" ELSE dev.oops
          /\ dev'.spurious = dev.spurious /\ dev'.failed = dev.failed
          /\ HeldSame(dev', dev) /\ TableSame(dev', dev) /\ CtrlSame(dev', dev)
          /\ AdminSame(dev', dev) /\ NsSame(dev', dev)
      BY Zenon, <1>0, <3>1, OopsIs
    <3> QED BY Zenon, <1>0, <2>1, <3>1, <3>2 DEF b
  <2>2. ASSUME i <= queue_count(dev) - 1,
               \/ \E e \in adapter_alloc_cq(d, i) : \E f \in adapter_alloc_sq(e, i) :
                     Goto(nvme_init_queue(queue_request_irq(f, i), i), "create")
               \/ \E e \in {d} \cup release_cq(d, i) \cup release_sq(d, i) :
                     Goto(nvme_set_irq_hints(Fail(e, "create")), "started")
        PROVE  Rest /\ (Created \/ Broke)
    <3>0. i \in Nat /\ i < queue_count(dev) /\ i \in Contexts /\ i - 1 \in Int
      BY SMT, Z3, <1>0, <2>2, DeviceAssumption DEF Contexts
    <3>d. /\ d \in Device
          /\ Changed(d, dev, i, [vector |-> i - 1, ready |-> dev.queues[i + 1].ready])
          /\ d.online = i /\ d.irqs = dev.irqs /\ queue_count(d) = queue_count(dev)
          /\ HeldSame(d, dev) /\ CtrlSame(d, dev) /\ AdminSame(d, dev) /\ NsSame(d, dev)
          /\ d.failed = dev.failed /\ d.spurious = dev.spurious
          /\ d.oops = IF i = 0 THEN "index" ELSE "no"
      <4> DEFINE g == [dev EXCEPT !.queues[i + 1].vector = i - 1]
                 b == i = 0
      <4>1. /\ g \in Device
            /\ Changed(g, dev, i, [vector |-> i - 1, ready |-> dev.queues[i + 1].ready])
            /\ g.online = dev.online /\ g.irqs = dev.irqs
            /\ HeldSame(g, dev) /\ CtrlSame(g, dev) /\ AdminSame(g, dev) /\ NsSame(g, dev)
            /\ LogSame(g, dev)
        BY Zenon, <1>0, <3>0, SetVectorIs
      <4>2. b \in BOOLEAN /\ d = OopsIf(g, b, "index") BY Zenon
      <4> HIDE DEF g, b, d
      <4>3. /\ d \in Device /\ d.oops = IF g.oops = "no" /\ b THEN "index" ELSE g.oops
            /\ d.spurious = g.spurious /\ d.failed = g.failed
            /\ HeldSame(d, g) /\ TableSame(d, g) /\ CtrlSame(d, g) /\ AdminSame(d, g)
            /\ NsSame(d, g)
        BY Zenon, <4>1, <4>2, OopsIs
      <4>4. Changed(d, dev, i, [vector |-> i - 1, ready |-> dev.queues[i + 1].ready])
        BY Zenon, <4>1, <4>3 DEF Changed, TableSame, queue_count
      <4>5. d.oops = IF i = 0 THEN "index" ELSE "no" BY Zenon, <1>0, <4>1, <4>3 DEF b, LogSame
      <4>6. queue_count(d) = queue_count(dev) BY Zenon, <4>4 DEF Changed
      <4> QED BY Zenon, <4>1, <4>3, <4>4, <4>5, <4>6
              DEF HeldSame, TableSame, CtrlSame, AdminSame, NsSame, LogSame
    <3> HIDE DEF d
    <3>1. ASSUME NEW e \in adapter_alloc_cq(d, i), NEW f \in adapter_alloc_sq(e, i),
                 Goto(nvme_init_queue(queue_request_irq(f, i), i), "create")
          PROVE  Rest /\ Created
      <4>1. Asked(e, d, i) /\ e \in Device BY Zenon, <3>0, <3>d, AllocCqAsked DEF Asked
      <4>2. Asked(f, e, i) /\ ("refused" \in f.failed \/ i \in f.sqs)
        BY Zenon, <3>0, <4>1, AllocSqAsked
      <4>3. Asked(f, d, i) BY Zenon, <4>1, <4>2, AskedTwice
      <4>4. f \in Device /\ f.queues = d.queues /\ f.online = i /\ f.irqs = dev.irqs
            /\ queue_count(f) = queue_count(dev)
        BY Zenon, <3>d, <4>3 DEF Asked, TableSame, queue_count
      <4> DEFINE g == queue_request_irq(f, i)
      <4>5. /\ g \in Device /\ g.irqs = f.irqs \cup {i}
            /\ g.queues = f.queues /\ g.online = f.online
            /\ HeldSame(g, f) /\ CtrlSame(g, f) /\ AdminSame(g, f) /\ NsSame(g, f) /\ LogSame(g, f)
        BY Zenon, <3>0, <4>4, RequestIrqIs
      <4>6. dev' = nvme_init_queue(g, i) /\ pc' = "create" BY Zenon, <3>1 DEF Goto
      <4> HIDE DEF g
      <4>7. i < queue_count(g) BY Zenon, <3>0, <4>4, <4>5 DEF queue_count
      <4>8. /\ dev' \in Device /\ dev'.online = (g.online + 1) % UINT
            /\ Changed(dev', g, i, [vector |-> g.queues[i + 1].vector, ready |-> TRUE])
            /\ dev'.irqs = g.irqs
            /\ HeldSame(dev', g) /\ CtrlSame(dev', g) /\ AdminSame(dev', g) /\ NsSame(dev', g)
            /\ LogSame(dev', g)
        BY Zenon, <3>0, <4>5, <4>6, <4>7, InitQueueIs
      <4>9. dev'.online = i + 1
        <5>1. i + 1 \in Nat /\ i + 1 < UINT BY SMT, Z3, <1>0, <3>0, DeviceAssumption
        <5>2. dev'.online = (i + 1) % UINT BY Zenon, <4>4, <4>5, <4>8
        <5> HIDE DEF i
        <5> QED BY SMT, Z3, <5>1, <5>2, DeviceAssumption
      <4>10. Changed(dev', dev, i, [vector |-> i - 1, ready |-> TRUE])
        <5>1. g.queues[i + 1].vector = i - 1 BY SMTT(20), Z3, <3>d, <4>4, <4>5 DEF Changed
        <5>2. \A k \in 1 .. queue_count(dev) : k # i + 1 => dev'.queues[k] = dev.queues[k]
          BY SMT, Z3, <3>d, <4>4, <4>5, <4>8 DEF Changed, queue_count
        <5>3. queue_count(dev') = queue_count(dev) BY Zenon, <4>4, <4>5, <4>8 DEF Changed, queue_count
        <5>4. dev'.queues[i + 1] = [vector |-> i - 1, ready |-> TRUE] BY Zenon, <4>8, <5>1 DEF Changed
        <5> QED BY Zenon, <5>2, <5>3, <5>4 DEF Changed
      <4>11. Rest
        BY Zenon, <3>d, <4>3, <4>5, <4>8 DEF Asked, HeldSame, AdminSame, NsSame, LogSame
      <4>12. Given
        BY Zenon, <3>0, <3>d, <4>3, <4>5, <4>8 DEF Asked, CtrlSame, LogSame
      <4>13. "refused" \in dev'.failed \/ i \in dev'.sqs
        BY Zenon, <4>2, <4>5, <4>8 DEF CtrlSame, LogSame
      <4>14. dev'.irqs = dev.irqs \cup {i} BY Zenon, <4>4, <4>5, <4>8
      <4> QED BY Zenon, <4>6, <4>9, <4>10, <4>11, <4>12, <4>13, <4>14
    <3>2. ASSUME NEW e \in {d} \cup release_cq(d, i) \cup release_sq(d, i),
                 Goto(nvme_set_irq_hints(Fail(e, "create")), "started")
          PROVE  Rest /\ Broke
      <4>0. i \notin d.cqs \/ "delete" \in d.failed
        BY SMTT(20), Z3, <1>0, <3>d DEF IInv, CtrlInv, CtrlSame, Failed
      <4>1. Asked(e, d, i) /\ ("delete" \in e.failed \/ i \notin e.cqs) /\ e \in Device
        BY SMT, Z3, <3>0, <3>d, <4>0, ReleasedAsked DEF Asked
      <4> DEFINE g == Fail(e, "create")
                 b == g.online > queue_count(g)
      <4>2. /\ g \in Device /\ g.failed = e.failed \cup {"create"}
            /\ g.spurious = e.spurious /\ g.oops = e.oops
            /\ HeldSame(g, e) /\ TableSame(g, e) /\ CtrlSame(g, e) /\ AdminSame(g, e)
            /\ NsSame(g, e)
        BY Zenon, <4>1, FailIs, CallNames
      <4>3. dev' = OopsIf(g, b, "index") /\ pc' = "started" BY Zenon, <3>2 DEF Goto, nvme_set_irq_hints
      <4> HIDE DEF g
      <4>4. TableSame(g, d) /\ queue_count(g) = queue_count(dev) /\ b = FALSE
        BY SMT, Z3, <1>0, <3>0, <3>d, <4>1, <4>2 DEF Asked, TableSame, queue_count
      <4> HIDE DEF b
      <4>5. /\ dev' \in Device /\ dev'.oops = IF g.oops = "no" /\ b THEN "index" ELSE g.oops
            /\ dev'.spurious = g.spurious /\ dev'.failed = g.failed
            /\ HeldSame(dev', g) /\ TableSame(dev', g) /\ CtrlSame(dev', g) /\ AdminSame(dev', g)
            /\ NsSame(dev', g)
        BY Zenon, <4>2, <4>3, <4>4, OopsIs
      <4>6. dev'.queues = d.queues /\ dev'.online = i /\ dev'.irqs = dev.irqs
        BY Zenon, <3>d, <4>4, <4>5 DEF TableSame
      <4>7. Changed(dev', dev, i, [vector |-> i - 1, ready |-> dev.queues[i + 1].ready])
        BY Zenon, <3>d, <4>6 DEF Changed, queue_count
      <4>8. Rest
        BY Zenon, <3>d, <4>1, <4>2, <4>5 DEF Asked, HeldSame, AdminSame, NsSame
      <4>9. Given
        BY Zenon, <3>0, <3>d, <4>1, <4>2, <4>4, <4>5 DEF Asked, CtrlSame
      <4>10. "create" \in dev'.failed /\ ("delete" \in dev'.failed \/ i \notin dev'.cqs)
        BY Zenon, <4>1, <4>2, <4>5 DEF CtrlSame
      <4> QED BY ZenonT(30), <4>3, <4>6, <4>7, <4>8, <4>9, <4>10
    <3> QED BY Zenon, <2>2, <3>1, <3>2
  <2> QED BY Zenon, <2>1, <2>2 DEF nvme_create_queue, d, i
<1> HIDE DEF d
<1>m. \A S : Failed(S) => Failed(S)' BY Zenon, <1>1, FailedMono
<1>h. /\ dev' \in Device /\ dev'.spurious = dev.spurious /\ dev'.held = dev.held
      /\ dev'.admin_q = dev.admin_q /\ dev'.frozen = dev.frozen
      /\ dev'.ns_frozen = dev.ns_frozen /\ dev'.ctx = dev.ctx
      /\ queue_count(dev') = queue_count(dev) /\ pc' \in {"create", "started"}
      /\ dev'.oops \in {"no", "index"}
  BY Zenon, <1>1 DEF HeldSame, AdminSame, NsSame, Changed, TableSame, queue_count
<1>b. /\ Begun(Slack) \/ Running0
      /\ Slack' = Slack /\ Slack \in Nat /\ Slack <= MaxQueues + 2
  BY SMT, Z3, <1>0, DeviceAssumption DEF IInv, OnlineInv, Slack
\* The queues below the one that is created are in use already.
<1>r. dev.online <= queue_count(dev) => \A j \in Contexts : j < i => Vector(dev, j) # -1
  <2>1. CASE Running0 BY Zenon, <2>1 DEF Running0
  <2>2. CASE Begun(Slack)
    <3>1. dev.online <= queue_count(dev) => dev.online \in {0, 1}
      BY SMT, Z3, <1>0, <1>b, <2>2, DeviceAssumption DEF Begun
    <3>2. \A j \in Contexts : j < 1 => j = 0 BY SMT, Z3 DEF Contexts
    <3>3. \A j \in Contexts : ~(j < 0) BY SMT, Z3 DEF Contexts
    <3> QED BY Zenon, <1>0, <3>1, <3>2, <3>3
  <2> QED BY Zenon, <1>b, <2>1, <2>2
<1>v. ASSUME Created \/ Broke
      PROVE  /\ i \in Contexts /\ i < queue_count(dev) /\ Vector(dev', i) = i - 1
             /\ \A j \in Contexts : j < queue_count(dev) /\ j # i => dev'.queues[j + 1] = dev.queues[j + 1]
             /\ \A j \in Contexts : j < queue_count(dev) /\ j # i => Vector(dev', j) = Vector(dev, j)
  <2>1. PICK q : Changed(dev', dev, i, q) /\ q.vector = i - 1 /\ i \in Contexts /\ i < queue_count(dev)
    BY Zenon, <1>v
  <2>2. \A j \in Contexts : j < queue_count(dev) /\ j # i =>
           j + 1 \in 1 .. queue_count(dev) /\ j + 1 # i + 1
    BY SMT, Z3, <1>0 DEF Contexts
  <2> QED BY Zenon, <2>1, <2>2 DEF Changed, Vector
<1>2. TypeInv' BY Zenon, <1>0, <1>h DEF TypeInv, Places, Later
<1>3. HeldInv' BY Zenon, <1>0, <1>h DEF IInv, HeldInv, Down, First, Later, Mapped, AllReleased
<1>4. AdminInv' BY Zenon, <1>0, <1>h DEF IInv, AdminInv, BadAdmin, AdminQueueValid
<1>5. FreezeInv' BY Zenon, <1>0, <1>h, <1>m DEF IInv, FreezeInv, Thawed, Stopped, Down, Later
<1>6. NsInv' BY Zenon, <1>0, <1>h DEF IInv, NsInv, Used, Serving
<1>7. ContextInv'
  <2>1. pc' = "started" => Failed({"create", "no_queues"})' \/ dev'.online >= queue_count(dev')
    <3>1. CASE Enough BY SMT, Z3, <1>0, <1>h, <3>1 DEF TableSame
    <3>2. CASE Created BY Zenon, <3>2
    <3>3. CASE Broke BY Zenon, <3>3, HasFailed
    <3> QED BY Zenon, <1>1, <3>1, <3>2, <3>3
  <2> QED BY Zenon, <1>0, <1>h, <1>m, <2>1 DEF IInv, ContextInv, ContextsHaveQueues
<1>8. TableInv'
  <2>0. /\ \A j \in dev.irqs : j \in Contexts /\ j < queue_count(dev) /\ Vector(dev, j) # -1
        /\ \A j \in dev.irqs : j = 0 \/ j < dev.online
    BY Zenon, <1>0 DEF IInv, TableInv, Device
  <2>1. CASE Enough
    <3>1. dev'.irqs = dev.irqs /\ dev'.queues = dev.queues /\ dev'.online = dev.online
      BY Zenon, <2>1 DEF TableSame
    <3> QED BY Zenon, <1>0, <1>h, <2>0, <3>1 DEF TableInv, Vector, Stopped, Down, First, Later
  <2>2. CASE Created \/ Broke
    <3>1. \A j \in dev'.irqs : j \in Contexts /\ j < queue_count(dev)
                               /\ (j \in dev.irqs \/ (j = i /\ pc' = "create"))
      BY Zenon, <1>v, <2>0, <2>2
    <3>2. dev'.oops # "index" => i # 0 BY Zenon, <2>2
    <3>3. dev'.oops # "index" => Vector(dev', i) # -1 BY SMT, Z3, <1>0, <1>v, <2>2, <3>2
    <3>4. dev'.oops # "index" => \A j \in dev'.irqs : Vector(dev', j) # -1
      BY Zenon, <1>v, <2>0, <2>2, <3>1, <3>3
    <3>5. dev'.oops # "index" => Vector(dev', 0) # -1 BY ZenonT(30), <1>0, <1>v, <2>2, <3>2
    <3>6. \A j \in dev'.irqs : j = 0 \/ j < dev'.online
      <4> SUFFICES ASSUME NEW j \in dev'.irqs PROVE j = 0 \/ j < dev'.online BY Zenon
      <4>1. j \in Nat BY SMT, Z3, <3>1 DEF Contexts
      <4> QED BY SMT, Z3, <1>0, <2>0, <2>2, <3>1, <4>1
    <3> QED BY Zenon, <1>0, <1>h, <3>1, <3>4, <3>5, <3>6 DEF TableInv, Stopped, Down, First, Later
  <2> QED BY Zenon, <1>1, <2>1, <2>2
<1>9. CountInv'
  <2> SUFFICES ASSUME Exact' PROVE CountInv' BY Zenon DEF CountInv
  <2>0. ~Broke BY Zenon, HasFailed DEF Exact
  <2>1. /\ dev.online \in 1 .. queue_count(dev) /\ dev.irqs = 0 .. dev.online - 1
        /\ \A j \in Contexts : j < queue_count(dev) =>
             /\ j < dev.online => Vector(dev, j) # -1
             /\ Ready(j) <=> j < dev.online
        /\ Failed({"refused"}) \/ \A j \in Contexts \ {0} : j < dev.online => j \in dev.sqs
    BY Zenon, <1>0, <1>m DEF IInv, CountInv, Exact
  <2>2. CASE Enough
    <3>1. /\ dev'.irqs = dev.irqs /\ dev'.queues = dev.queues /\ dev'.online = dev.online
          /\ dev'.sqs = dev.sqs
      BY Zenon, <2>2 DEF TableSame, CtrlSame
    <3>2. dev.online = queue_count(dev) /\ dev'.oops = "no" /\ pc' = "started"
      BY SMT, Z3, <1>0, <2>1, <2>2
    <3>3. Counts' BY Zenon, <1>h, <2>1, <3>1, <3>2 DEF Counts, Ready, Vector
    <3>4. Failed({"refused"})' \/ \A j \in Contexts \ {0} : j < dev'.online => j \in dev'.sqs
      BY Zenon, <1>m, <2>1, <3>1
    <3> QED BY Zenon, <3>2, <3>3, <3>4 DEF CountInv, Stopped, Down
  <2>3. CASE Created
    <3>1. /\ dev'.online = i + 1 /\ dev'.oops = "no" /\ pc' = "create" /\ i \in Nat /\ i >= 1
          /\ i < queue_count(dev)
      BY SMT, Z3, <1>0, <2>1, <2>3
    <3>2. dev'.irqs = 0 .. dev'.online - 1
      <4>1. dev'.irqs = (0 .. i - 1) \cup {i} BY Zenon, <2>1, <2>3
      <4> HIDE DEF i
      <4> QED BY SMT, Z3, <3>1, <4>1
    <3>3. dev'.queues[i + 1].ready /\ Vector(dev', i) # -1
      BY SMT, Z3, <1>0, <2>3, <3>1 DEF Vector, Changed
    <3>4. \A j \in Contexts : j < queue_count(dev') =>
             /\ j < dev'.online => Vector(dev', j) # -1
             /\ Ready(j)' <=> j < dev'.online
      <4> SUFFICES ASSUME NEW j \in Contexts, j < queue_count(dev)
                   PROVE  /\ j < dev'.online => Vector(dev', j) # -1
                          /\ Ready(j)' <=> j < dev'.online
        BY Zenon, <1>h
      <4>1. CASE j = i BY SMT, Z3, <3>1, <3>3, <4>1 DEF Ready
      <4>2. CASE j # i
        <5>1. Vector(dev', j) = Vector(dev, j) /\ (Ready(j)' <=> Ready(j))
          BY Zenon, <1>v, <2>3, <4>2 DEF Ready
        <5>2. j < dev'.online <=> j < i BY SMT, Z3, <3>1, <4>2 DEF Contexts
        <5> QED BY Zenon, <2>1, <5>1, <5>2
      <4> QED BY Zenon, <4>1, <4>2
    <3>5. Failed({"refused"})' \/ \A j \in Contexts \ {0} : j < dev'.online => j \in dev'.sqs
      <4>1. "refused" \in dev'.failed => Failed({"refused"})' BY Zenon, HasFailed
      <4>2. \A j \in Contexts : j < dev'.online => j = i \/ j < i BY SMT, Z3, <3>1 DEF Contexts
      <4>3. \A j \in dev.sqs : j = i \/ j \in dev'.sqs BY Zenon, <2>3
      <4> QED BY Zenon, <1>m, <2>1, <2>3, <4>1, <4>2, <4>3
    <3>6. dev'.online \in 1 .. queue_count(dev') BY SMT, Z3, <1>0, <1>h, <3>1
    <3> QED BY Zenon, <3>1, <3>2, <3>4, <3>5, <3>6 DEF CountInv, Stopped, Down
  <2> QED BY Zenon, <1>1, <2>0, <2>2, <2>3
<1>10. CtrlInv'
  <2> SUFFICES ASSUME ~Failed({"delete"})' PROVE CtrlInv' BY Zenon, <1>h DEF CtrlInv, First
  <2>1. \A j \in dev.cqs : j \in Contexts /\ j < queue_count(dev) /\ j < dev.online
    BY Zenon, <1>0, <1>m DEF IInv, CtrlInv, Device
  <2>2. \A j \in dev'.cqs : j < queue_count(dev') /\ j < dev'.online
    <3>1. CASE Enough BY Zenon, <1>h, <2>1, <3>1 DEF TableSame, CtrlSame
    <3>2. CASE Created
      <4>1. \A j \in dev'.cqs : j = i \/ j \in dev.cqs BY Zenon, <3>2
      <4>2. \A j \in dev.cqs : j \in Int BY SMT, Z3, <2>1 DEF Contexts
      <4> QED BY SMT, Z3, <1>0, <1>h, <2>1, <3>2, <4>1, <4>2
    <3>3. CASE Broke
      <4>1. "delete" \notin dev'.failed BY Zenon, HasFailed
      <4> QED BY Zenon, <1>h, <2>1, <3>3, <4>1
    <3> QED BY Zenon, <1>1, <3>1, <3>2, <3>3
  <2> QED BY Zenon, <1>h, <2>2 DEF CtrlInv, First
<1>11. OnlineInv'
  <2>1. CASE Enough
    <3>1. dev'.queues = dev.queues /\ dev'.online = dev.online BY Zenon, <2>1 DEF TableSame
    <3>2. dev'.oops = "no" => Running0'
      BY SMT, Z3, <1>0, <1>h, <1>r, <2>1, <3>1 DEF Running0, Vector
    <3> QED BY Zenon, <2>1, <3>2 DEF OnlineInv
  <2>2. CASE Created
    <3>1. CASE i = 0 BY SMT, Z3, <2>2, <3>1 DEF OnlineInv, Begun
    <3>2. CASE i # 0
      <4>1. Vector(dev', i) # -1 BY SMTT(20), Z3, <1>0, <1>v, <2>2, <3>2
      <4>2. \A j \in Contexts : j < dev'.online => j = i \/ (j < i /\ j < queue_count(dev) /\ j # i)
        BY SMTT(20), Z3, <1>0, <2>2 DEF Contexts
      <4>3. \A j \in Contexts : j < dev'.online => Vector(dev', j) # -1
        BY SMTT(20), Z3, <1>0, <1>r, <1>v, <2>2, <4>1, <4>2
      <4>4. Running0' BY SMT, Z3, <1>0, <1>h, <2>2, <4>3 DEF Running0
      <4> QED BY Zenon, <2>2, <4>4 DEF OnlineInv
    <3> QED BY Zenon, <3>1, <3>2
  <2>3. CASE Broke
    <3>1. \A j \in Contexts : j < i => j < queue_count(dev) /\ j # i
      BY SMTT(20), Z3, <1>0, <2>3 DEF Contexts
    <3>2. Running0' BY SMT, Z3, <1>0, <1>h, <1>r, <1>v, <2>3, <3>1 DEF Running0
    <3> QED BY Zenon, <2>3, <3>2 DEF OnlineInv
  <2> QED BY Zenon, <1>1, <2>1, <2>2, <2>3
<1>12. HandlerInv'
  <2> SUFFICES ASSUME ~Failed({"create"})' PROVE HandlerInv' BY Zenon DEF HandlerInv
  <2>0. ~Broke BY Zenon, HasFailed
  <2>1. /\ dev.online = 0 \/ dev.online > queue_count(dev)
           \/ (dev.online \in 1 .. queue_count(dev) /\ dev.irqs = 0 .. dev.online - 1)
        /\ dev.spurious => Failed({"admin_irq"})
    BY Zenon, <1>0, <1>m DEF IInv, HandlerInv
  <2>2. CASE Enough
    <3>1. /\ dev'.irqs = dev.irqs /\ dev'.online = dev.online BY Zenon, <2>2 DEF TableSame
    <3>2. dev'.oops = "no" => Handled'
      <4> SUFFICES ASSUME dev'.oops = "no" PROVE Handled' BY Zenon
      <4>1. dev.online = queue_count(dev) /\ dev.irqs = 0 .. dev.online - 1 BY SMT, Z3, <1>0, <2>1, <2>2
      <4> QED BY SMT, Z3, <1>0, <1>h, <3>1, <4>1 DEF Handled, Contexts
    <3> QED BY Zenon, <1>h, <1>m, <2>1, <2>2, <3>2 DEF HandlerInv
  <2>3. CASE Created
    <3>1. CASE i = 0 BY Zenon, <1>h, <1>m, <2>1, <2>3, <3>1 DEF HandlerInv
    <3>2. CASE i # 0
      <4>1. dev.irqs = 0 .. i - 1 /\ i \in Nat /\ i >= 1 BY SMT, Z3, <1>0, <2>1, <2>3, <3>2
      <4>2. dev'.irqs = (0 .. i - 1) \cup {i} /\ dev'.online = i + 1 /\ i < queue_count(dev)
        BY Zenon, <2>3, <4>1
      <4>3. dev'.irqs = 0 .. dev'.online - 1 /\ dev'.online \in 1 .. queue_count(dev')
        <5> HIDE DEF i
        <5> QED BY SMT, Z3, <1>0, <1>h, <4>1, <4>2
      <4> QED BY Zenon, <1>h, <1>m, <2>1, <2>3, <4>3 DEF HandlerInv
    <3> QED BY Zenon, <3>1, <3>2
  <2> QED BY Zenon, <1>1, <2>0, <2>2, <2>3
<1> QED BY Zenon, <1>2, <1>3, <1>4, <1>5, <1>6, <1>7, <1>8, <1>9, <1>10, <1>11, <1>12 DEF IInv

\* nvme_suspend_queue suspends those that are not, all of them in SuspendAll.
InUse(d) == {i \in 0 .. queue_count(d) - 1 : Vector(d, i) # -1}

\* nvme_suspend_queue leaves those alone that are suspended.
LEMMA SuspendIs ==
  ASSUME NEW d \in Device, NEW Q \in SUBSET Contexts, NEW S \in SUBSET Contexts,
         S = {i \in Q : Vector(d, i) # -1}
  PROVE  nvme_suspend_queue(d, Q) = Suspended(d, S)
  BY Zenon DEF nvme_suspend_queue, Vector

\* What is left of online_queues when n queues are suspended.
LEMMA OnlineAfter ==
  ASSUME NEW x \in 0 .. UINT - 1, NEW n \in Nat, n <= MaxQueues + 1
  PROVE  (x + UINT - n) % UINT = IF n <= x THEN x - n ELSE x + UINT - n
<1> DEFINE y == x + UINT - n
<1>1. y \in Nat /\ y < 2 * UINT BY SMT, Z3, DeviceAssumption
<1>2. y % UINT = IF y < UINT THEN y ELSE y - UINT
  <2> HIDE DEF y
  <2> QED BY Zenon, <1>1, ModTwice
<1> QED BY SMT, Z3, <1>2, DeviceAssumption

\* The admin queue, which is in use, is suspended by the labels of nvme_dev_start.
AdminSuspended(e, d) ==
  /\ e \in Device
  /\ e.online = IF 1 <= d.online THEN d.online - 1 ELSE UINT - 1
  /\ queue_count(e) = queue_count(d)
  /\ \A k \in 1 .. queue_count(e) : e.queues[k] =
        IF k = 1 THEN [vector |-> -1, ready |-> FALSE] ELSE d.queues[k]
  /\ e.irqs = d.irqs \ {0}
  /\ e.spurious = (d.spurious \/ 0 \notin d.irqs)
  /\ e.frozen = IF d.admin_q # "null" THEN d.frozen + 1 ELSE d.frozen
  /\ e.admin_q = d.admin_q
  /\ e.failed = d.failed
  /\ e.oops = IF d.oops = "no" /\ BadAdmin(d) THEN "admin_q" ELSE d.oops
  /\ HeldSame(e, d) /\ CtrlSame(e, d) /\ NsSame(e, d)

\* nvme_suspend_queue does this to the admin queue.
LEMMA SuspendAdminIs ==
  ASSUME CardinalityFacts, NEW d \in Device, queue_count(d) > 0, Vector(d, 0) # -1
  PROVE  AdminSuspended(nvme_suspend_queue(d, {0}), d)
<1> DEFINE e == nvme_suspend_queue(d, {0})
           S == {0}
<1>0. S \in SUBSET Contexts /\ S = {i \in S : Vector(d, i) # -1}
  BY SMT, Z3, DeviceAssumption DEF Contexts
<1>1. e = Suspended(d, S) BY Zenon, <1>0, SuspendIs
<1>c. Cardinality(S) = 1 BY Zenon DEF CardinalityFacts
<1>s. /\ 0 \in S /\ (\A k \in Int : k - 1 \in S <=> k = 1)
      /\ \A X : X \ S = X \ {0} /\ (S \subseteq X <=> 0 \in X)
  BY SMT, Z3
<1> HIDE DEF S, e
<1>2. IsSuspended(e, d, S) BY Zenon, <1>0, <1>1, SuspendedIs
<1> USE DEF IsSuspended
<1>3. e.online = IF 1 <= d.online THEN d.online - 1 ELSE UINT - 1
  <2>1. d.online \in 0 .. UINT - 1 /\ 1 \in Nat /\ 1 <= MaxQueues + 1
    BY SMT, Z3, DeviceAssumption DEF Device
  <2>2. (d.online + UINT - 1) % UINT = IF 1 <= d.online THEN d.online - 1 ELSE d.online + UINT - 1
    BY Zenon, <2>1, OnlineAfter
  <2> QED BY SMT, Z3, <1>2, <1>c, <2>1, <2>2, DeviceAssumption
<1>4. \A k \in 1 .. queue_count(e) : e.queues[k] =
         IF k = 1 THEN [vector |-> -1, ready |-> FALSE] ELSE d.queues[k]
  BY SMT, Z3, <1>2, <1>s
<1>5. e.irqs = d.irqs \ {0} /\ (S \subseteq d.irqs <=> 0 \in d.irqs) /\ 0 \in S BY Zenon, <1>2, <1>s
<1>6. /\ e.spurious = (d.spurious \/ 0 \notin d.irqs)
      /\ e.frozen = IF d.admin_q # "null" THEN d.frozen + 1 ELSE d.frozen
      /\ e.oops = IF d.oops = "no" /\ BadAdmin(d) THEN "admin_q" ELSE d.oops
  <2>1. e.spurious = (d.spurious \/ 0 \notin d.irqs) BY Zenon, <1>2, <1>5
  <2> QED BY Zenon, <1>2, <1>5, <2>1
<1> QED BY Zenon, <1>2, <1>3, <1>4, <1>5, <1>6 DEF AdminSuspended, e

\* The labels of nvme_dev_start give back what the start took.
LEMMA FailStartStep ==
  ASSUME CardinalityFacts, IInv, FailStart
  PROVE  IInv'
<1>0. /\ pc \in {"free_tags", "disable", "unmap"} /\ dev.oops = "no"
      /\ why' = why /\ why \in Reasons /\ max_qid' = max_qid /\ pc' = "start_failed"
      /\ dev \in Device /\ max_qid \in 0 .. MaxQueues /\ 0 \in Contexts
      /\ queue_count(dev) <= MaxQueues + 1 /\ queue_count(dev) \in Nat
      /\ dev.online \in 0 .. UINT - 1 /\ dev.frozen \in Int
      /\ \A r \in Resources : dev.held[r] \in Int
  BY SMT, Z3, DeviceAssumption
  DEF FailStart, Running, Goto, IInv, TypeInv, Contexts, queue_count, Device
<1>k. /\ dev.held["pci_enabled"] = 1 /\ dev.held["regions"] = 1
      /\ dev.held["bar"] = 1 \/ (dev.held["bar"] = 0 /\ "remap" \in dev.failed)
  BY Zenon, <1>0 DEF IInv, HeldInv, First, Mapped
<1>a. /\ dev.held["admin_ref"] = IF dev.admin_q \in {"live", "dying"} THEN 1 ELSE 0
      /\ dev.held["admin_tags"] = IF dev.admin_q = "live" THEN 1 ELSE 0
      /\ dev.held["admin_queue"] = IF dev.admin_q = "live" THEN 1 ELSE 0
      /\ BadAdmin(dev) => pc = "disable" /\ Failed({"init_admin_q", "get_admin_q"})
  BY Zenon, <1>0 DEF IInv, AdminInv
<1>t. pc # "unmap" => /\ queue_count(dev) > 0 /\ Vector(dev, 0) # -1
                      /\ Suspends(Contexts \ {0}) /\ dev.irqs \subseteq {0}
                      /\ 0 \notin dev.irqs => Failed({"admin_irq"})
  <2>1. pc # "unmap" => \A i \in dev.irqs : i \in Contexts /\ i < queue_count(dev) /\ Vector(dev, i) # -1
    BY Zenon, <1>0 DEF IInv, TableInv, Device
  <2> QED BY Zenon, <1>0, <2>1 DEF IInv, TableInv, First, Suspends
<1> DEFINE Three == {"bar", "regions", "pci_enabled"}
           Two   == {"admin_queue", "admin_tags"}
           x     == IF pc = "free_tags" THEN nvme_dev_remove_admin(dev) ELSE dev
           y     == IF pc = "unmap" THEN x ELSE nvme_suspend_queue(x, {0})
           Died  == pc = "free_tags" /\ dev.admin_q = "live"
<1>x. /\ x \in Device /\ x.failed = dev.failed /\ x.spurious = dev.spurious
      /\ x.frozen = dev.frozen /\ x.ns_frozen = dev.ns_frozen
      /\ TableSame(x, dev) /\ CtrlSame(x, dev)
      /\ x.admin_q = IF Died THEN "dying" ELSE dev.admin_q
      /\ Moved(x, dev, IF Died THEN Two ELSE {}, -1)
      /\ \A i \in Contexts \ {0} : x.ctx[i] = dev.ctx[i]
      /\ x.ctx[0] \in {dev.ctx[0], "none"}
      /\ x.oops = IF Died /\ dev.ctx[0] = "stale" THEN "context" ELSE "no"
  <2>1. CASE Died
    <3>0. x = nvme_dev_remove_admin(dev) BY Zenon, <2>1
    <3> HIDE DEF x
    <3>1. /\ x \in Device /\ Moved(x, dev, Two, -1)
          /\ x.admin_q = IF dev.held["admin_ref"] > 0 THEN "dying" ELSE "freed"
          /\ x.frozen = dev.frozen
          /\ \A i \in Contexts : x.ctx[i] = IF i = 0 THEN "none" ELSE dev.ctx[i]
          /\ x.oops = IF dev.oops # "no" THEN dev.oops
                      ELSE IF dev.ctx[0] = "stale" THEN "context"
                      ELSE IF BadAdmin(dev) THEN "admin_q" ELSE "no"
          /\ x.failed = dev.failed /\ x.spurious = dev.spurious
          /\ x.ns_frozen = dev.ns_frozen /\ TableSame(x, dev) /\ CtrlSame(x, dev)
      BY Zenon, <1>0, <2>1, <3>0, RemoveAdminIs
    <3>2. x.admin_q = "dying" /\ ~BadAdmin(dev) BY SMT, Z3, <1>a, <2>1, <3>1 DEF BadAdmin
    <3> QED BY Zenon, <1>0, <2>1, <3>1, <3>2
  <2>2. CASE ~Died
    <3>1. pc = "free_tags" => dev.admin_q \in {"null", "dying"}
      BY Zenon, <1>0, <1>a, <2>2 DEF BadAdmin, Device
    <3>2. x = dev BY Zenon, <3>1 DEF nvme_dev_remove_admin
    <3> HIDE DEF x
    <3> QED BY Zenon, <1>0, <2>2, <3>2 DEF Moved, TableSame, CtrlSame
  <2> QED BY Zenon, <2>1, <2>2
<1> HIDE DEF x
<1>y. /\ y \in Device /\ y.failed = dev.failed /\ y.ns_frozen = dev.ns_frozen
      /\ queue_count(y) = queue_count(dev) /\ CtrlSame(y, dev) /\ NsSame(y, x) /\ HeldSame(y, x)
      /\ y.admin_q = x.admin_q
      /\ y.oops = IF x.oops = "no" /\ BadAdmin(dev) THEN "admin_q" ELSE x.oops
      /\ y.spurious => dev.spurious \/ Failed({"admin_irq"})
      /\ y.frozen = IF pc # "unmap" /\ dev.admin_q # "null" THEN dev.frozen + 1 ELSE dev.frozen
      /\ pc = "unmap" => y.queues = dev.queues /\ y.online = dev.online /\ y.irqs = dev.irqs
      /\ pc # "unmap" =>
           /\ y.online = IF 1 <= dev.online THEN dev.online - 1 ELSE UINT - 1
           /\ y.irqs = {} /\ Vector(y, 0) = -1 /\ ~y.queues[1].ready
           /\ \A k \in 2 .. queue_count(dev) : y.queues[k] = dev.queues[k]
  <2>b. BadAdmin(x) = BadAdmin(dev) /\ (x.admin_q # "null" <=> dev.admin_q # "null")
    BY SMT, Z3, <1>x DEF BadAdmin
  <2>1. CASE pc = "unmap"
    <3>1. y = x BY Zenon, <2>1
    <3>2. ~BadAdmin(dev) /\ x.oops = "no" BY Zenon, <1>a, <1>x, <2>1
    <3> HIDE DEF y
    <3> QED BY Zenon, <1>x, <2>1, <3>1, <3>2 DEF CtrlSame, NsSame, HeldSame, TableSame, queue_count
  <2>2. CASE pc # "unmap"
    <3>1. y = nvme_suspend_queue(x, {0}) BY Zenon, <2>2
    <3>2. queue_count(x) = queue_count(dev) /\ queue_count(x) > 0 /\ Vector(x, 0) # -1
      BY Zenon, <1>t, <1>x, <2>2 DEF TableSame, queue_count, Vector
    <3> HIDE DEF y
    <3>3. AdminSuspended(y, x) BY Zenon, <1>x, <3>1, <3>2, SuspendAdminIs
    <3> USE DEF AdminSuspended
    <3>4. y.irqs = {} /\ (y.spurious => dev.spurious \/ Failed({"admin_irq"}))
      BY Zenon, <1>t, <1>x, <2>2, <3>3 DEF TableSame
    <3>5. y.queues[1] = [vector |-> -1, ready |-> FALSE] /\ \A k \in 2 .. queue_count(dev) : y.queues[k] = dev.queues[k]
      BY SMT, Z3, <1>0, <1>x, <3>2, <3>3 DEF TableSame
    <3>6. Vector(y, 0) = -1 /\ ~y.queues[1].ready BY SMT, Z3, <3>5 DEF Vector
    <3>7. y.ns_frozen = dev.ns_frozen /\ CtrlSame(y, dev)
          /\ y.online = IF 1 <= dev.online THEN dev.online - 1 ELSE UINT - 1
      BY Zenon, <1>x, <3>3 DEF NsSame, CtrlSame, TableSame
    <3> QED BY Zenon, <1>x, <2>2, <2>b, <3>2, <3>3, <3>4, <3>5, <3>6, <3>7
  <2> QED BY Zenon, <2>1, <2>2
<1> HIDE DEF y
<1>d. dev' = nvme_dev_unmap(y)
  BY Zenon, <1>0 DEF FailStart, Running, Goto, x, y
<1>z. /\ dev' \in Device
      /\ \A r \in Resources \ Three : dev'.held[r] = y.held[r]
      /\ y.held["bar"] > 0 => /\ dev'.held["bar"] = y.held["bar"] - 1
                              /\ dev'.held["regions"] = y.held["regions"] - 1
      /\ ~(y.held["bar"] > 0) => /\ dev'.held["bar"] = y.held["bar"]
                                 /\ dev'.held["regions"] = y.held["regions"]
      /\ dev'.held["pci_enabled"] = IF y.held["pci_enabled"] > 0
                                    THEN y.held["pci_enabled"] - 1 ELSE y.held["pci_enabled"]
      /\ TableSame(dev', y) /\ CtrlSame(dev', y) /\ AdminSame(dev', y) /\ NsSame(dev', y)
      /\ LogSame(dev', y)
  BY Zenon, <1>d, <1>y, UnmapIs
<1>f. dev'.failed = dev.failed BY Zenon, <1>y, <1>z DEF LogSame
<1>m. \A S : Failed(S) => Failed(S)' BY Zenon, <1>f, FailedMono
<1>h. /\ dev' \in Device /\ dev'.cqs = dev.cqs /\ dev'.ns_frozen = dev.ns_frozen
      /\ dev'.admin_q = (IF Died THEN "dying" ELSE dev.admin_q)
      /\ queue_count(dev') = queue_count(dev)
      /\ dev'.spurious => dev.spurious \/ Failed({"admin_irq"})
      /\ dev'.frozen = IF pc # "unmap" /\ dev.admin_q # "null" THEN dev.frozen + 1 ELSE dev.frozen
      /\ pc = "unmap" => dev'.queues = dev.queues /\ dev'.online = dev.online /\ dev'.irqs = dev.irqs
      /\ pc # "unmap" =>
           /\ dev'.online = IF 1 <= dev.online THEN dev.online - 1 ELSE UINT - 1
           /\ dev'.irqs = {} /\ Vector(dev', 0) = -1 /\ ~dev'.queues[1].ready
           /\ \A k \in 2 .. queue_count(dev) : dev'.queues[k] = dev.queues[k]
  BY Zenon, <1>x, <1>y, <1>z DEF TableSame, CtrlSame, AdminSame, NsSame, LogSame, queue_count, Vector
<1>o. dev'.oops = IF Died /\ dev.ctx[0] = "stale" THEN "context"
                  ELSE IF BadAdmin(dev) THEN "admin_q" ELSE "no"
  <2>1. dev'.oops = y.oops BY Zenon, <1>z DEF LogSame
  <2>2. Died => ~BadAdmin(dev) BY Zenon DEF BadAdmin
  <2> QED BY Zenon, <1>x, <1>y, <2>1, <2>2
<1>c. /\ \A i \in Contexts \ {0} : dev'.ctx[i] = dev.ctx[i]
      /\ dev'.ctx[0] \in {dev.ctx[0], "none"}
  <2>1. dev'.ctx = x.ctx BY Zenon, <1>y, <1>z DEF NsSame
  <2> QED BY Zenon, <1>x, <2>1
<1>e. /\ \A r \in Resources \ (Three \cup Two) : dev'.held[r] = dev.held[r]
      /\ \A r \in Two : dev'.held[r] = IF Died THEN dev.held[r] - 1 ELSE dev.held[r]
      /\ Unmapped(dev')
  <2>0. Two \subseteq Resources /\ Three \subseteq Resources /\ Two \cap Three = {}
    BY Zenon DEF Resources
  <2>1. \A r \in Resources : y.held[r] = IF Died /\ r \in Two THEN dev.held[r] + (-1) ELSE dev.held[r]
    BY Zenon, <1>x, <1>y DEF Moved, HeldSame
  <2>2. \A r \in Resources \ (Three \cup Two) : dev'.held[r] = dev.held[r] BY Zenon, <1>z, <2>1
  <2>3. \A r \in Two : dev'.held[r] = IF Died THEN dev.held[r] - 1 ELSE dev.held[r]
    <3> SUFFICES ASSUME NEW r \in Two
                 PROVE  dev'.held[r] = IF Died THEN dev.held[r] - 1 ELSE dev.held[r]
      BY Zenon
    <3>1. r \in Resources \ Three /\ dev.held[r] \in Int BY Zenon, <1>0, <2>0
    <3> HIDE DEF Two
    <3> QED BY Zenon, <1>z, <2>1, <3>1
  <2>4. /\ y.held["bar"] = dev.held["bar"] /\ y.held["regions"] = dev.held["regions"]
        /\ y.held["pci_enabled"] = dev.held["pci_enabled"]
    BY Zenon, <2>0, <2>1
  <2>5. Unmapped(dev') BY SMT, Z3, <1>f, <1>k, <1>z, <2>4 DEF Unmapped
  <2> QED BY Zenon, <2>2, <2>3, <2>5
<1>v. Suspends(Contexts)' /\ dev'.irqs = {}
  <2>1. CASE pc = "unmap"
    <3>1. Suspends(Contexts) /\ dev.irqs = {} BY Zenon, <2>1 DEF IInv, TableInv, Stopped
    <3> QED BY Zenon, <1>h, <2>1, <3>1 DEF Suspends, Vector
  <2>2. CASE pc # "unmap"
    <3>1. \A i \in Contexts \ {0} : i < queue_count(dev) => i + 1 \in 2 .. queue_count(dev)
      BY SMT, Z3, <1>0 DEF Contexts
    <3>2. \A i \in Contexts \ {0} : i < queue_count(dev) => Vector(dev', i) = -1
      BY Zenon, <1>h, <1>t, <2>2, <3>1 DEF Suspends, Vector
    <3> QED BY Zenon, <1>h, <2>2, <3>2 DEF Suspends
  <2> QED BY Zenon, <2>1, <2>2
<1>2. TypeInv' BY Zenon, <1>0, <1>h DEF TypeInv, Places, Stopped, Down
<1>3. HeldInv'
  <2>1. /\ \A r \in Base : dev.held[r] = 1
        /\ dev.held["tagset"] \in 0 .. 1 /\ dev.held["ns"] \in 0 .. 1
        /\ why = "probe" => dev.held["tagset"] = 0 /\ dev.held["ns"] = 0
    BY Zenon, <1>0 DEF IInv, HeldInv
  <2>2. /\ \A r \in Base : dev'.held[r] = 1
        /\ dev'.held["tagset"] = dev.held["tagset"] /\ dev'.held["ns"] = dev.held["ns"]
    BY Zenon, <1>e, <2>1 DEF Base, Resources
  <2> QED BY Zenon, <1>0, <1>e, <2>1, <2>2 DEF HeldInv, Down, First, Later, AllReleased
<1>4. AdminInv'
  <2>1. /\ dev'.held["admin_ref"] = dev.held["admin_ref"]
        /\ dev'.held["admin_tags"] = IF Died THEN dev.held["admin_tags"] - 1 ELSE dev.held["admin_tags"]
        /\ dev'.held["admin_queue"] = IF Died THEN dev.held["admin_queue"] - 1 ELSE dev.held["admin_queue"]
    BY Zenon, <1>e DEF Resources
  <2>2. /\ dev'.held["admin_ref"] = IF dev'.admin_q \in {"live", "dying"} THEN 1 ELSE 0
        /\ dev'.held["admin_tags"] = IF dev'.admin_q = "live" THEN 1 ELSE 0
        /\ dev'.held["admin_queue"] = IF dev'.admin_q = "live" THEN 1 ELSE 0
    BY SMT, Z3, <1>a, <1>h, <2>1
  <2>3. BadAdmin(dev') => BadAdmin(dev) /\ ~Died BY Zenon, <1>h DEF BadAdmin
  <2>4. BadAdmin(dev') => Failed({"init_admin_q", "get_admin_q"})' /\ dev'.oops # "no"
    BY Zenon, <1>a, <1>m, <1>o, <2>3
  <2>5. dev'.oops = "admin_q" => Failed({"init_admin_q", "get_admin_q"})'
    BY Zenon, <1>a, <1>m, <1>o
  <2> QED BY Zenon, <1>0, <2>2, <2>4, <2>5 DEF AdminInv, AdminQueueValid
<1>5. FreezeInv'
  <2>1. dev.frozen >= 0 /\ (dev.admin_q = "null" => dev.frozen = 0) BY Zenon DEF IInv, FreezeInv
  <2>2. dev'.admin_q \in {"live", "dying"} => Once'
    <3> SUFFICES ASSUME dev'.admin_q \in {"live", "dying"} PROVE Once' BY Zenon
    <3>1. dev.admin_q \in {"live", "dying"} BY Zenon, <1>h
    <3>2. CASE pc = "unmap"
      <4>1. Once BY Zenon, <3>1, <3>2 DEF IInv, FreezeInv, Stopped
      <4> QED BY Zenon, <1>h, <1>m, <3>2, <4>1 DEF Once
    <3>3. CASE pc = "disable"
      <4>1. Failed({"thread"}) /\ dev.frozen >= 1 BY Zenon, <3>1, <3>3 DEF IInv, FreezeInv
      <4> QED BY SMT, Z3, <1>0, <1>h, <1>m, <3>1, <3>3, <4>1 DEF Once
    <3>4. CASE pc = "free_tags"
      <4>1. Thawed BY Zenon, <3>1, <3>4 DEF IInv, FreezeInv
      <4> QED BY SMT, Z3, <1>0, <1>h, <1>m, <2>1, <3>1, <3>4, <4>1 DEF Once, Thawed
    <3> QED BY Zenon, <1>0, <3>2, <3>3, <3>4
  <2> QED BY SMT, Z3, <1>0, <1>h, <2>1, <2>2 DEF FreezeInv, Later
<1>6. NsInv'
  <2>1. Used' = Used BY Zenon, <1>c DEF Used
  <2>2. dev'.held["ns"] = dev.held["ns"] BY Zenon, <1>e DEF Resources
  <2> QED BY Zenon, <1>0, <1>h, <2>1, <2>2 DEF IInv, NsInv, Serving
<1>7. ContextInv'
  <2>1. (\E i \in Contexts : dev'.ctx[i] = "stale") => \E i \in Contexts : dev.ctx[i] = "stale"
    BY Zenon, <1>0, <1>c
  <2>2. dev'.oops = "context" => \E i \in Contexts : dev.ctx[i] = "stale" BY Zenon, <1>0, <1>o
  <2>3. (\E i \in Contexts : dev.ctx[i] = "stale") => Failed(Losses)'
    BY Zenon, <1>0, <1>m DEF IInv, ContextInv
  <2> QED BY Zenon, <1>0, <2>1, <2>2, <2>3 DEF ContextInv, ContextsHaveQueues, Losses
<1>8. TableInv' BY Zenon, <1>0, <1>v DEF TableInv, Stopped, Down, First, Later
<1>9. CountInv'
  <2> SUFFICES ASSUME Exact' PROVE CountInv' BY Zenon DEF CountInv
  <2>1. pc = "unmap" => dev.online = 0 /\ Idle(Contexts)
    BY Zenon, <1>m DEF IInv, CountInv, Exact, Stopped
  <2>2. pc # "unmap" => dev.online = 1 /\ Idle(Contexts \ {0})
    BY Zenon, <1>0, <1>m DEF IInv, CountInv, Exact
  <2>3. dev'.online = 0 BY SMT, Z3, <1>h, <2>1, <2>2
  <2>4. Idle(Contexts)'
    <3>1. CASE pc = "unmap" BY Zenon, <1>h, <2>1, <3>1 DEF Idle, Ready
    <3>2. CASE pc # "unmap"
      <4>1. \A i \in Contexts \ {0} : i < queue_count(dev) => i + 1 \in 2 .. queue_count(dev)
        BY SMT, Z3, <1>0 DEF Contexts
      <4> QED BY SMT, Z3, <1>h, <2>2, <3>2, <4>1 DEF Idle, Ready
    <3> QED BY Zenon, <3>1, <3>2
  <2>5. dev'.oops # "index" BY Zenon, <1>o
  <2> QED BY Zenon, <1>0, <2>3, <2>4, <2>5 DEF CountInv, Stopped, Down
<1>10. CtrlInv' BY Zenon, <1>0, <1>h, <1>m DEF IInv, CtrlInv, First
<1>11. OnlineInv'
  <2>1. /\ pc = "unmap" => Low(Slack)
        /\ pc # "unmap" => Low(Slack) \/ Begun(Slack)
        /\ Slack' = Slack /\ Slack \in Nat /\ Slack <= MaxQueues + 2
    BY SMT, Z3, <1>0, DeviceAssumption DEF IInv, OnlineInv, Slack
  <2>2. dev'.online = 0 \/ dev'.online >= UINT - (Slack + 1)
    <3>1. CASE pc = "unmap" BY SMTT(20), Z3, <1>0, <1>h, <2>1, <3>1, DeviceAssumption DEF Low
    <3>2. CASE pc # "unmap"
      <4>1. dev.online \in {0, 1} \/ dev.online >= UINT - Slack
        BY SMT, Z3, <1>0, <2>1, <3>2, DeviceAssumption DEF Low, Begun
      <4>2. dev'.online = IF 1 <= dev.online THEN dev.online - 1 ELSE UINT - 1 BY Zenon, <1>h, <3>2
      <4> QED BY SMT, Z3, <1>0, <2>1, <4>1, <4>2, DeviceAssumption
    <3> QED BY Zenon, <3>1, <3>2
  <2>3. Low(Slack + 1)' BY Zenon, <2>1, <2>2 DEF Low
  <2> QED BY Zenon, <1>0, <2>3 DEF OnlineInv
<1>12. HandlerInv' BY Zenon, <1>0, <1>h, <1>m DEF IInv, HandlerInv
<1> QED BY Zenon, <1>2, <1>3, <1>4, <1>5, <1>6, <1>7, <1>8, <1>9, <1>10, <1>11, <1>12 DEF IInv

\* nvme_dev_shutdown freezes the namespaces, suspends what is in use and unmaps.
LEMMA ShutdownStep ==
  ASSUME CardinalityFacts, IInv, Shutdown
  PROVE  IInv'
<1>0. /\ pc = "shutdown" /\ dev.oops = "no" /\ why' = why /\ why \in Reasons /\ max_qid' = max_qid
      /\ pc' \in {"map", "removing", "off", "asleep"}
      /\ pc' \in {"map", "asleep"} => why # "remove"
      /\ dev \in Device /\ max_qid \in 0 .. MaxQueues /\ 0 \in Contexts
      /\ queue_count(dev) <= MaxQueues + 1 /\ queue_count(dev) \in Nat
      /\ dev.online \in 0 .. UINT - 1 /\ dev.frozen \in Int /\ dev.ns_frozen \in Int
      /\ \A r \in Resources : dev.held[r] \in Int
  <2>1. dev \in Device BY Zenon DEF IInv, TypeInv
  <2>2. /\ dev.online \in 0 .. UINT - 1 /\ dev.frozen \in Int /\ dev.ns_frozen \in Int
        /\ (\A r \in Resources : dev.held[r] \in Int) /\ queue_count(dev) \in Nat
    BY SMT, Z3, <2>1 DEF Device, queue_count
  <2> QED
    BY SMT, Z3, <2>1, <2>2, DeviceAssumption
    DEF Shutdown, Running, Goto, IInv, TypeInv, Contexts, Reasons
<1>k. /\ Mapped(dev) \/ Unmapped(dev)
      /\ dev.held["ns"] \in 0 .. 1
  BY Zenon, <1>0 DEF IInv, HeldInv
<1>b. ~BadAdmin(dev) BY Zenon, <1>0 DEF IInv, AdminInv
<1> DEFINE Three == {"bar", "regions", "pci_enabled"}
           Froze == dev.held["bar"] > 0 /\ dev.held["ns"] > 0
           n == IF Froze THEN dev.ns_frozen + 1 ELSE dev.ns_frozen
           f == nvme_freeze_queues(dev)
           S == InUse(dev)
           c == Cardinality(S)
           g == Suspended(f, S)
<1>s. /\ S \in SUBSET Contexts
      /\ \A i \in Contexts : i \in S <=> i < queue_count(dev) /\ Vector(dev, i) # -1
  BY SMT, Z3, <1>0, DeviceAssumption DEF InUse, Contexts
<1>c. c \in Nat /\ c <= MaxQueues + 1
  BY Zenon, <1>s DEF CardinalityFacts
<1>f. /\ f \in Device /\ f.ns_frozen = n /\ f.ctx = dev.ctx
      /\ HeldSame(f, dev) /\ TableSame(f, dev) /\ CtrlSame(f, dev) /\ AdminSame(f, dev)
      /\ LogSame(f, dev)
  <2>1. CASE Froze
    <3>1. n \in Int /\ f = [dev EXCEPT !.ns_frozen = n] BY SMT, Z3, <1>0, <2>1 DEF nvme_freeze_queues
    <3> HIDE DEF n, f
    <3> QED BY Zenon, <1>0, <3>1, NsFrozenIs
  <2>2. CASE ~Froze
    <3>1. n = dev.ns_frozen /\ f = dev BY Zenon, <2>2 DEF nvme_freeze_queues
    <3> HIDE DEF n, f
    <3> QED BY Zenon, <1>0, <3>1 DEF HeldSame, TableSame, CtrlSame, AdminSame, LogSame
  <2> QED BY Zenon, <2>1, <2>2
<1> HIDE DEF f, n
<1>g. SuspendAll(f) = g
  <2>1. queue_count(f) = queue_count(dev) /\ f.queues = dev.queues
    BY Zenon, <1>f DEF TableSame, queue_count
  <2>2. 0 .. queue_count(f) - 1 \in SUBSET Contexts
    BY SMT, Z3, <1>0, <2>1, DeviceAssumption DEF Contexts
  <2>3. S = {i \in 0 .. queue_count(f) - 1 : Vector(f, i) # -1} BY Zenon, <2>1 DEF InUse, Vector
  <2> HIDE DEF S
  <2> QED BY Zenon, <1>f, <1>s, <2>2, <2>3, SuspendIs DEF SuspendAll
<1> HIDE DEF S, c
<1>1. /\ g \in Device
      /\ g.online = (dev.online + UINT - c) % UINT
      /\ queue_count(g) = queue_count(dev)
      /\ \A k \in 1 .. queue_count(dev) : g.queues[k] =
            IF k - 1 \in S THEN [vector |-> -1, ready |-> FALSE] ELSE dev.queues[k]
      /\ g.irqs = dev.irqs \ S
      /\ g.spurious = (dev.spurious \/ ~(S \subseteq dev.irqs))
      /\ g.frozen = IF 0 \in S /\ dev.admin_q # "null" THEN dev.frozen + 1 ELSE dev.frozen
      /\ g.admin_q = dev.admin_q
      /\ g.failed = dev.failed
      /\ g.oops = "no"
      /\ HeldSame(g, dev) /\ CtrlSame(g, dev) /\ g.ns_frozen = n /\ g.ctx = dev.ctx
  <2>1. IsSuspended(g, f, S) BY Zenon, <1>f, <1>s, SuspendedIs
  <2> USE DEF IsSuspended
  <2>2. queue_count(f) = queue_count(dev) /\ f.queues = dev.queues /\ ~BadAdmin(f)
    BY Zenon, <1>b, <1>f DEF TableSame, AdminSame, queue_count, BadAdmin
  <2> HIDE DEF g
  <2>3. g.online = (dev.online + UINT - c) % UINT BY Zenon, <1>f, <2>1 DEF TableSame, c
  <2>4. g.oops = "no" BY Zenon, <1>0, <1>f, <2>1, <2>2 DEF LogSame
  <2>5. \A k \in 1 .. queue_count(dev) : g.queues[k] =
            IF k - 1 \in S THEN [vector |-> -1, ready |-> FALSE] ELSE dev.queues[k]
    BY Zenon, <2>1, <2>2
  <2> QED BY Zenon, <1>f, <2>1, <2>2, <2>3, <2>4, <2>5
          DEF HeldSame, TableSame, CtrlSame, AdminSame, NsSame, LogSame
<1>d. dev' = nvme_dev_unmap(g) BY Zenon, <1>g DEF Shutdown, Goto, nvme_dev_shutdown, f
<1> HIDE DEF g
<1>z. /\ dev' \in Device
      /\ \A r \in Resources \ Three : dev'.held[r] = g.held[r]
      /\ g.held["bar"] > 0 => /\ dev'.held["bar"] = g.held["bar"] - 1
                              /\ dev'.held["regions"] = g.held["regions"] - 1
      /\ ~(g.held["bar"] > 0) => /\ dev'.held["bar"] = g.held["bar"]
                                 /\ dev'.held["regions"] = g.held["regions"]
      /\ dev'.held["pci_enabled"] = IF g.held["pci_enabled"] > 0
                                    THEN g.held["pci_enabled"] - 1 ELSE g.held["pci_enabled"]
      /\ TableSame(dev', g) /\ CtrlSame(dev', g) /\ AdminSame(dev', g) /\ NsSame(dev', g)
      /\ LogSame(dev', g)
  BY Zenon, <1>d, <1>1, UnmapIs
<1>h. /\ dev'.cqs = dev.cqs /\ dev'.ns_frozen = n /\ dev'.ctx = dev.ctx
      /\ dev'.admin_q = dev.admin_q /\ dev'.failed = dev.failed /\ dev'.oops = "no"
      /\ dev'.frozen = IF 0 \in S /\ dev.admin_q # "null" THEN dev.frozen + 1 ELSE dev.frozen
      /\ queue_count(dev') = queue_count(dev) /\ dev'.irqs = dev.irqs \ S
      /\ dev'.spurious = (dev.spurious \/ ~(S \subseteq dev.irqs))
      /\ dev'.online = (dev.online + UINT - c) % UINT
      /\ \A k \in 1 .. queue_count(dev) : dev'.queues[k] =
            IF k - 1 \in S THEN [vector |-> -1, ready |-> FALSE] ELSE dev.queues[k]
  <2>1. dev'.queues = g.queues /\ queue_count(dev') = queue_count(dev)
    BY Zenon, <1>1, <1>z DEF TableSame, queue_count
  <2>2. /\ dev'.irqs = g.irqs /\ dev'.online = g.online /\ dev'.admin_q = g.admin_q
        /\ dev'.frozen = g.frozen /\ dev'.ctx = g.ctx /\ dev'.ns_frozen = g.ns_frozen
    BY Zenon, <1>z DEF TableSame, AdminSame, NsSame
  <2>3. /\ dev'.cqs = dev.cqs /\ dev'.failed = g.failed /\ dev'.oops = g.oops
        /\ dev'.spurious = g.spurious
    BY Zenon, <1>1, <1>z DEF CtrlSame, LogSame
  <2> QED BY Zenon, <1>1, <2>1, <2>2, <2>3
<1>o. dev'.online = IF c <= dev.online THEN dev.online - c ELSE dev.online + UINT - c
  BY ZenonT(30), <1>0, <1>c, <1>h, OnlineAfter
<1>e. /\ \A r \in Resources \ Three : dev'.held[r] = dev.held[r]
      /\ Unmapped(dev')
  <2>1. dev.held = g.held BY Zenon, <1>1 DEF HeldSame
  <2> QED BY SMT, Z3, <1>h, <1>k, <1>z, <2>1 DEF Mapped, Unmapped
<1>m. \A T : Failed(T) => Failed(T)' BY Zenon, <1>h, FailedMono
<1>q. \A i \in Contexts : i < queue_count(dev) =>
         /\ i \in S => Vector(dev', i) = -1 /\ dev'.queues[i + 1].ready = FALSE
         /\ i \notin S => Vector(dev', i) = -1 /\ dev'.queues[i + 1] = dev.queues[i + 1]
  <2> SUFFICES ASSUME NEW i \in Contexts, i < queue_count(dev)
               PROVE  /\ i \in S => Vector(dev', i) = -1 /\ dev'.queues[i + 1].ready = FALSE
                      /\ i \notin S => Vector(dev', i) = -1 /\ dev'.queues[i + 1] = dev.queues[i + 1]
    BY Zenon
  <2>1. i + 1 \in 1 .. queue_count(dev) /\ (i + 1) - 1 = i BY SMT, Z3, <1>0 DEF Contexts
  <2>2. dev'.queues[i + 1] = IF i \in S THEN [vector |-> -1, ready |-> FALSE] ELSE dev.queues[i + 1]
    BY Zenon, <1>h, <2>1
  <2> QED BY SMT, Z3, <1>s, <2>2 DEF Vector
<1>v. Suspends(Contexts)' BY Zenon, <1>h, <1>q DEF Suspends
<1>i. dev'.irqs = {} BY Zenon, <1>0, <1>h, <1>s DEF IInv, TableInv, Device
<1>u. Suspends(Contexts) => c = 0
  <2>1. Suspends(Contexts) => S = {} BY Zenon, <1>s DEF Suspends
  <2> QED BY Zenon, <2>1 DEF CardinalityFacts, c
<1>2. TypeInv' BY Zenon, <1>0, <1>h, <1>z DEF TypeInv, Places, Stopped, Down
<1>3. HeldInv'
  <2>1. /\ \A r \in Base : dev.held[r] = 1
        /\ dev.held["tagset"] \in 0 .. 1 /\ dev.held["ns"] \in 0 .. 1
        /\ why = "probe" => dev.held["tagset"] = 0 /\ dev.held["ns"] = 0
    BY Zenon, <1>0 DEF IInv, HeldInv
  <2>2. /\ \A r \in Base : dev'.held[r] = 1
        /\ dev'.held["tagset"] = dev.held["tagset"] /\ dev'.held["ns"] = dev.held["ns"]
    BY Zenon, <1>e, <2>1 DEF Base, Resources
  <2> QED BY Zenon, <1>0, <1>e, <2>1, <2>2 DEF HeldInv, Down, First, Later, AllReleased
<1>4. AdminInv'
  <2>1. /\ dev'.held["admin_ref"] = dev.held["admin_ref"]
        /\ dev'.held["admin_tags"] = dev.held["admin_tags"]
        /\ dev'.held["admin_queue"] = dev.held["admin_queue"]
    BY Zenon, <1>e DEF Resources
  <2> QED BY Zenon, <1>0, <1>b, <1>h, <2>1 DEF IInv, AdminInv, AdminQueueValid, BadAdmin
<1>5. FreezeInv'
  <2>1. dev.frozen >= 0 /\ (dev.admin_q = "null" => dev.frozen = 0) BY Zenon DEF IInv, FreezeInv
  <2>2. dev.admin_q \in {"live", "dying"} => Once'
    <3> SUFFICES ASSUME dev.admin_q \in {"live", "dying"} PROVE Once' BY Zenon
    <3>1. IF queue_count(dev) > 0 /\ Vector(dev, 0) # -1 THEN Thawed ELSE Once
      BY Zenon, <1>0 DEF IInv, FreezeInv
    <3>2. 0 \in S <=> queue_count(dev) > 0 /\ Vector(dev, 0) # -1 BY Zenon, <1>0, <1>s
    <3>3. CASE 0 \in S
      <4>1. Thawed /\ dev'.frozen = dev.frozen + 1 BY Zenon, <1>h, <3>1, <3>2, <3>3
      <4> QED BY SMT, Z3, <1>0, <1>m, <2>1, <4>1 DEF Once, Thawed
    <3>4. CASE 0 \notin S
      <4>1. Once /\ dev'.frozen = dev.frozen BY Zenon, <1>h, <3>1, <3>2, <3>4
      <4> QED BY Zenon, <1>m, <4>1 DEF Once
    <3> QED BY Zenon, <3>3, <3>4
  <2> QED BY SMT, Z3, <1>0, <1>h, <2>1, <2>2 DEF FreezeInv, Later
<1>6. NsInv'
  <2>1. Used' = Used /\ dev'.held["ns"] = dev.held["ns"] /\ ~Serving'
    BY Zenon, <1>0, <1>e, <1>h DEF Used, Serving, Resources
  <2>2. Serving <=> dev.held["bar"] > 0 BY Zenon, <1>0 DEF Serving
  <2>3. /\ dev.ns_frozen >= 0
        /\ dev.held["ns"] = 0 => dev.ns_frozen = 0 /\ ~Used
        /\ dev.held["ns"] = 1 /\ ~Serving => dev.ns_frozen >= 1
        /\ Used => dev.ns_frozen = IF Serving THEN 0 ELSE 1
    BY ZenonT(30), <1>0 DEF IInv, NsInv
  <2>4. dev'.ns_frozen = IF Serving /\ dev.held["ns"] = 1 THEN dev.ns_frozen + 1 ELSE dev.ns_frozen
    BY SMT, Z3, <1>h, <1>k, <2>2 DEF n
  <2>5. /\ dev'.ns_frozen >= 0
        /\ dev.held["ns"] = 0 => dev'.ns_frozen = 0
        /\ dev.held["ns"] = 1 => dev'.ns_frozen >= 1
        /\ Used => dev'.ns_frozen = 1
    BY SMT, Z3, <1>0, <1>k, <2>3, <2>4
  <2> QED BY Zenon, <2>1, <2>3, <2>5 DEF NsInv
<1>7. ContextInv' BY Zenon, <1>0, <1>h, <1>m DEF IInv, ContextInv, ContextsHaveQueues
<1>8. TableInv' BY Zenon, <1>0, <1>i, <1>v DEF TableInv, Stopped, Down, First, Later
<1>9. CountInv'
  <2> SUFFICES ASSUME Exact' PROVE CountInv' BY Zenon DEF CountInv
  <2>1. Counts \/ (dev.online = 0 /\ Idle(Contexts) /\ Suspends(Contexts))
    BY Zenon, <1>0, <1>m DEF IInv, CountInv, Exact
  <2>2. CASE Counts
    <3>1. dev.online \in 1 .. queue_count(dev) BY Zenon, <2>2 DEF Counts
    <3>2. S = 0 .. dev.online - 1
      <4>1. \A i \in 0 .. dev.online - 1 : i \in Contexts /\ i < queue_count(dev) /\ i < dev.online
        BY SMT, Z3, <1>0, <3>1, DeviceAssumption DEF Contexts
      <4>2. \A i \in S : i \in Contexts /\ i < dev.online BY Zenon, <1>s, <2>2 DEF Counts
      <4>3. \A i \in 0 .. dev.online - 1 : i \in S BY Zenon, <1>s, <2>2, <4>1 DEF Counts
      <4>4. \A i \in S : i \in 0 .. dev.online - 1 BY SMT, Z3, <3>1, <4>2 DEF Contexts
      <4> QED BY Zenon, <4>3, <4>4
    <3>3. c = dev.online
      <4>1. dev.online \in 0 .. MaxQueues + 1 BY SMT, Z3, <1>0, <3>1, DeviceAssumption
      <4> QED BY Zenon, <3>2, <4>1 DEF CardinalityFacts, c
    <3>4. dev'.online = 0 BY SMT, Z3, <1>0, <1>o, <3>3
    <3>5. Idle(Contexts)' BY Zenon, <1>h, <1>q, <1>s, <2>2 DEF Idle, Ready, Counts
    <3> QED BY Zenon, <1>0, <1>h, <3>4, <3>5 DEF CountInv, Stopped, Down
  <2>3. CASE dev.online = 0 /\ Idle(Contexts) /\ Suspends(Contexts)
    <3>1. dev'.online = 0 BY SMT, Z3, <1>o, <1>u, <2>3
    <3>2. Idle(Contexts)' BY Zenon, <1>h, <1>q, <2>3 DEF Idle, Ready
    <3> QED BY Zenon, <1>0, <1>h, <3>1, <3>2 DEF CountInv, Stopped, Down
  <2> QED BY Zenon, <2>1, <2>2, <2>3
<1>10. CtrlInv' BY Zenon, <1>0, <1>h, <1>m DEF IInv, CtrlInv, First
<1>11. OnlineInv'
  <2>0. Slack' = Slack /\ Slack \in Nat /\ Slack >= MaxQueues + 1
    BY SMT, Z3, <1>0, DeviceAssumption DEF Slack
  <2>1. why # "remove" => Low(Slack)'
    <3> SUFFICES ASSUME why # "remove" PROVE Low(Slack)' BY Zenon
    <3>1. CASE why = "reset" /\ Suspends(Contexts) /\ Low(Slack)
      <4>1. dev'.online = dev.online BY SMT, Z3, <1>0, <1>o, <1>u, <3>1
      <4> QED BY Zenon, <2>0, <3>1, <4>1 DEF Low
    <3>2. CASE Running0
      <4>1. dev.online \in Nat /\ dev.online <= queue_count(dev) BY SMT, Z3, <1>0, <3>2 DEF Running0
      <4>2. 0 .. dev.online - 1 \subseteq S
        BY SMT, Z3, <1>0, <1>s, <3>2, <4>1, DeviceAssumption DEF Running0, Contexts
      <4>3. dev.online <= c
        <5>1. 0 .. dev.online - 1 \in SUBSET Contexts BY Zenon, <1>s, <4>2
        <5>2. Cardinality(0 .. dev.online - 1) <= c
          BY Zenon, <1>s, <4>2, <5>1 DEF CardinalityFacts, c
        <5>3. dev.online \in 0 .. MaxQueues + 1 BY SMT, Z3, <1>0, <4>1, DeviceAssumption
        <5>4. Cardinality(0 .. dev.online - 1) = dev.online BY Zenon, <5>3 DEF CardinalityFacts
        <5> QED BY Zenon, <5>2, <5>4
      <4>4. dev'.online = 0 \/ dev'.online >= UINT - Slack
        BY SMT, Z3, <1>0, <1>c, <1>o, <2>0, <4>1, <4>3, DeviceAssumption
      <4> QED BY Zenon, <2>0, <4>4 DEF Low
    <3> QED BY Zenon, <1>0, <3>1, <3>2 DEF IInv, OnlineInv
  <2> QED BY Zenon, <1>0, <2>1 DEF OnlineInv
<1>12. HandlerInv'
  <2> SUFFICES ASSUME ~Failed({"create"})' PROVE HandlerInv' BY Zenon DEF HandlerInv
  <2>1. Handled /\ (dev.spurious => Failed({"admin_irq"}))
    BY Zenon, <1>0, <1>m DEF IInv, HandlerInv
  <2>2. S \subseteq dev.irqs BY Zenon, <1>s, <2>1 DEF Handled
  <2>3. dev'.spurious => Failed({"admin_irq"})' BY Zenon, <1>h, <1>m, <2>1, <2>2
  <2> QED BY Zenon, <1>0, <2>3 DEF HandlerInv
<1> QED BY Zenon, <1>2, <1>3, <1>4, <1>5, <1>6, <1>7, <1>8, <1>9, <1>10, <1>11, <1>12 DEF IInv

\* nvme_dev_resume thaws the namespaces, or removes the disks when there are no
\* I/O queues.
LEMMA DevResumeStep ==
  ASSUME IInv, nvme_dev_resume
  PROVE  IInv'
<1>0. /\ pc = "started" /\ dev.oops = "no" /\ why' = why /\ why \in Reasons /\ max_qid' = max_qid
      /\ pc' = "up" /\ dev \in Device /\ max_qid \in 0 .. MaxQueues /\ 0 \in Contexts
      /\ queue_count(dev) <= MaxQueues + 1 /\ queue_count(dev) \in Nat
      /\ dev.online \in 0 .. UINT - 1 /\ dev.ns_frozen \in Int
  <2>1. dev \in Device BY Zenon DEF IInv, TypeInv
  <2>2. dev.online \in 0 .. UINT - 1 /\ dev.ns_frozen \in Int /\ queue_count(dev) \in Nat
    BY SMT, Z3, <2>1 DEF Device, queue_count
  <2> QED BY SMT, Z3, <2>1, <2>2, DeviceAssumption
          DEF nvme_dev_resume, Running, Goto, IInv, TypeInv, Contexts
<1>b. ~BadAdmin(dev) /\ dev.held["ns"] \in 0 .. 1 BY Zenon, <1>0 DEF IInv, AdminInv, HeldInv
<1>t. queue_count(dev) > 0 /\ Vector(dev, 0) # -1 /\ Running0
  BY Zenon, <1>0 DEF IInv, TableInv, OnlineInv, Later
<1> DEFINE Rest == /\ dev' \in Device /\ dev'.failed = dev.failed /\ dev'.spurious = dev.spurious
                   /\ HeldSame(dev', dev) /\ CtrlSame(dev', dev) /\ AdminSame(dev', dev)
                   /\ dev'.online = dev.online /\ dev'.irqs = dev.irqs
           Fewer == /\ dev.online < 2 /\ queue_count(dev') = 1 /\ dev'.queues[1] = dev.queues[1]
                    /\ \A i \in Contexts \ {0} : dev'.ctx[i] = "none"
                    /\ dev'.ctx[0] = dev.ctx[0] /\ dev'.ns_frozen = dev.ns_frozen
                    /\ dev'.oops = "no" \/ (dev'.oops = "context" /\ Failed(Losses))
           Thaws == /\ dev'.queues = dev.queues /\ dev'.ctx = dev.ctx /\ dev'.oops = "no"
                    /\ dev'.ns_frozen = dev.ns_frozen - (IF dev.held["ns"] = 1 THEN 1 ELSE 0)
<1>1. Rest /\ (Fewer \/ Thaws)
  <2>1. CASE dev.online < 2
    <3> DEFINE f == nvme_free_queues(dev, 1)
               S == Contexts \ {0}
    <3>1. /\ f \in Device
          /\ queue_count(f) = IF 1 < queue_count(dev) THEN 1 ELSE queue_count(dev)
          /\ \A k \in 1 .. queue_count(f) : f.queues[k] = dev.queues[k]
          /\ \A i \in Contexts :
               f.ctx[i] = IF i >= 1 /\ i < queue_count(dev) /\ dev.ctx[i] = "bound"
                          THEN "stale" ELSE dev.ctx[i]
          /\ HeldSame(f, dev) /\ CtrlSame(f, dev) /\ AdminSame(f, dev) /\ LogSame(f, dev)
          /\ f.online = dev.online /\ f.irqs = dev.irqs /\ f.ns_frozen = dev.ns_frozen
      BY Zenon, <1>0, FreeQueuesIs
    <3>2. dev' = ExitContexts(f, S) BY Zenon, <2>1 DEF nvme_dev_resume, Goto, nvme_dev_remove
    <3> HIDE DEF f
    <3>3. /\ dev' \in Device
          /\ \A i \in Contexts : dev'.ctx[i] = IF i \in S THEN "none" ELSE f.ctx[i]
          /\ dev'.oops = IF f.oops = "no" /\ (\E i \in S : f.ctx[i] = "stale")
                         THEN "context" ELSE f.oops
          /\ dev'.failed = f.failed /\ dev'.spurious = f.spurious
          /\ dev'.ns_frozen = f.ns_frozen
          /\ HeldSame(dev', f) /\ TableSame(dev', f) /\ CtrlSame(dev', f) /\ AdminSame(dev', f)
      BY SMT, Z3, <3>1, <3>2, ExitContextsIs
    <3>4. Rest BY Zenon, <3>1, <3>3 DEF HeldSame, TableSame, CtrlSame, AdminSame, LogSame
    <3>5. queue_count(f) = 1 /\ f.queues[1] = dev.queues[1] BY SMT, Z3, <1>0, <1>t, <3>1
    <3>6. queue_count(dev') = 1 /\ dev'.queues[1] = dev.queues[1]
      BY Zenon, <3>3, <3>5 DEF TableSame, queue_count
    <3>7. f.ctx[0] = dev.ctx[0] BY SMT, Z3, <1>0, <3>1
    <3>8. (\E i \in S : f.ctx[i] = "stale") => Failed(Losses)
      <4>1. CASE Failed({"create", "no_queues"}) BY Zenon, <4>1 DEF Failed, Losses
      <4>2. CASE dev.online >= queue_count(dev)
        <5>1. \A i \in Contexts : ~(i >= 1 /\ i < queue_count(dev))
          BY SMT, Z3, <1>0, <2>1, <4>2 DEF Contexts
        <5>2. \A i \in Contexts : f.ctx[i] = dev.ctx[i] BY Zenon, <3>1, <5>1
        <5> QED BY Zenon, <1>0, <5>2 DEF IInv, ContextInv
      <4> QED BY Zenon, <1>0, <4>1, <4>2 DEF IInv, ContextInv
    <3>9. Fewer BY Zenon, <1>0, <2>1, <3>1, <3>3, <3>6, <3>7, <3>8 DEF LogSame
    <3> QED BY Zenon, <3>4, <3>9
  <2>2. CASE ~(dev.online < 2)
    <3> DEFINE n == dev.ns_frozen - (IF dev.held["ns"] = 1 THEN 1 ELSE 0)
               f == nvme_unfreeze_queues(dev)
               b == f.online > queue_count(f)
    <3>1. /\ f \in Device /\ f.ns_frozen = n /\ f.ctx = dev.ctx
          /\ HeldSame(f, dev) /\ TableSame(f, dev) /\ CtrlSame(f, dev) /\ AdminSame(f, dev)
          /\ LogSame(f, dev)
      <4>1. CASE dev.held["ns"] > 0
        <5>1. n \in Int /\ f = [dev EXCEPT !.ns_frozen = n]
          BY SMT, Z3, <1>0, <1>b, <4>1 DEF nvme_unfreeze_queues
        <5> HIDE DEF n, f
        <5> QED BY Zenon, <1>0, <5>1, NsFrozenIs
      <4>2. CASE ~(dev.held["ns"] > 0)
        <5>1. n = dev.ns_frozen /\ f = dev BY SMT, Z3, <1>0, <1>b, <4>2 DEF nvme_unfreeze_queues
        <5> HIDE DEF n, f
        <5> QED BY Zenon, <1>0, <5>1 DEF HeldSame, TableSame, CtrlSame, AdminSame, LogSame
      <4> QED BY Zenon, <4>1, <4>2
    <3>2. dev' = OopsIf(f, b, "index") BY Zenon, <2>2 DEF nvme_dev_resume, Goto, nvme_set_irq_hints
    <3> HIDE DEF f, n
    <3>3. b = FALSE BY SMT, Z3, <1>0, <1>t, <3>1 DEF Running0, TableSame, queue_count
    <3> HIDE DEF b
    <3>4. /\ dev' \in Device /\ dev'.oops = IF f.oops = "no" /\ b THEN "index" ELSE f.oops
          /\ dev'.spurious = f.spurious /\ dev'.failed = f.failed
          /\ HeldSame(dev', f) /\ TableSame(dev', f) /\ CtrlSame(dev', f) /\ AdminSame(dev', f)
          /\ NsSame(dev', f)
      BY Zenon, <3>1, <3>2, <3>3, OopsIs
    <3>5. Rest BY Zenon, <3>1, <3>4 DEF HeldSame, TableSame, CtrlSame, AdminSame, LogSame
    <3>6. Thaws BY Zenon, <1>0, <3>1, <3>3, <3>4 DEF TableSame, NsSame, LogSame, n
    <3> QED BY Zenon, <3>5, <3>6
  <2> QED BY Zenon, <2>1, <2>2
<1>m. \A T : Failed(T) => Failed(T)' BY Zenon, <1>1, FailedMono
<1>h. /\ dev' \in Device /\ dev'.held = dev.held /\ dev'.cqs = dev.cqs /\ dev'.sqs = dev.sqs
      /\ dev'.admin_q = dev.admin_q /\ dev'.frozen = dev.frozen /\ dev'.spurious = dev.spurious
      /\ dev'.online = dev.online /\ dev'.irqs = dev.irqs /\ dev'.oops \in {"no", "context"}
  BY Zenon, <1>1 DEF HeldSame, CtrlSame, AdminSame
<1>q. /\ queue_count(dev') \in 1 .. queue_count(dev)
      /\ dev.online <= queue_count(dev')
      /\ \A i \in Contexts : i < queue_count(dev') => dev'.queues[i + 1] = dev.queues[i + 1]
      /\ queue_count(dev') = queue_count(dev) \/ (queue_count(dev') = 1 /\ dev.online < 2)
  <2>1. CASE Fewer
    <3>1. \A i \in Contexts : i < 1 => i = 0 BY SMT, Z3 DEF Contexts
    <3> QED BY SMT, Z3, <1>0, <1>t, <2>1, <3>1
  <2>2. CASE Thaws BY SMT, Z3, <1>0, <1>t, <2>2 DEF queue_count, Running0
  <2> QED BY Zenon, <1>1, <2>1, <2>2
<1>l. \A i \in Contexts : i < queue_count(dev') => i < queue_count(dev)
  BY SMT, Z3, <1>0, <1>q DEF Contexts
<1>v. /\ \A i \in Contexts : i < queue_count(dev') => Vector(dev', i) = Vector(dev, i)
      /\ Vector(dev', 0) # -1
  BY SMT, Z3, <1>0, <1>q, <1>t DEF Vector
<1>i. \A i \in dev.irqs : i \in Contexts /\ i < queue_count(dev') /\ Vector(dev, i) # -1
  <2>1. \A i \in dev.irqs : /\ i \in Contexts /\ i \in Nat /\ i < queue_count(dev)
                            /\ Vector(dev, i) # -1 /\ (i = 0 \/ i < dev.online)
    BY SMT, Z3, <1>0 DEF IInv, TableInv, Device, Contexts
  <2> QED BY SMT, Z3, <1>0, <1>q, <2>1
<1>2. TypeInv' BY SMT, Z3, <1>0, <1>h, <1>q, DeviceAssumption DEF TypeInv, Places, Later
<1>3. HeldInv' BY Zenon, <1>0, <1>h DEF IInv, HeldInv, Down, First, Later, Mapped, AllReleased
<1>4. AdminInv' BY Zenon, <1>0, <1>b, <1>h DEF IInv, AdminInv, BadAdmin, AdminQueueValid
<1>5. FreezeInv' BY Zenon, <1>0, <1>h, <1>m DEF IInv, FreezeInv, Thawed, Stopped, Down, Later
<1>6. NsInv'
  <2>1. /\ dev.ns_frozen >= 0
        /\ dev.held["ns"] = 0 => dev.ns_frozen = 0 /\ ~Used
        /\ dev.held["ns"] = 1 => dev.ns_frozen >= 1
        /\ Used => dev.ns_frozen = 1
    BY Zenon, <1>0 DEF IInv, NsInv, Serving
  <2>2. CASE Fewer
    <3>1. ~Used' BY Zenon, <2>2 DEF Used
    <3> QED BY Zenon, <1>0, <1>h, <2>1, <2>2, <3>1 DEF NsInv, Serving
  <2>3. CASE Thaws
    <3>1. Used' = Used BY Zenon, <2>3 DEF Used
    <3>2. /\ dev'.ns_frozen >= 0
          /\ dev.held["ns"] = 0 => dev'.ns_frozen = 0
          /\ Used => dev'.ns_frozen = 0
      BY SMT, Z3, <1>0, <1>b, <2>1, <2>3
    <3> QED BY Zenon, <1>0, <1>h, <2>1, <3>1, <3>2 DEF NsInv, Serving
  <2> QED BY Zenon, <1>1, <2>2, <2>3
<1>7. ContextInv'
  <2>1. (\E i \in Contexts : dev'.ctx[i] = "stale") => \E i \in Contexts : dev.ctx[i] = "stale"
    BY Zenon, <1>0, <1>1
  <2>2. dev'.oops = "context" => Failed(Losses)' BY Zenon, <1>1, <1>m
  <2> QED BY Zenon, <1>0, <1>m, <2>1, <2>2 DEF IInv, ContextInv, ContextsHaveQueues, Losses
<1>8. TableInv' BY SMT, Z3, <1>0, <1>h, <1>i, <1>q, <1>v DEF TableInv, Stopped, Down, First, Later
<1>9. CountInv'
  <2> SUFFICES ASSUME Exact' PROVE CountInv' BY Zenon DEF CountInv
  <2>1. /\ Counts
        /\ Failed({"refused"}) \/ \A i \in Contexts \ {0} : i < dev.online => i \in dev.sqs
    BY Zenon, <1>0, <1>m DEF IInv, CountInv, Exact
  <2>2. Counts'
    <3>2. dev'.online \in 1 .. queue_count(dev') BY SMT, Z3, <1>h, <1>q, <2>1 DEF Counts
    <3> QED BY Zenon, <1>h, <1>l, <1>q, <1>v, <2>1, <3>2 DEF Counts, Ready
  <2> QED BY Zenon, <1>0, <1>h, <1>m, <2>1, <2>2 DEF CountInv, Stopped, Down
<1>10. CtrlInv'
  <2>1. ~Failed({"delete"})' => \A i \in dev.cqs : i \in Contexts /\ i < queue_count(dev) /\ i < dev.online
    BY Zenon, <1>0, <1>m DEF IInv, CtrlInv, Device
  <2>2. \A i \in Contexts : i < queue_count(dev) /\ i < dev.online => i < queue_count(dev')
    BY SMT, Z3, <1>0, <1>q DEF Contexts
  <2> QED BY Zenon, <1>0, <1>h, <2>1, <2>2 DEF CtrlInv, First
<1>11. OnlineInv'
  <2>1. Running0'
    <3>1. \A i \in Contexts : i < dev.online => i < queue_count(dev')
      BY SMT, Z3, <1>0, <1>q DEF Contexts
    <3> QED BY Zenon, <1>h, <1>q, <1>t, <1>v, <3>1 DEF Running0
  <2> QED BY Zenon, <1>0, <2>1 DEF OnlineInv
<1>12. HandlerInv' BY Zenon, <1>0, <1>h, <1>l, <1>m, <1>v DEF IInv, HandlerInv, Handled
<1> QED BY Zenon, <1>2, <1>3, <1>4, <1>5, <1>6, <1>7, <1>8, <1>9, <1>10, <1>11, <1>12 DEF IInv

\* nvme_dev_add: a tag set and a namespace, one of them, or none.
LEMMA DevAddStep ==
  ASSUME IInv, nvme_dev_add
  PROVE  IInv'
<1>0. /\ pc = "add" /\ dev.oops = "no" /\ why = "probe" /\ max_qid' = max_qid
      /\ dev \in Device /\ max_qid \in 0 .. MaxQueues /\ 0 \in Contexts
      /\ queue_count(dev) <= MaxQueues + 1
      /\ dev.held["tagset"] = 0 /\ dev.held["ns"] = 0
  BY SMT, Z3, DeviceAssumption DEF nvme_dev_add, Running, IInv, TypeInv, HeldInv, Contexts
<1>b. ~BadAdmin(dev) BY Zenon, <1>0 DEF IInv, AdminInv
<1> DEFINE Rest == /\ dev' \in Device /\ dev.failed \subseteq dev'.failed
                   /\ dev'.spurious = dev.spurious /\ dev'.oops = "no"
                   /\ TableSame(dev', dev) /\ CtrlSame(dev', dev) /\ AdminSame(dev', dev)
                   /\ dev'.ns_frozen = dev.ns_frozen
           Bare == /\ \/ pc' = "shutdown" /\ why' = "reset"
                      \/ pc' = "up" /\ why' = why
                   /\ HeldSame(dev', dev) /\ dev'.ctx = dev.ctx
           Empty == /\ pc' = "up" /\ why' = why /\ Moved(dev', dev, {"tagset"}, 1) /\ dev'.ctx = dev.ctx
           Full == /\ pc' = "up" /\ why' = why /\ Moved(dev', dev, {"tagset", "ns"}, 1)
                   /\ \A i \in Contexts : dev'.ctx[i] \in {dev.ctx[i], "bound"}
<1>1. Rest /\ (Bare \/ Empty \/ Full)
  <2>1. ASSUME NEW call \in {"identify", "tag_set"}, NEW place, NEW reason,
               (place = "shutdown" /\ reason = "reset") \/ (place = "up" /\ reason = why),
               Goto(Fail(dev, call), place), why' = reason
        PROVE  Rest /\ Bare
    <3>1. /\ dev' \in Device /\ dev'.failed = dev.failed \cup {call}
          /\ dev'.spurious = dev.spurious /\ dev'.oops = dev.oops
          /\ HeldSame(dev', dev) /\ TableSame(dev', dev) /\ CtrlSame(dev', dev)
          /\ AdminSame(dev', dev) /\ NsSame(dev', dev)
      <4>1. call \in Calls BY Zenon, <2>1, CallNames
      <4>2. dev' = Fail(dev, call) BY Zenon, <2>1 DEF Goto
      <4> QED BY Zenon, <1>0, <4>1, <4>2, FailIs
    <3> QED BY Zenon, <1>0, <2>1, <3>1 DEF Goto, NsSame
  <2> DEFINE t == Take(dev, {"tagset"})
  <2>t. /\ t \in Device /\ Moved(t, dev, {"tagset"}, 1)
        /\ TableSame(t, dev) /\ CtrlSame(t, dev) /\ AdminSame(t, dev) /\ NsSame(t, dev)
        /\ LogSame(t, dev)
    BY Zenon, <1>0, TakeIs
  <2> HIDE DEF t
  <2>2. CASE Goto(Fail(t, "ns"), "up") /\ why' = why
    <3>1. /\ dev' \in Device /\ dev'.failed = t.failed \cup {"ns"}
          /\ dev'.spurious = t.spurious /\ dev'.oops = t.oops
          /\ HeldSame(dev', t) /\ TableSame(dev', t) /\ CtrlSame(dev', t)
          /\ AdminSame(dev', t) /\ NsSame(dev', t)
      BY Zenon, <2>t, <2>2, FailIs, CallNames DEF Goto
    <3>2. Rest BY Zenon, <1>0, <2>t, <3>1 DEF TableSame, CtrlSame, AdminSame, NsSame, LogSame
    <3>3. Empty BY Zenon, <2>t, <2>2, <3>1 DEF Goto, HeldSame, Moved, NsSame
    <3> QED BY Zenon, <3>2, <3>3
  <2>3. CASE Goto(nvme_alloc_ns(t), "up") /\ why' = why
    <3> DEFINE u == Take(t, {"ns"})
               x == [i \in Contexts |-> IF i \in 1 .. t.online - 1 THEN "bound" ELSE u.ctx[i]]
    <3>1. /\ u \in Device /\ Moved(u, t, {"ns"}, 1)
          /\ TableSame(u, t) /\ CtrlSame(u, t) /\ AdminSame(u, t) /\ NsSame(u, t)
          /\ LogSame(u, t)
      BY Zenon, <2>t, TakeIs
    <3>2. dev' = [u EXCEPT !.ctx = x] /\ pc' = "up" BY Zenon, <2>3 DEF Goto, nvme_alloc_ns
    <3> HIDE DEF u
    <3>3. /\ x \in [Contexts -> {"none", "bound", "stale"}]
          /\ \A i \in Contexts : x[i] \in {u.ctx[i], "bound"}
      BY Zenon, <3>1 DEF Device
    <3> HIDE DEF x
    <3>4. /\ dev' \in Device /\ dev'.ctx = x /\ dev'.held = u.held
          /\ TableSame(dev', u) /\ CtrlSame(dev', u) /\ AdminSame(dev', u)
          /\ dev'.ns_frozen = u.ns_frozen /\ LogSame(dev', u)
      BY Zenon, <3>1, <3>2, <3>3 DEF Device, TableSame, CtrlSame, AdminSame, LogSame
    <3>5. Rest BY Zenon, <1>0, <2>t, <3>1, <3>4 DEF TableSame, CtrlSame, AdminSame, NsSame, LogSame
    <3>6. Moved(dev', dev, {"tagset", "ns"}, 1) BY Zenon, <2>t, <3>1, <3>4 DEF Moved
    <3>7. \A i \in Contexts : dev'.ctx[i] \in {dev.ctx[i], "bound"}
      BY Zenon, <2>t, <3>1, <3>3, <3>4 DEF NsSame
    <3> QED BY Zenon, <2>3, <3>2, <3>5, <3>6, <3>7
  <2>4. CASE Goto(Fail(dev, "identify"), "shutdown") /\ why' = "reset" BY Zenon, <2>1, <2>4
  <2>5. CASE Goto(Fail(dev, "tag_set"), "up") /\ why' = why BY Zenon, <2>1, <2>5
  <2> QED BY Zenon, <2>2, <2>3, <2>4, <2>5 DEF nvme_dev_add, t
<1>m. \A T : Failed(T) => Failed(T)' BY Zenon, <1>1, FailedMono
<1>h. /\ dev' \in Device /\ dev'.cqs = dev.cqs /\ dev'.sqs = dev.sqs
      /\ dev'.queues = dev.queues /\ dev'.online = dev.online /\ dev'.irqs = dev.irqs
      /\ dev'.admin_q = dev.admin_q /\ dev'.frozen = dev.frozen /\ dev'.spurious = dev.spurious
      /\ dev'.ns_frozen = dev.ns_frozen /\ dev'.oops = "no" /\ pc' \in {"up", "shutdown"}
      /\ pc' = "up" => why' = "probe"
      /\ pc' = "shutdown" => why' = "reset"
      /\ queue_count(dev') = queue_count(dev)
  BY Zenon, <1>0, <1>1 DEF TableSame, CtrlSame, AdminSame, queue_count
<1>e. /\ \A r \in Resources \ {"tagset", "ns"} : dev'.held[r] = dev.held[r]
      /\ dev'.held["tagset"] \in 0 .. 1 /\ dev'.held["ns"] \in 0 .. 1
      /\ dev'.held["ns"] = 0 => dev'.ctx = dev.ctx
  <2>0. "tagset" \in Resources /\ "ns" \in Resources BY Zenon DEF Resources
  <2>1. CASE Bare BY SMT, Z3, <1>0, <2>1 DEF HeldSame
  <2>2. CASE Empty BY SMT, Z3, <1>0, <2>0, <2>2 DEF Moved
  <2>3. CASE Full BY SMT, Z3, <1>0, <2>0, <2>3 DEF Moved
  <2> QED BY Zenon, <1>1, <2>1, <2>2, <2>3
<1>v. queue_count(dev) > 0 /\ Vector(dev, 0) # -1 BY Zenon, <1>0 DEF IInv, TableInv, Later
<1>2. TypeInv' BY Zenon, <1>0, <1>h DEF TypeInv, Places, Later, Reasons
<1>3. HeldInv'
  <2>1. (\A r \in Base : dev.held[r] = 1) /\ Mapped(dev) BY Zenon, <1>0 DEF IInv, HeldInv, Later
  <2>2. (\A r \in Base : dev'.held[r] = 1) /\ Mapped(dev')
    BY Zenon, <1>e, <2>1 DEF Base, Mapped, Resources
  <2> QED BY Zenon, <1>e, <1>h, <2>2 DEF HeldInv, Down, First, Later, AllReleased
<1>4. AdminInv'
  BY Zenon, <1>0, <1>b, <1>e, <1>h DEF IInv, AdminInv, BadAdmin, AdminQueueValid, Resources
<1>5. FreezeInv'
  <2>1. queue_count(dev') > 0 /\ Vector(dev', 0) # -1 BY Zenon, <1>h, <1>v DEF Vector
  <2> QED BY Zenon, <1>0, <1>h, <1>m, <2>1 DEF IInv, FreezeInv, Thawed, Stopped, Down, Later
<1>6. NsInv'
  <2>1. dev.ns_frozen = 0 /\ ~Used BY Zenon, <1>0 DEF IInv, NsInv
  <2>2. dev'.held["ns"] = 0 => ~Used' BY Zenon, <1>e, <2>1 DEF Used
  <2>3. Mapped(dev) BY Zenon, <1>0 DEF IInv, HeldInv, Later
  <2>4. Serving' BY SMT, Z3, <1>e, <1>h, <2>3 DEF Serving, Mapped, Resources
  <2> QED BY SMT, Z3, <1>h, <2>1, <2>2, <2>4 DEF NsInv
<1>7. ContextInv'
  <2>1. (\E i \in Contexts : dev'.ctx[i] = "stale") => \E i \in Contexts : dev.ctx[i] = "stale"
    BY Zenon, <1>1
  <2> QED BY Zenon, <1>0, <1>h, <1>m, <2>1 DEF IInv, ContextInv, ContextsHaveQueues
<1>8. TableInv' BY Zenon, <1>0, <1>h, <1>v DEF IInv, TableInv, Vector, Stopped, Down, First, Later
<1>9. CountInv'
  BY Zenon, <1>0, <1>h, <1>m DEF IInv, CountInv, Exact, Counts, Ready, Vector, Stopped, Down
<1>10. CtrlInv' BY Zenon, <1>0, <1>h, <1>m DEF IInv, CtrlInv, First
<1>11. OnlineInv' BY Zenon, <1>0, <1>h DEF IInv, OnlineInv, Running0, Vector
<1>12. HandlerInv' BY Zenon, <1>0, <1>h, <1>m DEF IInv, HandlerInv, Handled, Vector
<1> QED BY Zenon, <1>2, <1>3, <1>4, <1>5, <1>6, <1>7, <1>8, <1>9, <1>10, <1>11, <1>12 DEF IInv

\* What is left to do after the shutdown when the device is removed.
LEMMA RemoveRestStep ==
  ASSUME IInv, RemoveRest
  PROVE  IInv'
<1>0. /\ pc = "removing" /\ dev.oops = "no" /\ why' = why /\ why \in Reasons /\ max_qid' = max_qid
      /\ pc' = "gone" /\ dev \in Device /\ max_qid \in 0 .. MaxQueues /\ 0 \in Contexts
  BY SMT, Z3, DeviceAssumption DEF RemoveRest, RemoveWith, Running, Goto, IInv, TypeInv, Contexts
<1>k. \A r \in Resources : dev.held[r] \in Int BY Zenon, <1>0 DEF Device
<1>a. /\ dev.admin_q \in {"null", "live", "dying"}
      /\ dev.held["admin_ref"] = IF dev.admin_q \in {"live", "dying"} THEN 1 ELSE 0
      /\ dev.held["admin_tags"] = IF dev.admin_q = "live" THEN 1 ELSE 0
      /\ dev.held["admin_queue"] = IF dev.admin_q = "live" THEN 1 ELSE 0
  BY Zenon, <1>0 DEF IInv, AdminInv, BadAdmin, Device
<1>i. dev.irqs = {} BY Zenon, <1>0 DEF IInv, TableInv, Stopped, Down
<1> DEFINE S == Contexts \ {0}
           a == ExitContexts(dev, S)
           b == nvme_dev_remove_admin(a)
           q == nvme_free_queues(b, 0)
           D == {"device", "pools"}
           p == Drop(q, D)
           T == {"pci_ref", "device_ref", "instance", "admin_ref", "mem"}
                  \cup (IF p.held["ns"] > 0 THEN {"ns"} ELSE {})
                  \cup (IF p.held["tagset"] > 0 \/ "tag_set" \in p.failed THEN {"tagset"} ELSE {})
           g == Drop(p, T)
           w == p.admin_q # "dying"
           Two == {"admin_queue", "admin_tags"}
           Live == dev.admin_q = "live"
<1>1. /\ a \in Device /\ HeldSame(a, dev) /\ TableSame(a, dev) /\ AdminSame(a, dev)
      /\ a.failed = dev.failed /\ a.spurious = dev.spurious /\ a.ns_frozen = dev.ns_frozen
      /\ a.oops \in {"no", "context"} /\ a.ctx[0] = dev.ctx[0]
      /\ a.oops = "context" => \E i \in Contexts : dev.ctx[i] = "stale"
  <2>1. /\ a \in Device
        /\ \A i \in Contexts : a.ctx[i] = IF i \in S THEN "none" ELSE dev.ctx[i]
        /\ a.oops = IF dev.oops = "no" /\ (\E i \in S : dev.ctx[i] = "stale")
                    THEN "context" ELSE dev.oops
        /\ a.failed = dev.failed /\ a.spurious = dev.spurious
        /\ a.ns_frozen = dev.ns_frozen
        /\ HeldSame(a, dev) /\ TableSame(a, dev) /\ CtrlSame(a, dev) /\ AdminSame(a, dev)
    BY Zenon, <1>0, ExitContextsIs
  <2> HIDE DEF a
  <2> QED BY Zenon, <1>0, <2>1
<1>d. /\ dev' = OopsIf(g, w, "admin_q") /\ w \in BOOLEAN
  BY Zenon DEF RemoveRest, RemoveWith, Goto, nvme_free_dev, nvme_dev_remove
<1> HIDE DEF a
<1>2. /\ b \in Device /\ Moved(b, dev, IF Live THEN Two ELSE {}, -1)
      /\ b.admin_q = (IF Live THEN "dying" ELSE dev.admin_q) /\ b.frozen = dev.frozen
      /\ b.failed = dev.failed /\ b.spurious = dev.spurious /\ b.ns_frozen = dev.ns_frozen
      /\ b.oops \in {"no", "context"}
      /\ b.oops = "context" => \E i \in Contexts : dev.ctx[i] = "stale"
      /\ b.irqs = {}
  <2>1. CASE Live
    <3>0. a.admin_q = "live" BY Zenon, <1>1, <2>1 DEF AdminSame
    <3>1. /\ b \in Device /\ Moved(b, a, Two, -1)
          /\ b.admin_q = IF a.held["admin_ref"] > 0 THEN "dying" ELSE "freed"
          /\ b.frozen = a.frozen
          /\ b.oops = IF a.oops # "no" THEN a.oops
                      ELSE IF a.ctx[0] = "stale" THEN "context"
                      ELSE IF BadAdmin(a) THEN "admin_q" ELSE "no"
          /\ b.failed = a.failed /\ b.spurious = a.spurious
          /\ b.ns_frozen = a.ns_frozen /\ TableSame(b, a)
      BY Zenon, <1>1, <3>0, RemoveAdminIs
    <3> HIDE DEF b
    <3>2. b.admin_q = "dying" BY SMT, Z3, <1>1, <1>a, <2>1, <3>1 DEF HeldSame
    <3>3. ~BadAdmin(a) BY Zenon, <3>0 DEF BadAdmin
    <3>4. Moved(b, dev, Two, -1) BY Zenon, <1>1, <3>1 DEF Moved, HeldSame
    <3>5. b.irqs = {} BY Zenon, <1>1, <1>i, <3>1 DEF TableSame
    <3>6. /\ b.oops \in {"no", "context"}
          /\ b.oops = "context" => \E i \in Contexts : dev.ctx[i] = "stale"
      BY Zenon, <1>0, <1>1, <3>1, <3>3
    <3> QED BY Zenon, <1>1, <2>1, <3>1, <3>2, <3>4, <3>5, <3>6 DEF AdminSame
  <2>2. CASE ~Live
    <3>1. a.admin_q \in {"null", "dying"} BY Zenon, <1>1, <1>a, <2>2 DEF AdminSame
    <3>2. b = a BY Zenon, <3>1 DEF nvme_dev_remove_admin
    <3> HIDE DEF b
    <3> QED BY Zenon, <1>1, <1>i, <2>2, <3>2 DEF HeldSame, Moved, TableSame, AdminSame
  <2> QED BY Zenon, <2>1, <2>2
<1> HIDE DEF b
<1>3. /\ q \in Device /\ HeldSame(q, b) /\ AdminSame(q, b) /\ LogSame(q, b)
      /\ q.irqs = {} /\ q.ns_frozen = dev.ns_frozen /\ queue_count(q) <= MaxQueues + 1
  <2>1. /\ q \in Device
        /\ queue_count(q) = IF 0 < queue_count(b) THEN 0 ELSE queue_count(b)
        /\ HeldSame(q, b) /\ CtrlSame(q, b) /\ AdminSame(q, b) /\ LogSame(q, b)
        /\ q.online = b.online /\ q.irqs = b.irqs /\ q.ns_frozen = b.ns_frozen
    BY Zenon, <1>2, FreeQueuesIs
  <2>2. queue_count(b) \in Nat BY SMT, Z3, <1>2 DEF queue_count, Device
  <2> HIDE DEF q
  <2> QED BY SMT, Z3, <1>2, <2>1, <2>2, DeviceAssumption
<1> HIDE DEF q
<1>4. /\ p \in Device /\ Moved(p, q, D, -1)
      /\ TableSame(p, q) /\ CtrlSame(p, q) /\ AdminSame(p, q) /\ NsSame(p, q) /\ LogSame(p, q)
  BY Zenon, <1>3, DropIs
<1> HIDE DEF p, D
<1>5. /\ g \in Device /\ Moved(g, p, T, -1)
      /\ TableSame(g, p) /\ CtrlSame(g, p) /\ AdminSame(g, p) /\ NsSame(g, p) /\ LogSame(g, p)
  BY Zenon, <1>4, DropIs
<1> HIDE DEF g, w, T
<1>6. /\ dev' \in Device /\ dev'.oops = IF g.oops = "no" /\ w THEN "admin_q" ELSE g.oops
      /\ dev'.spurious = g.spurious /\ dev'.failed = g.failed
      /\ HeldSame(dev', g) /\ TableSame(dev', g) /\ CtrlSame(dev', g) /\ AdminSame(dev', g)
      /\ NsSame(dev', g)
  BY Zenon, <1>5, <1>d, OopsIs
<1>h. /\ dev'.admin_q = (IF Live THEN "dying" ELSE dev.admin_q) /\ dev'.frozen = dev.frozen
      /\ dev'.failed = dev.failed /\ dev'.spurious = dev.spurious
      /\ dev'.ns_frozen = dev.ns_frozen /\ dev'.irqs = {} /\ queue_count(dev') <= MaxQueues + 1
      /\ dev'.oops = IF b.oops = "no" /\ dev'.admin_q # "dying" THEN "admin_q" ELSE b.oops
  <2>1. /\ dev'.irqs = {} /\ dev'.ns_frozen = dev.ns_frozen /\ queue_count(dev') <= MaxQueues + 1
        /\ p.failed = dev.failed
    BY Zenon, <1>2, <1>3, <1>4, <1>5, <1>6 DEF TableSame, NsSame, LogSame, queue_count
  <2>2. /\ dev'.admin_q = p.admin_q /\ p.admin_q = (IF Live THEN "dying" ELSE dev.admin_q)
        /\ dev'.frozen = dev.frozen
    BY Zenon, <1>2, <1>3, <1>4, <1>5, <1>6 DEF AdminSame
  <2>3. g.oops = b.oops /\ dev'.failed = dev.failed /\ dev'.spurious = dev.spurious
    BY Zenon, <1>2, <1>3, <1>4, <1>5, <1>6 DEF LogSame
  <2> QED BY Zenon, <1>6, <2>1, <2>2, <2>3 DEF w
<1>m. \A X : Failed(X) => Failed(X)' BY Zenon, <1>h, FailedMono
<1>r. /\ \A r \in Resources : b.held[r] = IF Live /\ r \in Two THEN dev.held[r] + (-1) ELSE dev.held[r]
      /\ \A r \in Resources : p.held[r] = IF r \in D THEN b.held[r] + (-1) ELSE b.held[r]
      /\ \A r \in Resources : dev'.held[r] = IF r \in T THEN p.held[r] + (-1) ELSE p.held[r]
      /\ p.failed = dev.failed
  <2>1. b.held = q.held /\ dev'.held = g.held BY Zenon, <1>3, <1>6 DEF HeldSame
  <2>2. p.failed = dev.failed BY Zenon, <1>2, <1>3, <1>4 DEF LogSame
  <2>3. \A r \in Resources : b.held[r] = IF Live /\ r \in Two THEN dev.held[r] + (-1) ELSE dev.held[r]
    BY Zenon, <1>2 DEF Moved
  <2>4. \A r \in Resources : p.held[r] = IF r \in D THEN b.held[r] + (-1) ELSE b.held[r]
    BY Zenon, <1>4, <2>1 DEF Moved
  <2>5. \A r \in Resources : dev'.held[r] = IF r \in T THEN p.held[r] + (-1) ELSE p.held[r]
    BY Zenon, <1>5, <2>1 DEF Moved
  <2> QED BY Zenon, <2>2, <2>3, <2>4, <2>5
<1>u. /\ \A r \in Base : dev.held[r] = 1
      /\ dev.held["tagset"] \in 0 .. 1 /\ dev.held["ns"] \in 0 .. 1 /\ Unmapped(dev)
  BY Zenon, <1>0 DEF IInv, HeldInv, Down
<1>w. /\ {"pci_ref", "device_ref", "instance", "mem", "device", "pools", "ns", "tagset",
          "admin_ref", "admin_queue", "admin_tags", "bar", "regions", "pci_enabled"} = Resources
      /\ Base = {"mem", "pci_ref", "instance", "pools", "device", "device_ref"}
  BY Zenon DEF Resources, Base
<1>x. dev'.held["pci_enabled"] = 0
  BY Zenon, <1>r, <1>u, <1>w DEF D, T, Unmapped
<1>y. ASSUME dev'.oops = "no", NEW r \in Resources
      PROVE  \/ dev'.held[r] = 0
             \/ r = "regions" /\ Failed({"remap"})'
             \/ r = "tagset" /\ Failed({"tag_set"})'
  <2>0. dev.admin_q # "null" BY Zenon, <1>2, <1>a, <1>h, <1>y
  <2>1. CASE r \in {"pci_ref", "device_ref", "instance", "mem"}
    <3>1. r \in Base /\ r \in T /\ r \notin D /\ r \notin Two BY Zenon, <2>1, <1>w DEF T, D
    <3> HIDE DEF Two
    <3> QED BY SMT, Z3, <1>r, <1>u, <3>1
  <2>2. CASE r \in {"device", "pools"}
    <3>1. r \in Base /\ r \notin T /\ r \in D /\ r \notin Two BY Zenon, <2>2, <1>w DEF T, D
    <3> HIDE DEF Two
    <3> QED BY SMT, Z3, <1>r, <1>u, <3>1
  <2>3. CASE r = "ns"
    <3>1. p.held["ns"] = dev.held["ns"] BY Zenon, <1>r, <1>w DEF D
    <3>2. "ns" \in T <=> p.held["ns"] > 0 BY Zenon DEF T
    <3> QED BY SMT, Z3, <1>r, <1>u, <2>3, <3>1, <3>2
  <2>4. CASE r = "tagset"
    <3>1. p.held["tagset"] = dev.held["tagset"] BY Zenon, <1>r, <1>w DEF D
    <3>2. "tagset" \in T <=> p.held["tagset"] > 0 \/ "tag_set" \in p.failed BY Zenon DEF T
    <3>3. "tag_set" \in p.failed => Failed({"tag_set"})' BY Zenon, <1>h, <1>r, HasFailed
    <3> QED BY SMT, Z3, <1>r, <1>u, <2>4, <3>1, <3>2, <3>3
  <2>5. CASE r = "admin_ref"
    <3>1. r \in T /\ r \notin D /\ r \notin Two BY Zenon, <2>5 DEF T, D
    <3>2. dev.held[r] = 1 BY Zenon, <1>a, <2>0, <2>5
    <3> HIDE DEF Two
    <3> QED BY SMT, Z3, <1>r, <3>1, <3>2
  <2>6. CASE r \in {"admin_queue", "admin_tags"}
    <3>1. r \notin T /\ r \notin D /\ r \in Two BY Zenon, <2>6 DEF T, D
    <3>2. dev.held[r] = IF Live THEN 1 ELSE 0 BY Zenon, <1>a, <2>6
    <3> HIDE DEF Two
    <3> QED BY SMT, Z3, <1>r, <3>1, <3>2
  <2>7. CASE r \in {"bar", "regions", "pci_enabled"}
    <3>1. r \notin T /\ r \notin D /\ r \notin Two BY Zenon, <2>7 DEF T, D
    <3>2. dev'.held[r] = dev.held[r]
      <4> HIDE DEF Two
      <4> QED BY Zenon, <1>r, <3>1
    <3>3. "remap" \in dev.failed => Failed({"remap"})' BY Zenon, <1>h, HasFailed
    <3> QED BY Zenon, <1>u, <2>7, <3>2, <3>3 DEF Unmapped
  <2> QED BY Zenon, <1>w, <2>1, <2>2, <2>3, <2>4, <2>5, <2>6, <2>7
<1>7. TypeInv' BY Zenon, <1>0, <1>6, <1>h DEF TypeInv, Places
<1>8. HeldInv' BY Zenon, <1>0, <1>x, <1>y DEF HeldInv, AllReleased, Down, First, Later
<1>9. AdminInv'
  <2>1. dev'.admin_q \in {"null", "dying"} BY Zenon, <1>a, <1>h
  <2>2. dev'.oops = "admin_q" => dev'.admin_q = "null" BY Zenon, <1>2, <1>h, <2>1
  <2> QED BY Zenon, <1>0, <2>1, <2>2 DEF AdminInv, AdminQueueValid, BadAdmin
<1>10. FreezeInv' BY Zenon, <1>0, <1>a, <1>h DEF IInv, FreezeInv, Stopped, Down, Later
<1>11. NsInv' BY Zenon, <1>0, <1>h DEF IInv, NsInv
<1>12. ContextInv'
  <2>1. dev'.oops = "context" => Failed(Losses)' BY Zenon, <1>0, <1>2, <1>h, <1>m DEF IInv, ContextInv
  <2> QED BY Zenon, <1>0, <2>1 DEF ContextInv, ContextsHaveQueues, Losses
<1>13. TableInv' BY Zenon, <1>0, <1>h DEF TableInv, Stopped, Down, First, Later
<1>14. CountInv' BY Zenon, <1>0, <1>2, <1>h DEF CountInv, Stopped, Down
<1>15. CtrlInv' BY Zenon, <1>0 DEF CtrlInv, First
<1>16. OnlineInv' BY Zenon, <1>0 DEF OnlineInv
<1>17. HandlerInv' BY Zenon, <1>0, <1>h, <1>m DEF IInv, HandlerInv
<1> QED BY Zenon, <1>7, <1>8, <1>9, <1>10, <1>11, <1>12, <1>13, <1>14, <1>15, <1>16, <1>17 DEF IInv

-----------------------------------------------------------------------------
(* The invariant, and what follows from it.                                *)

\* The invariant holds before the device is probed.
LEMMA InitStep == Init => IInv
<1> SUFFICES ASSUME Init PROVE IInv BY Zenon
<1>0. dev = NewDevice /\ pc = "absent" /\ why = "probe" /\ max_qid = 0 BY Zenon DEF Init
<1>1. /\ dev \in Device /\ queue_count(dev) = 0 /\ dev.online = 0 /\ dev.irqs = {}
      /\ dev.cqs = {} /\ dev.admin_q = "null" /\ dev.frozen = 0 /\ dev.ns_frozen = 0
      /\ (\A i \in Contexts : dev.ctx[i] = "none") /\ dev.spurious = FALSE /\ dev.oops = "no"
      /\ \A r \in Resources : dev.held[r] = 0
  BY SMT, Z3, <1>0, NewIs DEF queue_count
<1>2. TypeInv BY SMT, Z3, <1>0, <1>1, DeviceAssumption DEF TypeInv, Places, Reasons
<1>3. HeldInv BY SMT, Z3, <1>0, <1>1 DEF HeldInv, Resources, Down, First, Later, AllReleased
<1>4. AdminInv BY Zenon, <1>0, <1>1 DEF AdminInv, Resources, BadAdmin, AdminQueueValid
<1>5. FreezeInv BY SMT, Z3, <1>1 DEF FreezeInv
<1>6. NsInv BY SMT, Z3, <1>1 DEF NsInv, Used, Resources
<1>7. ContextInv BY Zenon, <1>0, <1>1 DEF ContextInv, ContextsHaveQueues
<1>8. TableInv BY Zenon, <1>0, <1>1 DEF TableInv, Stopped, Down, First, Later
<1>9. CountInv BY Zenon, <1>0, <1>1 DEF CountInv, Stopped, Down
<1>10. CtrlInv BY Zenon, <1>1 DEF CtrlInv
<1>11. OnlineInv /\ HandlerInv BY Zenon, <1>0, <1>1 DEF OnlineInv, HandlerInv
<1> QED BY Zenon, <1>2, <1>3, <1>4, <1>5, <1>6, <1>7, <1>8, <1>9, <1>10, <1>11 DEF IInv

\* It says nothing of the other variables.
LEMMA Stutter ==
  ASSUME IInv, UNCHANGED vars
  PROVE  IInv'
<1>0. dev' = dev /\ pc' = pc /\ why' = why /\ max_qid' = max_qid BY Zenon DEF vars
<1>1. TypeInv' BY Zenon, <1>0 DEF IInv, TypeInv, queue_count
<1>2. HeldInv' BY Zenon, <1>0 DEF IInv, HeldInv, Mapped, Unmapped, AllReleased, Failed
<1>3. AdminInv' BY Zenon, <1>0 DEF IInv, AdminInv, BadAdmin, AdminQueueValid, Failed
<1>4. FreezeInv' BY Zenon, <1>0 DEF IInv, FreezeInv, Once, Thawed, Failed, Vector, queue_count
<1>5. NsInv' BY Zenon, <1>0 DEF IInv, NsInv, Used, Serving
<1>6. ContextInv' BY Zenon, <1>0 DEF IInv, ContextInv, ContextsHaveQueues, Failed, queue_count
<1>7. TableInv' BY Zenon, <1>0 DEF IInv, TableInv, Suspends, Vector, Failed, queue_count
<1>8. CountInv'
  BY Zenon, <1>0 DEF IInv, CountInv, Counts, Exact, Idle, Ready, Suspends, Vector, Failed, queue_count
<1>9. CtrlInv' BY Zenon, <1>0 DEF IInv, CtrlInv, Failed, queue_count
<1>10. OnlineInv'
  BY Zenon, <1>0 DEF IInv, OnlineInv, Low, Begun, Slack, Running0, Suspends, Vector, queue_count
<1>11. HandlerInv' BY Zenon, <1>0 DEF IInv, HandlerInv, Handled, Vector, Failed, queue_count
<1> QED BY Zenon, <1>1, <1>2, <1>3, <1>4, <1>5, <1>6, <1>7, <1>8, <1>9, <1>10, <1>11 DEF IInv

\* Every step of the device preserves the invariant.
LEMMA Inductive ==
  ASSUME CardinalityFacts, IInv, [Next]_vars
  PROVE  IInv'
  BY Zenon, ProbeStep, MapStep, ConfigureStep, JoinListStep, AdminTagsStep, SetupIoStep, AllocStep,
     CreateStep, FailStartStep, AsyncProbeStep, DevResumeStep, DevAddStep, StartFailedStep,
     ShutdownStep, TakeDownStep, ResumeStep, RemoveStep, RemoveRestStep, Stutter
  DEF Next

Fin == INSTANCE FiniteSetTheorems

\* Cardinalities of sets of queues, from the library.
LEMMA CountsOfQueues == CardinalityFacts
<1>1. \A S : IsFiniteSet(S) <=> Fin!IsFiniteSet(S)
  BY Zenon DEF IsFiniteSet, Fin!IsFiniteSet
<1>2. \A S : Cardinality(S) = Fin!Cardinality(S)
  BY Zenon DEF Cardinality, Fin!Cardinality
<1>3. ASSUME NEW n \in 0 .. MaxQueues + 1
      PROVE  IsFiniteSet(0 .. n - 1) /\ Cardinality(0 .. n - 1) = n
  <2>1. 0 \in Int /\ n - 1 \in Int /\ n \in Nat BY SMT, Z3, <1>3, DeviceAssumption
  <2>2. /\ IsFiniteSet(0 .. n - 1)
        /\ Cardinality(0 .. n - 1) = IF 0 > n - 1 THEN 0 ELSE (n - 1) - 0 + 1
    BY Zenon, <1>1, <1>2, <2>1, Fin!FS_Interval
  <2> QED BY SMT, Z3, <2>1, <2>2
<1>4. IsFiniteSet(Contexts) /\ Cardinality(Contexts) = MaxQueues + 1
  <2>1. MaxQueues + 1 \in 0 .. MaxQueues + 1 /\ (MaxQueues + 1) - 1 = MaxQueues
    BY SMT, Z3, DeviceAssumption
  <2> QED BY Zenon, <1>3, <2>1 DEF Contexts
<1>5. ASSUME NEW T \in SUBSET Contexts
      PROVE  IsFiniteSet(T) /\ Cardinality(T) \in Nat /\ Cardinality(T) <= MaxQueues + 1
  BY Zenon, <1>1, <1>2, <1>4, Fin!FS_Subset, Fin!FS_CardinalityType
<1>6. ASSUME NEW T \in SUBSET Contexts, NEW S \in SUBSET T
      PROVE  Cardinality(S) <= Cardinality(T)
  BY Zenon, <1>1, <1>2, <1>5, Fin!FS_Subset
<1>7. Cardinality({}) = 0 /\ Cardinality({0}) = 1
  BY Zenon, <1>2, Fin!FS_EmptySet, Fin!FS_Singleton
<1>8. \A S, T \in SUBSET Contexts : S \subseteq T => Cardinality(S) <= Cardinality(T)
  BY Zenon, <1>6
<1> QED BY Zenon, <1>3, <1>5, <1>7, <1>8 DEF CardinalityFacts

\* Every reachable state of a device satisfies the invariant, for any number of
\* queues and of resets, and whatever calls fail.
THEOREM Invariant == Spec => []IInv
<1>1. IInv /\ [Next]_vars => IInv' BY Zenon, CountsOfQueues, Inductive
<1> QED BY <1>1, InitStep, PTL DEF Spec

\* Whatever fails while the device is probed, started, reset and removed, what
\* was acquired is given back exactly once when it is gone (nvme_probe,
\* nvme_dev_start, nvme_remove, nvme_free_dev), with the two exceptions that
\* AllReleased names.
THEOREM AllReleasedHolds == Spec => []AllReleased
<1>1. IInv => AllReleased BY Zenon DEF IInv, HeldInv
<1> QED BY <1>1, Invariant, PTL

\* admin_q is used only while it points to a request queue (nvme_suspend_queue,
\* nvme_alloc_admin_tags, nvme_dev_remove_admin, nvme_free_dev), but for the
\* failures that AdminQueueValid names.
THEOREM AdminQueueValidHolds == Spec => []AdminQueueValid
<1>1. IInv => AdminQueueValid BY Zenon DEF IInv, AdminInv
<1> QED BY <1>1, Invariant, PTL

\* No hardware context's queue is freed under it (nvme_exit_hctx), but after the
\* failures that free queues with contexts.
THEOREM ContextsHaveQueuesHolds == Spec => []ContextsHaveQueues
<1>1. IInv => ContextsHaveQueues BY Zenon DEF IInv, ContextInv
<1> QED BY <1>1, Invariant, PTL

\* The freezes of nvme_dev_shutdown and the thaws of nvme_dev_start and
\* nvme_dev_resume pair up, however many starts fail and in whatever order.
THEOREM FreezesBalancedHolds == Spec => []FreezesBalanced
<1>1. IInv => FreezesBalanced
  <2> SUFFICES ASSUME IInv PROVE FreezesBalanced BY Zenon
  <2>1. dev.frozen >= 0 /\ dev.ns_frozen >= 0 BY Zenon DEF IInv, FreezeInv, NsInv
  <2>2. pc = "io" /\ dev.admin_q = "live" => dev.frozen = 0 \/ Failed({"thread"})
    BY Zenon DEF IInv, FreezeInv, Thawed
  <2>3. pc = "up" /\ Used => dev.ns_frozen = 0 BY Zenon DEF IInv, NsInv, Serving
  <2> QED BY Zenon, <2>1, <2>2, <2>3 DEF FreezesBalanced, Used
<1> QED BY <1>1, Invariant, PTL

\* online_queues counts the queues that are ready, and the controller has no
\* queue whose memory is freed, for any number of queues and restarts.
THEOREM OnlineIsReadyHolds == Spec => []OnlineIsReady
<1>1. IInv => OnlineIsReady
  <2> SUFFICES ASSUME IInv PROVE OnlineIsReady BY Zenon
  <2> DEFINE ready == {i \in Contexts : i < queue_count(dev) /\ dev.queues[i + 1].ready}
  <2>1. dev.held["pci_enabled"] > 0 /\ ~Failed({"delete"}) => \A i \in dev.cqs : i < queue_count(dev)
    BY SMT, Z3 DEF IInv, HeldInv, CtrlInv
  <2>2. Exact => dev.oops # "index" BY Zenon DEF IInv, CountInv
  <2>3. Exact /\ pc = "up" =>
          /\ ready = 0 .. dev.online - 1 /\ dev.irqs = ready
          /\ ready \ {0} \subseteq dev.sqs \/ Failed({"refused"})
    <3> SUFFICES ASSUME Exact, pc = "up"
                 PROVE  /\ ready = 0 .. dev.online - 1 /\ dev.irqs = ready
                        /\ ready \ {0} \subseteq dev.sqs \/ Failed({"refused"})
      BY Zenon
    <3>1. /\ Counts
          /\ Failed({"refused"}) \/ \A i \in Contexts \ {0} : i < dev.online => i \in dev.sqs
      BY Zenon DEF IInv, CountInv
    <3>2. queue_count(dev) \in Nat /\ queue_count(dev) <= MaxQueues + 1
      BY SMT, Z3 DEF IInv, TypeInv, queue_count, Device
    <3>3. dev.online \in 1 .. queue_count(dev) BY Zenon, <3>1 DEF Counts
    <3>4. \A i \in ready : i \in 0 .. dev.online - 1
      BY SMTT(20), Z3, <3>1, <3>2, <3>3 DEF Counts, Ready, Contexts
    <3>5. \A i \in 0 .. dev.online - 1 : i \in ready
      <4> SUFFICES ASSUME NEW i \in 0 .. dev.online - 1 PROVE i \in ready BY Zenon
      <4>1. i \in Contexts /\ i < queue_count(dev) /\ i < dev.online
        BY SMTT(20), Z3, <3>2, <3>3, DeviceAssumption DEF Contexts
      <4> QED BY Zenon, <3>1, <4>1 DEF Counts, Ready
    <3>6. ready = 0 .. dev.online - 1 BY Zenon, <3>4, <3>5
    <3>7. \A i \in ready : i \in Contexts /\ i < dev.online BY SMTT(20), Z3, <3>3, <3>4
    <3> HIDE DEF ready
    <3> QED BY Zenon, <3>1, <3>6, <3>7 DEF Counts
  <2> QED BY ZenonT(30), <2>1, <2>2, <2>3 DEF OnlineIsReady, Exact
<1> QED BY <1>1, Invariant, PTL

\* free_irq is called for requested handlers only and none is left behind
\* (nvme_suspend_queue, queue_request_irq), for any number of queues and
\* restarts: online_queues, which falls below zero when queues that were never
\* online are suspended, cannot fall far enough to look like a count again.
THEOREM IrqsBalancedHolds == Spec => []IrqsBalanced
<1>1. IInv => IrqsBalanced
  <2> SUFFICES ASSUME IInv PROVE IrqsBalanced BY Zenon
  <2>1. dev.spurious => Failed({"admin_irq", "create"})
    <3>1. CASE Failed({"create"}) BY Zenon, <3>1 DEF Failed
    <3>2. CASE ~Failed({"create"})
      <4>1. dev.spurious => Failed({"admin_irq"}) BY Zenon, <3>2 DEF IInv, HandlerInv
      <4> QED BY Zenon, <4>1 DEF Failed
    <3> QED BY Zenon, <3>1, <3>2
  <2>2. \A i \in dev.irqs : i < queue_count(dev) BY Zenon DEF IInv, TableInv
  <2>3. pc \in {"asleep", "off", "dead", "gone"} => dev.irqs = {}
    BY Zenon DEF IInv, TableInv, Stopped, Down
  <2> QED BY Zenon, <2>1, <2>2, <2>3 DEF IrqsBalanced
<1> QED BY <1>1, Invariant, PTL
=============================================================================
