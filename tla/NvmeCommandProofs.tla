------------------------- MODULE NvmeCommandProofs --------------------------
(***************************************************************************)
(* The inductive invariant behind the safety properties of NvmeCommand, for*)
(* any number of callers and tags, when SubmitRaces = FALSE, the proofs that*)
(* the callers, the completion handlers, nvme_kthread, the timers, the reset*)
(* and the controller preserve it, and the theorems that follow.           *)
(***************************************************************************)
EXTENDS NvmeCommand, TLAPS

Tags == AdminTags \cup IoTags
Cmds == [tag : Tags, op : {"sync", "abort"}, of : Tasks \cup Tags]
Entries == [tag : Tags, op : {"sync", "abort"}, of : Tasks \cup Tags,
            status : {"answered", "abort"}]

\* The variables the argument is about have their types.
TypeInv ==
  /\ req \in [Slots -> [busy : BOOLEAN, fn : Functions, ctx : Tasks \cup {None},
                        aborted : BOOLEAN]]
  /\ pc \in [Tasks -> {"idle", "set_state", "submit", "schedule"}]
  /\ slot \in [Tasks -> Slots \cup {None}]
  /\ task_state \in [Tasks -> {"RUNNING", "UNINTERRUPTIBLE"}]
  /\ status \in [Tasks -> {"none", "EINTR", "answered", "abort"}]
  /\ sq \in [Queues -> SUBSET Cmds]
  /\ cq \in [Queues -> Seq(Entries)]
  /\ q_lock \in [Queues -> Queues \cup {None}]
  /\ tpc \in [Queues -> {"idle", "lock", "reset", "store", "submit"}]
  /\ treq \in [Queues -> Slots \cup {None}]
  /\ abort_req \in Slots \cup {None}
  /\ rpc \in {"up", "queued", "stop", "suspend_admin", "drain", "clear_io",
              "clear_admin", "start", "init", "setup", "create"}
  /\ frozen \in [Queues -> BOOLEAN]
  /\ executed \in [Tasks -> BOOLEAN]

Posted(q) == {cq[q][i] : i \in 1..Len(cq[q])}

\* The command of the task c has not ended.
Waiting(c) ==
  pc[c] \in {"set_state", "submit"} \/ task_state[c] = "UNINTERRUPTIBLE"

\* A task inside nvme_submit_sync_cmd holds its request alone.  As long as
\* the command has not ended the request will call sync_completion for the
\* task, and afterwards the task has the status of it.
TaskInv ==
  /\ \A c \in Tasks : pc[c] # "idle" =>
       /\ slot[c] \in Slots
       /\ req[slot[c]].busy
       /\ req[slot[c]].fn # "abort_completion"
       /\ Waiting(c) => req[slot[c]].fn = "sync_completion" /\ req[slot[c]].ctx = c
       /\ pc[c] = "submit" => task_state[c] = "UNINTERRUPTIBLE"
       /\ ~Waiting(c) => /\ req[slot[c]].fn = "special_completion"
                         /\ status[c] # "EINTR"
                         /\ status[c] # "abort" => executed[c]
  /\ \A c, d \in Tasks : pc[c] # "idle" /\ pc[d] # "idle" /\ slot[c] = slot[d] => c = d

\* A request that is free calls special_completion, one that calls
\* sync_completion has its task, and only admin requests are aborts.
RequestInv ==
  \A s \in Slots :
    /\ ~req[s].busy => req[s].fn = "special_completion"
    /\ req[s].fn = "sync_completion" =>
         req[s].ctx \in Tasks /\ pc[req[s].ctx] # "idle" /\ slot[req[s].ctx] = s
    /\ req[s].fn = "abort_completion" => s[1] = "admin"

\* nvme_timeout, having taken an abort request, is yet to submit it.
Aborting == tpc["io"] \in {"store", "submit"}

\* What the request of the command or entry m of queue q is: the task's that
\* sent it, an abort that has been submitted, or, in a queue that is
\* frozen, one that was cancelled and that nobody has allocated since.
Owned(q, m) ==
  \/ /\ m.op = "sync"
     /\ m.of \in Tasks
     /\ pc[m.of] = "schedule"
     /\ slot[m.of] = <<q, m.tag>>
     /\ frozen[q] \/ req[<<q, m.tag>>].fn = "sync_completion"
  \/ /\ m.op = "abort"
     /\ req[<<q, m.tag>>].fn = "abort_completion"
     /\ ~(Aborting /\ abort_req = <<q, m.tag>>)
  \/ /\ frozen[q]
     /\ ~req[<<q, m.tag>>].busy

MessageInv ==
  \A q \in Queues : \A m \in sq[q] \cup Posted(q) :
    /\ <<q, m.tag>> \in Slots
    /\ m.op = "sync" => m.of \in Tasks
    /\ Owned(q, m)

\* A tag is in a queue at most once, as a command or as an entry.
Alone(q) ==
  /\ \A m, n \in sq[q] : m.tag = n.tag => m = n
  /\ \A m \in sq[q] : \A i \in 1..Len(cq[q]) : m.tag # cq[q][i].tag
  /\ \A i, j \in 1..Len(cq[q]) : cq[q][i].tag = cq[q][j].tag => i = j

UniqueInv == \A q \in Queues : Alone(q)

\* An entry with the status of a command that was executed says so of the
\* task that waits for it.
ExecutedInv ==
  \A q \in Queues : \A e \in Posted(q) :
    e.op = "sync" /\ e.status # "abort" /\ pc[e.of] = "schedule" /\ slot[e.of] = <<q, e.tag>> =>
      executed[e.of]

TimerInv ==
  /\ tpc["admin"] \notin {"store", "submit"}
  /\ \A q \in Queues : tpc[q] # "idle" => treq[q] \in Slots
  /\ \A q \in Queues : tpc[q] \in {"reset", "store", "submit"} => q_lock[q] = q
  /\ Aborting => /\ abort_req \in Slots
                 /\ abort_req[1] = "admin"
                 /\ req[abort_req].fn = "abort_completion"

IoFrozen == {"suspend_admin", "drain", "clear_io", "clear_admin", "start", "init",
             "setup", "create"}
AdminFrozen == {"drain", "clear_io", "clear_admin", "start", "init"}

\* What each stage of a reset can rely on: queues stay frozen until they are
\* initialised; once a queue has been cleared nobody is about to submit to
\* it; and a controller that has been enabled again holds no old command.
ResetInv ==
  /\ rpc \in IoFrozen => frozen["io"]
  /\ rpc \in AdminFrozen => frozen["admin"]
  /\ rpc \in {"clear_admin", "start", "init", "setup", "create"} => ~Unsubmitted("io")
  /\ rpc \in {"start", "init"} => ~Unsubmitted("admin")
  /\ rpc \in {"clear_admin", "start", "init"} => ~Aborting
  /\ rpc \in {"init", "setup", "create"} => sq["io"] = {}
  /\ rpc = "init" => sq["admin"] = {}
  /\ pc[Worker] # "idle" => rpc = "setup" /\ slot[Worker][1] = "admin"

IInv ==
  /\ TypeInv
  /\ TaskInv
  /\ RequestInv
  /\ MessageInv
  /\ UniqueInv
  /\ ExecutedInv
  /\ TimerInv
  /\ ResetInv

-----------------------------------------------------------------------------
(* Facts about the slots, the entries of a sequence, and what is left      *)
(* alone.                                                                  *)

\* A slot is the pair of its queue and its tag.
LEMMA SlotPair ==
  ASSUME NEW s \in Slots
  PROVE  s = <<s[1], s[2]>> /\ s[1] \in Queues /\ s[2] \in Tags
BY DEF Slots, Queues, Tags

\* The rings keep their tags apart when a step does not touch them.
LEMMA UniqueFrame ==
  ASSUME UniqueInv, UNCHANGED <<sq, cq>>
  PROVE  UniqueInv'
BY DEF UniqueInv, Alone

\* A command whose tag is in neither ring of its queue joins the others.
LEMMA AddUnique ==
  ASSUME UniqueInv, NEW q0 \in Queues, NEW new,
         sq'[q0] = sq[q0] \cup {new}, \A q \in Queues \ {q0} : sq'[q] = sq[q],
         UNCHANGED cq,
         \A m \in sq[q0] \cup Posted(q0) : m.tag # new.tag
  PROVE  UniqueInv'
<1> SUFFICES ASSUME NEW q \in Queues
             PROVE  /\ \A m, n \in sq'[q] : m.tag = n.tag => m = n
                    /\ \A m \in sq'[q] : \A i \in 1..Len(cq[q]) : m.tag # cq[q][i].tag
                    /\ \A i, j \in 1..Len(cq[q]) : cq[q][i].tag = cq[q][j].tag => i = j
  BY DEF UniqueInv, Alone
<1>1. CASE q # q0
  BY <1>1 DEF UniqueInv, Alone
<1>2. CASE q = q0
  <2>1. \A i \in 1..Len(cq[q]) : cq[q][i] \in Posted(q)
    BY DEF Posted
  <2> QED
    BY <1>2, <2>1 DEF UniqueInv, Alone
<1> QED
  BY <1>1, <1>2

\* The tasks agree with the requests as long as neither they nor their
\* requests change; commands that are executed stay executed.
LEMMA TaskRequests ==
  ASSUME TaskInv, UNCHANGED <<pc, slot, task_state, status>>,
         \A c \in Tasks : pc[c] # "idle" => req'[slot[c]] = req[slot[c]],
         \A c \in Tasks : executed[c] => executed'[c]
  PROVE  TaskInv'
<1>1. \A c \in Tasks : Waiting(c)' = Waiting(c)
  BY DEF Waiting
<1>2. ASSUME NEW c \in Tasks, pc[c] # "idle"
      PROVE  /\ slot'[c] \in Slots
             /\ req'[slot'[c]].busy
             /\ req'[slot'[c]].fn # "abort_completion"
             /\ Waiting(c)' => req'[slot'[c]].fn = "sync_completion" /\ req'[slot'[c]].ctx = c
             /\ pc'[c] = "submit" => task_state'[c] = "UNINTERRUPTIBLE"
             /\ ~Waiting(c)' => /\ req'[slot'[c]].fn = "special_completion"
                                /\ status'[c] # "EINTR"
                                /\ status'[c] # "abort" => executed'[c]
  BY <1>1, <1>2 DEF TaskInv
<1> QED
  BY <1>2 DEF TaskInv

\* In particular when no request changes.
LEMMA TaskFrame ==
  ASSUME TaskInv, UNCHANGED <<req, pc, slot, task_state, status>>,
         \A c \in Tasks : executed[c] => executed'[c]
  PROVE  TaskInv'
BY TaskRequests

\* And the requests with the tasks.
LEMMA RequestFrame ==
  ASSUME RequestInv, UNCHANGED <<req, pc, slot>>
  PROVE  RequestInv'
BY DEF RequestInv

\* The timers stay where they are.
LEMMA TimerFrame ==
  ASSUME TimerInv, UNCHANGED <<req, q_lock, tpc, treq, abort_req>>
  PROVE  TimerInv'
BY DEF TimerInv, Aborting

\* What has been executed is told by the entries that were there.
LEMMA ExecutedFrame ==
  ASSUME ExecutedInv, UNCHANGED <<cq, pc, slot, executed>>
  PROVE  ExecutedInv'
BY DEF ExecutedInv, Posted

\* A message stays owned when its queue does not thaw.
LEMMA OwnedFrame ==
  ASSUME NEW q \in Queues, NEW m, Owned(q, m), UNCHANGED <<req, pc, slot, abort_req>>,
         frozen[q] => frozen'[q], Aborting' => Aborting
  PROVE  Owned(q, m)'
BY DEF Owned

\* What the controller adds to a completion ring comes after what is there.
LEMMA AppendEntry ==
  ASSUME NEW s \in Seq(Entries), NEW e \in Entries
  PROVE  /\ Append(s, e) \in Seq(Entries)
         /\ Len(Append(s, e)) = Len(s) + 1
         /\ \A i \in 1..Len(s) : Append(s, e)[i] = s[i]
         /\ Append(s, e)[Len(s) + 1] = e
OBVIOUS

\* Taking the head of a ring leaves the other entries, in order.
LEMMA TailEntry ==
  ASSUME NEW s \in Seq(Entries), s # << >>
  PROVE  /\ Head(s) = s[1] /\ 1 \in 1..Len(s) /\ Head(s) \in Entries
         /\ Tail(s) \in Seq(Entries)
         /\ Len(Tail(s)) = Len(s) - 1 /\ Len(s) \in Nat
         /\ \A i \in 1..Len(Tail(s)) : i + 1 \in 1..Len(s) /\ Tail(s)[i] = s[i + 1]
OBVIOUS

-----------------------------------------------------------------------------
(* The initial state.                                                      *)

\* The invariant holds when the device is up and idle.
LEMMA InitInv == Init => IInv
<1> SUFFICES ASSUME Init PROVE IInv
  OBVIOUS
<1> USE CommandAssumption
<1>1. TypeInv
  BY DEF Init, TypeInv, Free, Functions, Queues, Tasks
<1>2. TaskInv /\ RequestInv
  BY DEF Init, TaskInv, RequestInv, Free, Slots, Queues
<1>3. MessageInv /\ UniqueInv /\ ExecutedInv
  BY DEF Init, MessageInv, UniqueInv, Alone, ExecutedInv, Posted, Queues
<1>4. TimerInv
  BY DEF Init, TimerInv, Aborting, Queues
<1>5. ResetInv
  BY DEF Init, ResetInv, IoFrozen, AdminFrozen, Tasks
<1> QED
  BY <1>1, <1>2, <1>3, <1>4, <1>5 DEF IInv

-----------------------------------------------------------------------------
(* The callers.                                                            *)

\* Taking a request and filling nvme_cmd_info: nobody else has it, and no
\* message carries its tag, because its queue is not frozen.
LEMMA AllocInv ==
  ASSUME IInv, NEW c \in Tasks, NEW s \in Slots, Alloc(c, s)
  PROVE  IInv'
<1> USE CommandAssumption DEF IInv
<1>1. TypeInv'
  BY DEF TypeInv, Alloc, ringVars, lockVars, timerVars, devVars, Functions
<1>a. /\ pc[c] = "idle" /\ ~req[s].busy /\ ~frozen[s[1]]
      /\ pc' = [pc EXCEPT ![c] = "set_state"]
      /\ slot' = [slot EXCEPT ![c] = s]
      /\ req' = [req EXCEPT ![s] = [busy |-> TRUE, fn |-> "sync_completion", ctx |-> c,
                                    aborted |-> FALSE]]
      /\ status' = [status EXCEPT ![c] = "EINTR"]
      /\ UNCHANGED <<task_state, sq, cq, q_lock, tpc, treq, abort_req, rpc, frozen, executed>>
  BY DEF Alloc, ringVars, lockVars, timerVars, devVars
<1>b. \A d \in Tasks : pc[d] # "idle" => slot[d] # s
  BY <1>a DEF TaskInv
<1>c. /\ pc'[c] = "set_state" /\ slot'[c] = s
      /\ req'[s].busy /\ req'[s].fn = "sync_completion" /\ req'[s].ctx = c
      /\ \A d \in Tasks \ {c} : pc'[d] = pc[d] /\ slot'[d] = slot[d] /\ status'[d] = status[d]
      /\ \A t \in Slots \ {s} : req'[t] = req[t]
  BY <1>a DEF TypeInv
<1>2. TaskInv'
  BY <1>a, <1>b, <1>c DEF TaskInv, Waiting, TypeInv
<1>3. RequestInv'
  BY <1>a, <1>b, <1>c DEF RequestInv, TypeInv
<1>4. MessageInv'
  <2> SUFFICES ASSUME NEW q \in Queues, NEW m \in sq[q] \cup Posted(q)
               PROVE  /\ <<q, m.tag>> \in Slots
                      /\ m.op = "sync" => m.of \in Tasks
                      /\ Owned(q, m)'
    BY <1>a, Zenon DEF MessageInv, Posted
  <2>1. <<q, m.tag>> \in Slots /\ (m.op = "sync" => m.of \in Tasks) /\ Owned(q, m)
    BY DEF MessageInv
  <2>2. <<q, m.tag>> # s
    BY <2>1, <1>a, <1>b DEF Owned, RequestInv
  <2>3. Owned(q, m)'
    BY <2>1, <2>2, <1>a, <1>c DEF Owned, Aborting
  <2> QED
    BY <2>1, <2>3
<1>5. UniqueInv'
  BY <1>a, UniqueFrame
<1>6. ExecutedInv'
  <2> SUFFICES ASSUME NEW q \in Queues, NEW e \in Posted(q), e.op = "sync",
                      e.status # "abort", pc'[e.of] = "schedule", slot'[e.of] = <<q, e.tag>>
               PROVE  executed[e.of]
    BY <1>a DEF ExecutedInv, Posted
  <2>1. e.of \in Tasks /\ Owned(q, e)
    BY DEF MessageInv
  <2>2. <<q, e.tag>> # s
    BY <2>1, <1>a, <1>b DEF Owned, RequestInv
  <2> QED
    BY <2>1, <2>2, <1>c DEF ExecutedInv
<1>7. TimerInv'
  BY <1>a, <1>c DEF TimerInv, Aborting, RequestInv
<1>8. ResetInv'
  BY <1>a, <1>c, SlotPair DEF ResetInv, IoFrozen, AdminFrozen, Unsubmitted, Aborting, Alloc, Queues
<1> QED
  BY <1>1, <1>2, <1>3, <1>4, <1>5, <1>6, <1>7, <1>8

\* set_current_state.
LEMMA SetStateInv ==
  ASSUME IInv, NEW c \in Tasks, SetState(c)
  PROVE  IInv'
<1> USE DEF IInv
<1>a. /\ pc[c] = "set_state"
      /\ pc' = [pc EXCEPT ![c] = "submit"]
      /\ task_state' = [task_state EXCEPT ![c] = "UNINTERRUPTIBLE"]
      /\ UNCHANGED <<req, slot, status, sq, cq, q_lock, tpc, treq, abort_req, rpc, frozen, executed>>
  BY DEF SetState, SetStateWith, ringVars, lockVars, timerVars, devVars
<1>1. TypeInv'
  BY <1>a DEF TypeInv
<1>b. /\ pc'[c] = "submit" /\ task_state'[c] = "UNINTERRUPTIBLE"
      /\ \A d \in Tasks \ {c} : pc'[d] = pc[d] /\ task_state'[d] = task_state[d]
  BY <1>a DEF TypeInv
<1>2. TaskInv'
  BY <1>a, <1>b DEF TaskInv, Waiting
<1>3. RequestInv'
  BY <1>a, <1>b DEF RequestInv
<1>4. MessageInv'
  <2> SUFFICES ASSUME NEW q \in Queues, NEW m \in sq[q] \cup Posted(q)
               PROVE  /\ <<q, m.tag>> \in Slots
                      /\ m.op = "sync" => m.of \in Tasks
                      /\ Owned(q, m)'
    BY <1>a, Zenon DEF MessageInv, Posted
  <2> QED
    BY <1>a, <1>b DEF MessageInv, Owned, Aborting
<1>5. UniqueInv'
  BY <1>a, UniqueFrame
<1>6. ExecutedInv'
  <2> SUFFICES ASSUME NEW q \in Queues, NEW e \in Posted(q), e.op = "sync", e.status # "abort",
                      pc'[e.of] = "schedule", slot[e.of] = <<q, e.tag>>
               PROVE  executed[e.of]
    BY <1>a DEF ExecutedInv, Posted
  <2> QED
    BY <1>b, Zenon DEF ExecutedInv, MessageInv
<1>t. TimerInv'
  BY <1>a DEF TimerInv, Aborting
<1>7. ResetInv'
  BY SMTT(20), <1>a, <1>b DEF ResetInv, IoFrozen, AdminFrozen, Unsubmitted, Aborting
<1> QED
  BY <1>1, <1>2, <1>3, <1>4, <1>5, <1>6, <1>t, <1>7

\* nvme_submit_cmd puts a tag into the ring that is not there yet.
LEMMA SubmitInv ==
  ASSUME IInv, NEW c \in Tasks, Submit(c)
  PROVE  IInv'
<1> USE DEF IInv
<1> DEFINE q0 == slot[c][1]
           new == [tag |-> slot[c][2], op |-> "sync", of |-> c]
<1>a. /\ pc[c] = "submit"
      /\ pc' = [pc EXCEPT ![c] = "schedule"]
      /\ sq' = [sq EXCEPT ![q0] = @ \cup {new}]
      /\ UNCHANGED <<req, slot, task_state, status, cq, q_lock, tpc, treq, abort_req, rpc, frozen,
                     executed>>
  BY DEF Submit, lockVars, timerVars, devVars
<1>b. /\ slot[c] \in Slots /\ q0 \in Queues /\ slot[c] = <<q0, slot[c][2]>> /\ slot[c][2] \in Tags
      /\ req[slot[c]].busy /\ req[slot[c]].fn = "sync_completion" /\ req[slot[c]].ctx = c
      /\ task_state[c] = "UNINTERRUPTIBLE"
  BY <1>a, SlotPair DEF TaskInv, Waiting
<1>c. /\ pc'[c] = "schedule"
      /\ \A d \in Tasks \ {c} : pc'[d] = pc[d]
      /\ sq'[q0] = sq[q0] \cup {new}
      /\ \A q \in Queues \ {q0} : sq'[q] = sq[q]
  BY <1>a, <1>b DEF TypeInv
<1>d. \A m \in sq[q0] \cup Posted(q0) : m.tag # slot[c][2]
  <2> SUFFICES ASSUME NEW m \in sq[q0] \cup Posted(q0), m.tag = slot[c][2]
               PROVE  FALSE
    OBVIOUS
  <2>1. Owned(q0, m) /\ <<q0, m.tag>> = slot[c]
    BY SMTT(20), <1>b DEF MessageInv
  <2>2. ~(m.of \in Tasks /\ pc[m.of] = "schedule" /\ slot[m.of] = slot[c])
    BY <1>a DEF TaskInv
  <2> QED
    BY <2>1, <2>2, <1>b DEF Owned
<1>1. TypeInv'
  <2>1. new \in Cmds
    BY ZenonT(30), <1>b DEF Cmds
  <2> QED
    BY <2>1, <1>a, <1>b DEF TypeInv
<1>2. TaskInv'
  <2>1. \A d \in Tasks : (pc'[d] # "idle") = (pc[d] # "idle") /\ Waiting(d)' = Waiting(d)
    BY <1>a, <1>b, <1>c DEF TaskInv, Waiting
  <2>2. \A d \in Tasks : pc'[d] = "submit" => pc[d] = "submit"
    BY SMTT(20), <1>c
  <2>3. ASSUME NEW d \in Tasks, pc'[d] # "idle"
        PROVE  /\ slot'[d] \in Slots
               /\ req'[slot'[d]].busy
               /\ req'[slot'[d]].fn # "abort_completion"
               /\ Waiting(d)' => req'[slot'[d]].fn = "sync_completion" /\ req'[slot'[d]].ctx = d
               /\ pc'[d] = "submit" => task_state'[d] = "UNINTERRUPTIBLE"
               /\ ~Waiting(d)' => /\ req'[slot'[d]].fn = "special_completion"
                                  /\ status'[d] # "EINTR"
                                  /\ status'[d] # "abort" => executed'[d]
    BY <2>1, <2>2, <2>3, <1>a DEF TaskInv
  <2>4. \A d, e \in Tasks : pc'[d] # "idle" /\ pc'[e] # "idle" /\ slot'[d] = slot'[e] => d = e
    BY <2>1, <1>a DEF TaskInv
  <2> QED
    BY Zenon, <2>3, <2>4 DEF TaskInv
<1>3. RequestInv'
  <2>1. \A d \in Tasks : pc[d] # "idle" => pc'[d] # "idle"
    BY <1>c
  <2> QED
    BY <2>1, <1>a DEF RequestInv
<1>4. MessageInv'
  <2> SUFFICES ASSUME NEW q \in Queues, NEW m \in sq'[q] \cup Posted(q)
               PROVE  /\ <<q, m.tag>> \in Slots
                      /\ m.op = "sync" => m.of \in Tasks
                      /\ Owned(q, m)'
    BY <1>a, Zenon DEF MessageInv, Posted
  <2>1. CASE m \in sq[q] \cup Posted(q)
    BY <2>1, <1>a, <1>c DEF MessageInv, Owned, Aborting
  <2>2. CASE q = q0 /\ m = new
    BY <2>2, <1>a, <1>b, <1>c DEF Owned
  <2> QED
    BY <2>1, <2>2, <1>c
<1>5. UniqueInv'
  <2>1. new.tag = slot[c][2]
    OBVIOUS
  <2> HIDE DEF new
  <2>2. \A m \in sq[q0] \cup Posted(q0) : m.tag # new.tag
    BY Zenon, <2>1, <1>d
  <2>3. UNCHANGED cq /\ q0 \in Queues
    BY <1>a, <1>b
  <2> QED
    BY <2>2, <2>3, <1>c, AddUnique, Zenon
<1>6. ExecutedInv'
  <2> SUFFICES ASSUME NEW q \in Queues, NEW e \in Posted(q), e.op = "sync", e.status # "abort",
                      pc'[e.of] = "schedule", slot[e.of] = <<q, e.tag>>
               PROVE  executed[e.of]
    BY <1>a DEF ExecutedInv, Posted
  <2>1. e.of \in Tasks
    BY DEF MessageInv
  <2>2. e.of # c
    BY <1>b, <1>d
  <2> QED
    BY <2>1, <2>2, <1>c DEF ExecutedInv
<1>7. TimerInv'
  BY SMTT(20), <1>a DEF TimerInv, Aborting
<1>8. ResetInv'
  <2>1. q0 = "io" => rpc \notin {"clear_admin", "start", "init", "setup", "create"}
    BY <1>a DEF ResetInv, Unsubmitted
  <2>2. q0 = "admin" => rpc \notin {"start", "init"}
    BY <1>a DEF ResetInv, Unsubmitted
  <2> QED
    BY SMTT(30), ZenonT(30), <2>1, <2>2, <1>a, <1>b, <1>c
    DEF ResetInv, IoFrozen, AdminFrozen, Unsubmitted, Aborting, Queues
<1> QED
  BY <1>1, <1>2, <1>3, <1>4, <1>5, <1>6, <1>7, <1>8

\* A caller frees its request: no message carries the tag, unless the
\* command was cancelled, and then the queue stays frozen until it is empty.
LEMMA ReturnInv ==
  ASSUME IInv, NEW c \in Tasks, Return(c)
  PROVE  IInv'
<1> USE CommandAssumption DEF IInv
<1> DEFINE s == slot[c]
<1>a. /\ pc[c] = "schedule" /\ task_state[c] = "RUNNING"
      /\ req' = [req EXCEPT ![s].busy = FALSE]
      /\ pc' = [pc EXCEPT ![c] = "idle"]
      /\ slot' = [slot EXCEPT ![c] = None]
      /\ status' = [status EXCEPT ![c] = "none"]
      /\ executed' = [executed EXCEPT ![c] = FALSE]
      /\ rpc' = (IF c = Worker THEN "create" ELSE rpc)
      /\ UNCHANGED <<task_state, sq, cq, q_lock, tpc, treq, abort_req, frozen>>
  BY DEF Return, ringVars, lockVars, timerVars
<1>b. s \in Slots /\ req[s].busy /\ req[s].fn = "special_completion"
  BY <1>a DEF TaskInv, Waiting
<1>1. TypeInv'
  <2> DEFINE R == [busy : BOOLEAN, fn : Functions, ctx : Tasks \cup {None}, aborted : BOOLEAN]
             freed == [req[s] EXCEPT !.busy = FALSE]
  <2>0. req[s] \in R
    BY <1>b DEF TypeInv
  <2>4. freed \in R
    BY <2>0, Zenon
  <2>5. req' = [req EXCEPT ![s] = freed]
    BY <1>a
  <2>1. req' \in [Slots -> R]
    BY <2>4, <2>5, Zenon DEF TypeInv
  <2>2. rpc' \in {rpc, "create"}
    BY <1>a
  <2>3. /\ pc' \in [Tasks -> {"idle", "set_state", "submit", "schedule"}]
        /\ slot' \in [Tasks -> Slots \cup {None}]
        /\ status' \in [Tasks -> {"none", "EINTR", "answered", "abort"}]
        /\ executed' \in [Tasks -> BOOLEAN]
    BY <1>a DEF TypeInv
  <2> QED
    BY <2>1, <2>2, <2>3, <1>a DEF TypeInv
<1>c. /\ pc'[c] = "idle"
      /\ \A d \in Tasks \ {c} : /\ pc'[d] = pc[d] /\ slot'[d] = slot[d] /\ status'[d] = status[d]
                                /\ executed'[d] = executed[d]
      /\ ~req'[s].busy /\ req'[s].fn = "special_completion"
      /\ \A t \in Slots \ {s} : req'[t] = req[t]
  BY <1>a, <1>b DEF TypeInv
<1>d. \A d \in Tasks \ {c} : pc[d] # "idle" => slot[d] # s
  BY <1>a DEF TaskInv
<1>2. TaskInv'
  BY <1>a, <1>c, <1>d DEF TaskInv, Waiting
<1>3. RequestInv'
  BY <1>a, <1>b, <1>c, <1>d DEF RequestInv, TypeInv
<1>4. MessageInv'
  <2> SUFFICES ASSUME NEW q \in Queues, NEW m \in sq[q] \cup Posted(q)
               PROVE  /\ <<q, m.tag>> \in Slots
                      /\ m.op = "sync" => m.of \in Tasks
                      /\ Owned(q, m)'
    BY <1>a, Zenon DEF MessageInv, Posted
  <2>1. <<q, m.tag>> \in Slots /\ (m.op = "sync" => m.of \in Tasks) /\ Owned(q, m)
    BY DEF MessageInv
  <2>2. CASE <<q, m.tag>> = s
    BY <2>1, <2>2, <1>a, <1>b, <1>c DEF Owned
  <2>3. CASE <<q, m.tag>> # s
    BY <2>1, <2>3, <1>a, <1>c DEF Owned, Aborting
  <2> QED
    BY <2>1, <2>2, <2>3
<1>5. UniqueInv'
  BY <1>a, UniqueFrame
<1>6. ExecutedInv'
  <2> SUFFICES ASSUME NEW q \in Queues, NEW e \in Posted(q), e.op = "sync",
                      e.status # "abort", pc'[e.of] = "schedule", slot'[e.of] = <<q, e.tag>>
               PROVE  executed'[e.of]
    BY <1>a DEF ExecutedInv, Posted
  <2>1. e.of \in Tasks /\ <<q, e.tag>> \in Slots
    BY SMTT(20) DEF MessageInv
  <2>2. e.of # c
    BY <1>c
  <2> QED
    BY SMTT(30), ZenonT(30), <2>1, <2>2, <1>c DEF ExecutedInv
<1>7. TimerInv'
  BY <1>a, <1>b, <1>c DEF TimerInv, Aborting
<1>8. ResetInv'
  <2>1. c = Worker => rpc = "setup"
    BY <1>a DEF ResetInv
  <2> QED
    BY <2>1, <1>a, <1>c DEF ResetInv, IoFrozen, AdminFrozen, Unsubmitted, Aborting, Tasks
<1> QED
  BY <1>1, <1>2, <1>3, <1>4, <1>5, <1>6, <1>7, <1>8

-----------------------------------------------------------------------------
(* Completion, by an entry or by a reset.                                  *)

Requests == [busy : BOOLEAN, fn : Functions, ctx : Tasks \cup {None}, aborted : BOOLEAN]

Woken(c, S) == \E s \in S : req[s].fn = "sync_completion" /\ req[s].ctx = c

\* What a completion does to the requests S and to the tasks.
LEMMA CompleteEffect ==
  ASSUME TypeInv, NEW S \in SUBSET Slots, NEW st \in {"answered", "abort"}, Complete(S, st)
  PROVE  /\ req' \in [Slots -> Requests]
         /\ status' \in [Tasks -> {"none", "EINTR", "answered", "abort"}]
         /\ task_state' \in [Tasks -> {"RUNNING", "UNINTERRUPTIBLE"}]
         /\ \A s \in Slots \ S : req'[s] = req[s]
         /\ \A s \in S : /\ req'[s].fn = "special_completion"
                         /\ req[s].fn = "abort_completion" => ~req'[s].busy
                         /\ req[s].fn # "abort_completion" => req'[s].busy = req[s].busy
         /\ \A c \in Tasks : Woken(c, S) => status'[c] = st /\ task_state'[c] = "RUNNING"
         /\ \A c \in Tasks : ~Woken(c, S) =>
              status'[c] = status[c] /\ task_state'[c] = task_state[c]
<1> DEFINE aborts == {s \in S : req[s].fn = "abort_completion"}
           ended(s) == [req[s] EXCEPT !.fn = "special_completion", !.ctx = None,
                                      !.busy = @ /\ s \notin aborts]
<1>1. req' = [s \in Slots |-> IF s \notin S THEN req[s] ELSE ended(s)]
  BY Zenon DEF Complete, CompleteWith
<1>2. \A s \in Slots : req[s] \in Requests
  BY DEF TypeInv, Requests
<1>3. \A s \in Slots : /\ ended(s) \in Requests
                       /\ ended(s).fn = "special_completion"
                       /\ ended(s).busy = (req[s].busy /\ s \notin aborts)
  BY <1>2, Zenon DEF Requests, Functions
<1>4. req' \in [Slots -> Requests]
  BY <1>1, <1>2, <1>3, Zenon
<1>5. /\ \A s \in Slots \ S : req'[s] = req[s]
      /\ \A s \in S : req'[s] = ended(s)
  BY <1>1, Zenon
<1>6. \A s \in S : /\ req'[s].fn = "special_completion"
                   /\ req[s].fn = "abort_completion" => ~req'[s].busy
                   /\ req[s].fn # "abort_completion" => req'[s].busy = req[s].busy
  <2> TAKE s \in S
  <2>1. /\ req'[s].fn = "special_completion"
        /\ req'[s].busy = (req[s].busy /\ s \notin aborts)
    <3>1. s \in Slots /\ req'[s] = ended(s)
      BY <1>5, Zenon
    <3>2. ended(s).fn = "special_completion" /\ ended(s).busy = (req[s].busy /\ s \notin aborts)
      BY <3>1, <1>3, Zenon
    <3> HIDE DEF ended, aborts
    <3> QED
      BY <3>1, <3>2, Zenon
  <2>2. req[s].busy \in BOOLEAN
    BY <1>2 DEF Requests
  <2>3. s \in aborts <=> req[s].fn = "abort_completion"
    OBVIOUS
  <2> HIDE DEF aborts
  <2> QED
    BY <2>1, <2>2, <2>3, Zenon
<1>7. /\ status' = [c \in Tasks |-> IF Woken(c, S) THEN st ELSE status[c]]
      /\ task_state' = [c \in Tasks |-> IF Woken(c, S) THEN "RUNNING" ELSE task_state[c]]
  BY Zenon DEF Complete, CompleteWith, Woken
<1>8. /\ status' \in [Tasks -> {"none", "EINTR", "answered", "abort"}]
      /\ task_state' \in [Tasks -> {"RUNNING", "UNINTERRUPTIBLE"}]
  BY <1>7 DEF TypeInv
<1> QED
  BY <1>4, <1>5, <1>6, <1>7, <1>8, Zenon

\* No two tasks hold the same request.
LEMMA SlotInjective ==
  ASSUME TaskInv, NEW c \in Tasks, NEW d \in Tasks, pc[c] # "idle", pc[d] # "idle",
         slot[c] = slot[d]
  PROVE  c = d
BY DEF TaskInv

\* Ending the requests S keeps the tasks and the requests in agreement,
\* provided that none of S is yet to be submitted.
LEMMA CompleteInv ==
  ASSUME IInv, NEW S \in SUBSET Slots, NEW st \in {"answered", "abort"}, Complete(S, st),
         UNCHANGED <<pc, slot, executed, q_lock, tpc, treq, abort_req>>,
         \A s \in S : req[s].fn = "sync_completion" =>
           pc[req[s].ctx] = "schedule" /\ (st = "abort" \/ executed[req[s].ctx]),
         Aborting => abort_req \notin S
  PROVE  TaskInv' /\ RequestInv' /\ TimerInv'
<1> USE DEF IInv
<1>a. /\ \A s \in Slots \ S : req'[s] = req[s]
      /\ \A s \in S : /\ req'[s].fn = "special_completion"
                      /\ req[s].fn = "abort_completion" => ~req'[s].busy
                      /\ req[s].fn # "abort_completion" => req'[s].busy = req[s].busy
      /\ \A c \in Tasks : Woken(c, S) => status'[c] = st /\ task_state'[c] = "RUNNING"
      /\ \A c \in Tasks : ~Woken(c, S) =>
              status'[c] = status[c] /\ task_state'[c] = task_state[c]
  BY SMTT(30), ZenonT(30), CompleteEffect
<1>1. TaskInv'
  <2> SUFFICES ASSUME NEW c \in Tasks, pc[c] # "idle"
               PROVE  /\ slot[c] \in Slots
                      /\ req'[slot[c]].busy
                      /\ req'[slot[c]].fn # "abort_completion"
                      /\ Waiting(c)' => req'[slot[c]].fn = "sync_completion" /\ req'[slot[c]].ctx = c
                      /\ pc[c] = "submit" => task_state'[c] = "UNINTERRUPTIBLE"
                      /\ ~Waiting(c)' => /\ req'[slot[c]].fn = "special_completion"
                                         /\ status'[c] # "EINTR"
                                         /\ status'[c] # "abort" => executed[c]
    BY SMTT(30), ZenonT(30) DEF TaskInv
  <2>1. /\ slot[c] \in Slots
        /\ req[slot[c]].busy
        /\ req[slot[c]].fn # "abort_completion"
        /\ Waiting(c) => req[slot[c]].fn = "sync_completion" /\ req[slot[c]].ctx = c
        /\ pc[c] = "submit" => task_state[c] = "UNINTERRUPTIBLE"
        /\ ~Waiting(c) => /\ req[slot[c]].fn = "special_completion"
                          /\ status[c] # "EINTR"
                          /\ status[c] # "abort" => executed[c]
    BY DEF TaskInv
  <2>2. Woken(c, S) => slot[c] \in S /\ Waiting(c) /\ pc[c] = "schedule"
                        /\ (st = "abort" \/ executed[c])
    <3> SUFFICES ASSUME NEW s \in S, req[s].fn = "sync_completion", req[s].ctx = c
                 PROVE  slot[c] \in S /\ Waiting(c) /\ pc[c] = "schedule"
                          /\ (st = "abort" \/ executed[c])
      BY DEF Woken
    <3>1. slot[c] = s
      BY DEF RequestInv
    <3> QED
      BY <3>1, <2>1
  <2>3. slot[c] \in S /\ Waiting(c) => Woken(c, S)
    BY Zenon, <2>1 DEF Woken
  <2>4. CASE Woken(c, S)
    BY Zenon, <2>1, <2>2, <2>4, <1>a DEF Waiting
  <2>5. CASE ~Woken(c, S)
    BY ZenonT(40), SMTT(30), <2>1, <2>3, <2>5, <1>a DEF Waiting
  <2> QED
    BY SMTT(20), <2>4, <2>5
<1>2. RequestInv'
  BY SMTT(30), ZenonT(30), <1>a DEF RequestInv
<1>3. TimerInv'
  BY <1>a DEF TimerInv, Aborting
<1> QED
  BY <1>1, <1>2, <1>3

\* One round of nvme_process_cq.
LEMMA FinishInv ==
  ASSUME IInv, NEW q \in Queues, cq[q] # << >>, Finish(q),
         UNCHANGED <<pc, slot, sq, q_lock, tpc, treq, abort_req, rpc, frozen, executed>>
  PROVE  IInv'
<1> USE DEF IInv
<1> DEFINE e == Head(cq[q])
           s == <<q, e.tag>>
<1>a. cq[q] \in Seq(Entries) /\ cq' = [cq EXCEPT ![q] = Tail(@)]
  BY DEF TypeInv, Finish
<1>b. /\ e = cq[q][1] /\ 1 \in 1..Len(cq[q]) /\ e \in Entries
      /\ cq'[q] = Tail(cq[q]) /\ cq'[q] \in Seq(Entries)
      /\ \A i \in 1..Len(cq'[q]) : i + 1 \in 1..Len(cq[q]) /\ cq'[q][i] = cq[q][i + 1]
      /\ \A p \in Queues \ {q} : cq'[p] = cq[p]
  BY Zenon, <1>a, TailEntry DEF TypeInv
<1>c. \A p \in Queues : Posted(p)' \subseteq Posted(p)
  <2>1. Posted(q)' \subseteq Posted(q)
    BY <1>b DEF Posted
  <2>2. \A p \in Queues \ {q} : Posted(p)' = Posted(p)
    BY <1>b DEF Posted
  <2> QED
    BY <2>1, <2>2
<1>d. \A m \in sq[q] \cup Posted(q)' : m.tag # e.tag
  <2>1. \A m \in sq[q] : m.tag # e.tag
    BY <1>b DEF UniqueInv, Alone
  <2>2. \A i \in 1..Len(cq'[q]) : cq'[q][i].tag # e.tag
    <3> TAKE i \in 1..Len(cq'[q])
    <3>1. i + 1 \in 1..Len(cq[q]) /\ cq'[q][i] = cq[q][i + 1] /\ i + 1 # 1 /\ i \in Nat
      BY <1>b
    <3> QED
      BY SMTT(30), ZenonT(30), <3>1, <1>b DEF UniqueInv, Alone
  <2> QED
    BY <2>1, <2>2 DEF Posted
<1>e. e \in Posted(q)
  BY <1>b DEF Posted
<1>f. s \in Slots /\ (e.op = "sync" => e.of \in Tasks) /\ Owned(q, e)
  BY <1>e DEF MessageInv
<1>5. UniqueInv'
  <2> SUFFICES ASSUME NEW p \in Queues
               PROVE  /\ \A m, n \in sq[p] : m.tag = n.tag => m = n
                      /\ \A m \in sq[p] : \A i \in 1..Len(cq'[p]) : m.tag # cq'[p][i].tag
                      /\ \A i, j \in 1..Len(cq'[p]) : cq'[p][i].tag = cq'[p][j].tag => i = j
    BY DEF UniqueInv, Alone
  <2>1. CASE p # q
    BY SMTT(30), ZenonT(30), <2>1, <1>b DEF UniqueInv, Alone
  <2>2. CASE p = q
    <3>1. \A m \in sq[q] : \A i \in 1..Len(cq'[q]) : m.tag # cq'[q][i].tag
      BY <1>b DEF UniqueInv, Alone
    <3>2. ASSUME NEW i \in 1..Len(cq'[q]), NEW j \in 1..Len(cq'[q]),
                 cq'[q][i].tag = cq'[q][j].tag
          PROVE  i = j
      <4>1. i + 1 = j + 1
        BY <3>2, <1>b DEF UniqueInv, Alone
      <4> QED
        BY <4>1
    <3> QED
      BY <2>2, <3>1, <3>2 DEF UniqueInv, Alone
  <2> QED
    BY <2>1, <2>2
<1>6. ExecutedInv'
  BY <1>c DEF ExecutedInv
<1>7. ResetInv'
  BY DEF ResetInv, Unsubmitted, Aborting
<1>8. CASE UNCHANGED <<req, task_state, status>>
  <2>1. TypeInv'
    BY Zenon, <1>8, <1>a, <1>b DEF TypeInv
  <2>2. TaskInv' /\ RequestInv' /\ TimerInv'
    BY Zenon, <1>8, TaskFrame, RequestFrame, TimerFrame
  <2>3. MessageInv'
    <3> SUFFICES ASSUME NEW p \in Queues, NEW m \in sq[p] \cup Posted(p)'
                 PROVE  /\ <<p, m.tag>> \in Slots
                        /\ m.op = "sync" => m.of \in Tasks
                        /\ Owned(p, m)'
      BY Zenon DEF MessageInv
    <3>1. <<p, m.tag>> \in Slots /\ (m.op = "sync" => m.of \in Tasks) /\ Owned(p, m)
      BY Zenon, <1>c DEF MessageInv
    <3> QED
      BY <3>1, <1>8, OwnedFrame DEF Aborting
  <2> QED
    BY <2>1, <2>2, <2>3, <1>5, <1>6, <1>7
<1>9. CASE Complete({s}, e.status)
  <2> DEFINE S == {s}
  <2>1. S \in SUBSET Slots /\ e.status \in {"answered", "abort"}
    BY Zenon, <1>b, <1>f DEF Entries
  <2>2. ASSUME req[s].fn = "sync_completion"
        PROVE  pc[req[s].ctx] = "schedule" /\ (e.status = "abort" \/ executed[req[s].ctx])
    <3>1. req[s].ctx \in Tasks /\ pc[req[s].ctx] # "idle" /\ slot[req[s].ctx] = s
      BY Zenon, <2>2, <1>f DEF RequestInv
    <3>2. req[s].busy
      BY SMTT(20), <2>2, <1>f DEF RequestInv
    <3>3. e.op = "sync" /\ e.of \in Tasks /\ pc[e.of] = "schedule" /\ slot[e.of] = s
      BY <2>2, <3>2, <1>f DEF Owned
    <3>4. e.of = req[s].ctx
      BY <3>1, <3>3, SlotInjective, Zenon
    <3> QED
      BY Zenon, <3>3, <3>4, <1>e DEF ExecutedInv
  <2>3. Aborting => abort_req # s
    <3> SUFFICES ASSUME Aborting, abort_req = s PROVE FALSE
      OBVIOUS
    <3>1. req[s].fn = "abort_completion" /\ req[s].busy
      BY Zenon, <1>f DEF TimerInv, RequestInv
    <3>2. CASE e.op = "sync" /\ e.of \in Tasks /\ pc[e.of] = "schedule" /\ slot[e.of] = s
      BY Zenon, <3>1, <3>2 DEF TaskInv
    <3> QED
      BY <1>f, <3>1, <3>2 DEF Owned
  <2>4. TaskInv' /\ RequestInv' /\ TimerInv'
    BY Zenon, <1>9, <2>1, <2>2, <2>3, CompleteInv
  <2>5. /\ req' \in [Slots -> Requests]
        /\ status' \in [Tasks -> {"none", "EINTR", "answered", "abort"}]
        /\ task_state' \in [Tasks -> {"RUNNING", "UNINTERRUPTIBLE"}]
        /\ \A t \in Slots \ S : req'[t] = req[t]
    BY Zenon, <1>9, <2>1, CompleteEffect
  <2>6. TypeInv'
    BY Zenon, <2>5, <1>a, <1>b DEF TypeInv, Requests
  <2>7. MessageInv'
    <3> SUFFICES ASSUME NEW p \in Queues, NEW m \in sq[p] \cup Posted(p)'
                 PROVE  /\ <<p, m.tag>> \in Slots
                        /\ m.op = "sync" => m.of \in Tasks
                        /\ Owned(p, m)'
      BY Zenon DEF MessageInv
    <3>1. /\ <<p, m.tag>> \in Slots
          /\ m.op = "sync" => m.of \in Tasks
          /\ Owned(p, m)
      BY Zenon, <1>c DEF MessageInv
    <3>2. <<p, m.tag>> # s
      BY SMTT(20), <1>d
    <3>3. req'[<<p, m.tag>>] = req[<<p, m.tag>>]
      BY <3>1, <3>2, <2>5
    <3> QED
      BY Zenon, <3>1, <3>3 DEF Owned, Aborting
  <2> QED
    BY <2>4, <2>6, <2>7, <1>5, <1>6, <1>7
<1> QED
  BY <1>8, <1>9 DEF Finish

-----------------------------------------------------------------------------
(* Steps that leave the requests and the rings alone.                      *)

Stages == {"up", "queued", "stop", "suspend_admin", "drain", "clear_io", "clear_admin",
           "start", "init", "setup", "create"}

\* Only the stage of the reset changes, or queues are frozen.
LEMMA StageInv ==
  ASSUME IInv,
         UNCHANGED <<req, pc, slot, task_state, status, sq, cq, q_lock, tpc, treq, abort_req,
                     executed>>,
         rpc' \in Stages, frozen' \in [Queues -> BOOLEAN],
         \A q \in Queues : frozen[q] => frozen'[q],
         ResetInv'
  PROVE  IInv'
<1> USE DEF IInv
<1>1. TypeInv'
  BY DEF TypeInv, Stages
<1>2. TaskInv' /\ RequestInv' /\ TimerInv'
  BY TaskFrame, RequestFrame, TimerFrame
<1>3. MessageInv'
  <2> SUFFICES ASSUME NEW q \in Queues, NEW m \in sq[q] \cup Posted(q)
               PROVE  /\ <<q, m.tag>> \in Slots
                      /\ m.op = "sync" => m.of \in Tasks
                      /\ Owned(q, m)'
    BY Zenon DEF MessageInv, Posted
  <2>1. <<q, m.tag>> \in Slots /\ (m.op = "sync" => m.of \in Tasks) /\ Owned(q, m)
    BY DEF MessageInv
  <2> QED
    BY <2>1, OwnedFrame DEF Aborting
<1>4. UniqueInv'
  BY UniqueFrame
<1>5. ExecutedInv'
  BY Zenon, ExecutedFrame
<1> QED
  BY <1>1, <1>2, <1>3, <1>4, <1>5

\* Nothing the invariant speaks of changes.
LEMMA FrameInv ==
  ASSUME IInv,
         UNCHANGED <<req, pc, slot, task_state, status, sq, cq, q_lock, tpc, treq, abort_req,
                     rpc, frozen, executed>>
  PROVE  IInv'
<1>1. ResetInv'
  BY Zenon DEF IInv, ResetInv, Unsubmitted, Aborting
<1> QED
  BY Zenon, <1>1, StageInv DEF IInv, TypeInv, Stages

-----------------------------------------------------------------------------
(* The interrupt and nvme_kthread.                                         *)

\* nvme_irq.
LEMMA IrqInv ==
  ASSUME IInv, NEW q \in Queues, Irq(q)
  PROVE  IInv'
BY FinishInv DEF Irq, lockVars, timerVars, devVars

\* nvme_kthread queues a reset, or completes what it finds.
LEMMA KthreadInv ==
  ASSUME IInv, Kthread
  PROVE  IInv'
<1>1. CASE KthreadPoll
  <2>1. CASE csts_cfs /\ rpc = "up" /\ QueueReset
    <3>1. /\ rpc = "up" /\ rpc' = "queued"
          /\ UNCHANGED <<req, pc, slot, task_state, status, sq, cq, q_lock, tpc, treq, abort_req,
                         frozen, executed>>
      BY <1>1, <2>1 DEF KthreadPoll, QueueReset, taskVars, ringVars, timerVars
    <3>2. ResetInv'
      BY <3>1 DEF IInv, ResetInv, Unsubmitted, Aborting, IoFrozen, AdminFrozen
    <3> QED
      BY <3>1, <3>2, StageInv DEF IInv, TypeInv, Stages
  <2>2. CASE UNCHANGED <<listed, rpc>>
    BY <1>1, <2>2, FrameInv DEF KthreadPoll, taskVars, ringVars, timerVars
  <2> QED
    BY <1>1, <2>1, <2>2, Zenon DEF KthreadPoll
<1>2. CASE KthreadProcess
  BY <1>2, FinishInv DEF KthreadProcess, lockVars, timerVars, devVars
<1>3. CASE KthreadNext \/ KthreadSleep
  BY <1>3, FrameInv DEF KthreadNext, KthreadSleep, taskVars, ringVars, lockVars, timerVars, devVars
<1> QED
  BY <1>1, <1>2, <1>3 DEF Kthread

-----------------------------------------------------------------------------
(* nvme_timeout and nvme_abort_req.                                        *)

\* The timer of a queue moves; requests and rings stay.
LEMMA TimerMoveInv ==
  ASSUME IInv,
         UNCHANGED <<req, pc, slot, task_state, status, sq, cq, abort_req, rpc, frozen, executed>>,
         TypeInv', TimerInv', Aborting' => Aborting
  PROVE  IInv'
<1> USE DEF IInv
<1>1. TaskInv' /\ RequestInv'
  BY TaskFrame, RequestFrame
<1>2. MessageInv'
  <2> SUFFICES ASSUME NEW q \in Queues, NEW m \in sq[q] \cup Posted(q)
               PROVE  /\ <<q, m.tag>> \in Slots
                      /\ m.op = "sync" => m.of \in Tasks
                      /\ Owned(q, m)'
    BY Zenon DEF MessageInv, Posted
  <2>1. <<q, m.tag>> \in Slots /\ (m.op = "sync" => m.of \in Tasks) /\ Owned(q, m)
    BY DEF MessageInv
  <2> QED
    BY <2>1, OwnedFrame
<1>3. UniqueInv' /\ ExecutedInv'
  BY Zenon, UniqueFrame, ExecutedFrame
<1>4. ResetInv'
  BY Zenon DEF ResetInv, Unsubmitted
<1> QED
  BY <1>1, <1>2, <1>3, <1>4

\* The timer of a request expires.
LEMMA TimerFiresInv ==
  ASSUME IInv, NEW s \in Slots, TimerFires(s)
  PROVE  IInv'
<1>1. s[1] \in Queues
  BY SlotPair
<1>2. TypeInv'
  BY Zenon, <1>1 DEF IInv, TypeInv, TimerFires, taskVars, ringVars, lockVars, devVars
<1>3. TimerInv' /\ (Aborting' => Aborting)
  BY ZenonT(30), <1>1 DEF IInv, TypeInv, TimerInv, Aborting, Queues, TimerFires, taskVars, ringVars, lockVars
<1> QED
  BY <1>2, <1>3, TimerMoveInv DEF TimerFires, taskVars, ringVars, devVars

\* nvme_abort_req decides; an abort takes a request nobody holds.
LEMMA TimerAbortReqInv ==
  ASSUME IInv, NEW q \in Queues, TimerAbortReq(q)
  PROVE  IInv'
<1> USE DEF IInv
<1>a. /\ tpc[q] = "lock" /\ q_lock[q] = None /\ treq[q] \in Slots
      /\ UNCHANGED <<pc, slot, task_state, status, sq, cq, rpc, frozen, executed>>
  BY Zenon DEF TimerAbortReq, TimerInv, taskVars, ringVars, devVars
<1>1. CASE /\ tpc' = [tpc EXCEPT ![q] = "reset"]
           /\ q_lock' = [q_lock EXCEPT ![q] = q]
           /\ UNCHANGED <<req, treq, abort_req, limit>>
  <2>1. TypeInv'
    BY Zenon, <1>a, <1>1 DEF TypeInv
  <2>2. TimerInv' /\ (Aborting' => Aborting)
    BY ZenonT(30), <1>a, <1>1 DEF TypeInv, TimerInv, Aborting, Queues
  <2> QED
    BY Zenon, <1>a, <1>1, <2>1, <2>2, TimerMoveInv
<1>2. CASE /\ tpc' = [tpc EXCEPT ![q] = "idle"]
           /\ treq' = [treq EXCEPT ![q] = None]
           /\ UNCHANGED <<req, q_lock, abort_req, limit>>
  <2>1. TypeInv'
    BY Zenon, <1>a, <1>2 DEF TypeInv
  <2>2. TimerInv' /\ (Aborting' => Aborting)
    BY <1>a, <1>2 DEF TypeInv, TimerInv, Aborting, Queues
  <2> QED
    BY Zenon, <1>a, <1>2, <2>1, <2>2, TimerMoveInv
<1>3. ASSUME NEW s \in Slots, s[1] = "admin", ~req[s].busy, ~frozen["admin"], q # "admin",
             req' = [req EXCEPT ![s] = [busy |-> TRUE, fn |-> "abort_completion",
                                        ctx |-> None, aborted |-> FALSE]],
             abort_req' = s,
             tpc' = [tpc EXCEPT ![q] = "store"],
             q_lock' = [q_lock EXCEPT ![q] = q],
             UNCHANGED treq
      PROVE  IInv'
  <2>q. q = "io" /\ ~Aborting
    BY Zenon, <1>3, <1>a DEF Queues, Aborting
  <2>a. /\ req'[s].busy /\ req'[s].fn = "abort_completion"
        /\ \A t \in Slots \ {s} : req'[t] = req[t]
        /\ Aborting'
    BY ZenonT(30), <1>3, <2>q DEF TypeInv, Aborting
  <2>b. \A d \in Tasks : pc[d] # "idle" => slot[d] # s
    BY Zenon, <1>3 DEF TaskInv
  <2>1. TypeInv'
    BY Zenon, <1>a, <1>3 DEF TypeInv, Functions
  <2>2. TaskInv'
    <3>1. \A d \in Tasks : pc[d] # "idle" => slot[d] \in Slots /\ req'[slot[d]] = req[slot[d]]
      BY <2>a, <2>b, Zenon DEF TaskInv
    <3> QED
      BY <3>1, <1>a, TaskRequests, Zenon
  <2>3. RequestInv'
    <3>1. ASSUME NEW t \in Slots \ {s}
          PROVE  /\ ~req'[t].busy => req'[t].fn = "special_completion"
                 /\ req'[t].fn = "sync_completion" =>
                      /\ req'[t].ctx \in Tasks /\ pc'[req'[t].ctx] # "idle"
                      /\ slot'[req'[t].ctx] = t
                 /\ req'[t].fn = "abort_completion" => t[1] = "admin"
      <4>1. req'[t] = req[t] /\ pc' = pc /\ slot' = slot
        BY Zenon, <1>a, <2>a
      <4> QED
        BY ZenonT(40), SMTT(30), <4>1 DEF RequestInv
    <3> QED
      BY Zenon, <1>3, <2>a, <3>1 DEF RequestInv
  <2>4. MessageInv'
    <3> SUFFICES ASSUME NEW p \in Queues, NEW m \in sq[p] \cup Posted(p)
                 PROVE  /\ <<p, m.tag>> \in Slots
                        /\ m.op = "sync" => m.of \in Tasks
                        /\ Owned(p, m)'
      BY <1>a, Zenon DEF MessageInv, Posted
    <3>1. /\ <<p, m.tag>> \in Slots
          /\ m.op = "sync" => m.of \in Tasks
          /\ Owned(p, m)
      BY Zenon DEF MessageInv
    <3>2. <<p, m.tag>> # s
      <4>1. req[s].fn = "special_completion" /\ ~frozen[s[1]]
        BY Zenon, <1>3 DEF RequestInv
      <4>2. <<p, m.tag>>[1] = p
        OBVIOUS
      <4> QED
        BY Zenon, <3>1, <2>b, <4>1, <4>2 DEF Owned
    <3> QED
      BY Zenon, <3>1, <3>2, <2>a, <1>a, <1>3 DEF Owned
  <2>5. UniqueInv' /\ ExecutedInv'
    BY Zenon, <1>a, UniqueFrame, ExecutedFrame
  <2>6. TimerInv'
    BY SMTT(30), ZenonT(30), <1>3, <1>a, <2>q, <2>a DEF TypeInv, TimerInv, Aborting, Queues
  <2>7. ResetInv'
    BY <1>3, <1>a, Zenon DEF ResetInv, Unsubmitted, Aborting, AdminFrozen
  <2> QED
    BY Zenon, <2>1, <2>2, <2>3, <2>4, <2>5, <2>6, <2>7
<1> QED
  BY <1>1, <1>2, <1>3 DEF TimerAbortReq

\* nvme_abort_req queues a reset.
LEMMA TimerResetInv ==
  ASSUME IInv, NEW q \in Queues, TimerReset(q)
  PROVE  IInv'
<1> USE DEF IInv
<1>a. /\ tpc[q] = "reset"
      /\ tpc' = [tpc EXCEPT ![q] = "idle"]
      /\ treq' = [treq EXCEPT ![q] = None]
      /\ q_lock' = [q_lock EXCEPT ![q] = None]
      /\ UNCHANGED <<req, pc, slot, task_state, status, sq, cq, abort_req, frozen, executed>>
      /\ rpc' = rpc \/ (rpc = "up" /\ rpc' = "queued")
  BY DEF TimerReset, QueueReset, taskVars, ringVars
<1>1. TypeInv'
  BY Zenon, <1>a DEF TypeInv
<1>2. TimerInv' /\ (Aborting' => Aborting)
  BY <1>a DEF TypeInv, TimerInv, Aborting, Queues
<1>3. TaskInv' /\ RequestInv'
  BY <1>a, TaskFrame, RequestFrame
<1>4. MessageInv'
  <2> SUFFICES ASSUME NEW p \in Queues, NEW m \in sq[p] \cup Posted(p)
               PROVE  /\ <<p, m.tag>> \in Slots
                      /\ m.op = "sync" => m.of \in Tasks
                      /\ Owned(p, m)'
    BY <1>a, Zenon DEF MessageInv, Posted
  <2>1. <<p, m.tag>> \in Slots /\ (m.op = "sync" => m.of \in Tasks) /\ Owned(p, m)
    BY Zenon DEF MessageInv
  <2> QED
    BY <2>1, <1>a, <1>2, OwnedFrame, Zenon
<1>5. UniqueInv' /\ ExecutedInv'
  BY Zenon, <1>a, UniqueFrame, ExecutedFrame
<1>6. ResetInv'
  BY <1>a, <1>2 DEF ResetInv, Unsubmitted, IoFrozen, AdminFrozen
<1> QED
  BY <1>1, <1>2, <1>3, <1>4, <1>5, <1>6

\* The request that timed out is marked.
LEMMA TimerStoreInv ==
  ASSUME IInv, NEW q \in Queues, TimerStore(q)
  PROVE  IInv'
<1> USE DEF IInv
<1> DEFINE marked == [req[treq[q]] EXCEPT !.aborted = TRUE]
<1>a. /\ tpc[q] = "store" /\ treq[q] \in Slots
      /\ req' = [req EXCEPT ![treq[q]] = marked]
      /\ tpc' = [tpc EXCEPT ![q] = "submit"]
      /\ UNCHANGED <<pc, slot, task_state, status, sq, cq, q_lock, treq, abort_req, rpc, frozen,
                     executed>>
  BY DEF TimerStore, TimerInv, taskVars, ringVars, lockVars, devVars
<1>b. /\ req[treq[q]] \in Requests /\ marked \in Requests
      /\ marked.fn = req[treq[q]].fn /\ marked.ctx = req[treq[q]].ctx
      /\ marked.busy = req[treq[q]].busy
  <2>1. req[treq[q]] \in Requests
    BY <1>a DEF TypeInv, Requests
  <2>2. /\ marked.fn = req[treq[q]].fn /\ marked.ctx = req[treq[q]].ctx
        /\ marked.busy = req[treq[q]].busy
    BY <2>1 DEF Requests
  <2>3. marked \in Requests
    BY <2>1, Zenon DEF Requests
  <2> QED
    BY <2>1, <2>2, <2>3
<1>c. \A s \in Slots : /\ req'[s].fn = req[s].fn /\ req'[s].ctx = req[s].ctx
                       /\ req'[s].busy = req[s].busy
  BY <1>a, <1>b DEF TypeInv
<1>1. TypeInv'
  <2>1. req' \in [Slots -> Requests]
    BY <1>a, <1>b DEF TypeInv, Requests
  <2> QED
    BY <1>a, <2>1 DEF TypeInv, Requests
<1>2. TaskInv' /\ RequestInv'
  BY <1>a, <1>c DEF TaskInv, RequestInv, Waiting
<1>3. TimerInv' /\ Aborting /\ Aborting'
  BY <1>a, <1>c DEF TypeInv, TimerInv, Aborting, Queues
<1>4. MessageInv'
  <2> SUFFICES ASSUME NEW p \in Queues, NEW m \in sq[p] \cup Posted(p)
               PROVE  /\ <<p, m.tag>> \in Slots
                      /\ m.op = "sync" => m.of \in Tasks
                      /\ Owned(p, m)'
    BY <1>a, Zenon DEF MessageInv, Posted
  <2> QED
    BY ZenonT(40), <1>a, <1>c, <1>3 DEF MessageInv, Owned
<1>5. UniqueInv' /\ ExecutedInv'
  BY <1>a, UniqueFrame, ExecutedFrame
<1>6. ResetInv'
  BY <1>a, <1>3 DEF ResetInv, Unsubmitted
<1> QED
  BY <1>1, <1>2, <1>3, <1>4, <1>5, <1>6

\* The abort command is submitted: its tag is not in the ring yet.
LEMMA TimerSubmitInv ==
  ASSUME IInv, NEW q \in Queues, TimerSubmit(q)
  PROVE  IInv'
<1> USE DEF IInv
<1> DEFINE new == [tag |-> abort_req[2], op |-> "abort", of |-> treq[q][2]]
<1>a. /\ tpc[q] = "submit" /\ treq[q] \in Slots
      /\ sq' = [sq EXCEPT !["admin"] = @ \cup {new}]
      /\ tpc' = [tpc EXCEPT ![q] = "idle"]
      /\ treq' = [treq EXCEPT ![q] = None]
      /\ abort_req' = None
      /\ q_lock' = [q_lock EXCEPT ![q] = None]
      /\ UNCHANGED <<req, pc, slot, task_state, status, cq, rpc, frozen, executed>>
  BY Zenon DEF TimerSubmit, TimerInv, taskVars, devVars
<1>q. q = "io" /\ Aborting /\ ~Aborting' /\ "admin" \in Queues
  BY <1>a DEF TypeInv, TimerInv, Aborting, Queues
<1>b. /\ abort_req \in Slots /\ abort_req = <<"admin", abort_req[2]>>
      /\ req[abort_req].fn = "abort_completion"
      /\ abort_req[2] \in Tags /\ treq[q][2] \in Tags
  BY Zenon, <1>a, <1>q, SlotPair DEF TimerInv
<1>c. /\ sq'["admin"] = sq["admin"] \cup {new}
      /\ \A p \in Queues \ {"admin"} : sq'[p] = sq[p]
  BY Zenon, <1>a, <1>q DEF TypeInv
<1>d. \A m \in sq["admin"] \cup Posted("admin") : m.tag # abort_req[2]
  <2> SUFFICES ASSUME NEW m \in sq["admin"] \cup Posted("admin"), m.tag = abort_req[2]
               PROVE  FALSE
    OBVIOUS
  <2>1. Owned("admin", m) /\ <<"admin", m.tag>> = abort_req
    BY <1>b, <1>q DEF MessageInv
  <2>2. req[abort_req].busy
    BY Zenon, <1>b DEF RequestInv
  <2>3. \A c \in Tasks : pc[c] # "idle" => slot[c] # abort_req
    BY Zenon, <1>b DEF TaskInv
  <2> QED
    BY <2>1, <2>2, <2>3, <1>b, <1>q DEF Owned
<1>1. TypeInv'
  <2>1. new \in Cmds
    BY <1>b DEF Cmds
  <2> QED
    BY Zenon, <1>a, <2>1, <1>q DEF TypeInv
<1>2. TaskInv' /\ RequestInv'
  BY <1>a, TaskFrame, RequestFrame, Zenon
<1>3. TimerInv'
  BY Zenon, <1>a, <1>q DEF TypeInv, TimerInv, Queues
<1>4. MessageInv'
  <2> SUFFICES ASSUME NEW p \in Queues, NEW m \in sq'[p] \cup Posted(p)
               PROVE  /\ <<p, m.tag>> \in Slots
                      /\ m.op = "sync" => m.of \in Tasks
                      /\ Owned(p, m)'
    BY <1>a, Zenon DEF MessageInv, Posted
  <2>1. CASE m \in sq[p] \cup Posted(p)
    BY Zenon, <2>1, <1>a, <1>q DEF MessageInv, Owned
  <2>2. CASE p = "admin" /\ m = new
    BY Zenon, <2>2, <1>a, <1>b, <1>q DEF Owned
  <2> QED
    BY <2>1, <2>2, <1>c, Zenon
<1>5. UniqueInv'
  <2>1. new.tag = abort_req[2]
    OBVIOUS
  <2> HIDE DEF new
  <2>2. \A m \in sq["admin"] \cup Posted("admin") : m.tag # new.tag
    BY <2>1, <1>d
  <2>3. UNCHANGED cq
    BY Zenon, <1>a
  <2> QED
    BY <2>2, <2>3, <1>c, <1>q, AddUnique, Zenon
<1>6. ExecutedInv'
  BY Zenon, <1>a, ExecutedFrame
<1>7. ResetInv'
  BY <1>a, <1>c, <1>q, Zenon DEF ResetInv, Unsubmitted, Queues
<1> QED
  BY <1>1, <1>2, <1>3, <1>4, <1>5, <1>6, <1>7

-----------------------------------------------------------------------------
(* The reset.                                                              *)

\* nvme_clear_queue: the commands in the rings stay, with requests that are
\* free or that their callers still hold.
LEMMA ResetClearInv ==
  ASSUME IInv, ~SubmitRaces, NEW q \in Queues, ResetClear(q)
  PROVE  IInv'
<1> USE DEF IInv
<1> DEFINE S == {s \in Slots : s[1] = q /\ req[s].busy}
<1>a. /\ \/ q = "io" /\ rpc = "clear_io" /\ rpc' = "clear_admin"
         \/ q = "admin" /\ rpc = "clear_admin" /\ rpc' = "start"
      /\ q_lock[q] = None
      /\ ~Unsubmitted(q)
      /\ Complete(S, "abort")
      /\ UNCHANGED <<pc, slot, sq, cq, q_lock, tpc, treq, abort_req, frozen, executed>>
  BY Zenon DEF ResetClear, ClearWith, Step, ringVars, lockVars, timerVars
<1>b. frozen["io"] /\ frozen["admin"] /\ frozen[q]
  BY Zenon, <1>a DEF ResetInv, IoFrozen, AdminFrozen
<1>c. ~(Aborting /\ abort_req \in S) /\ (q = "io" => ~Aborting)
  BY Zenon, <1>a, CommandAssumption DEF ResetInv, TimerInv, Aborting
<1>d. S \in SUBSET Slots
  BY Zenon
<1>e. ASSUME NEW s \in S, req[s].fn = "sync_completion"
      PROVE  pc[req[s].ctx] = "schedule"
  <2>1. req[s].ctx \in Tasks /\ pc[req[s].ctx] # "idle" /\ slot[req[s].ctx] = s /\ s[1] = q
    BY Zenon, <1>e DEF RequestInv
  <2> QED
    BY <2>1, <1>a DEF Unsubmitted, TypeInv
<1>1. TaskInv' /\ RequestInv' /\ TimerInv'
  BY Zenon, <1>a, <1>c, <1>d, <1>e, CompleteInv
<1>f. /\ req' \in [Slots -> Requests]
      /\ status' \in [Tasks -> {"none", "EINTR", "answered", "abort"}]
      /\ task_state' \in [Tasks -> {"RUNNING", "UNINTERRUPTIBLE"}]
      /\ \A s \in Slots \ S : req'[s] = req[s]
      /\ \A s \in S : /\ req[s].fn = "abort_completion" => ~req'[s].busy
                      /\ req[s].fn # "abort_completion" => req'[s].busy = req[s].busy
  BY Zenon, <1>a, <1>d, CompleteEffect
<1>2. TypeInv'
  BY Zenon, <1>a, <1>f DEF TypeInv, Requests
<1>3. MessageInv'
  <2> SUFFICES ASSUME NEW p \in Queues, NEW m \in sq[p] \cup Posted(p)
               PROVE  /\ <<p, m.tag>> \in Slots
                      /\ m.op = "sync" => m.of \in Tasks
                      /\ Owned(p, m)'
    BY <1>a, Zenon DEF MessageInv, Posted
  <2>1. /\ <<p, m.tag>> \in Slots
        /\ m.op = "sync" => m.of \in Tasks
        /\ Owned(p, m)
    BY Zenon DEF MessageInv
  <2>2. frozen[p] /\ frozen'[p]
    BY Zenon, <1>a, <1>b DEF Queues
  <2>3. CASE <<p, m.tag>> \in S
    BY Zenon, <2>1, <2>2, <2>3, <1>a, <1>f DEF Owned
  <2>4. CASE <<p, m.tag>> \notin S
    <3>1. req'[<<p, m.tag>>] = req[<<p, m.tag>>]
      BY Zenon, <2>1, <2>4, <1>f
    <3> QED
      BY Zenon, <2>1, <3>1, <1>a DEF Owned, Aborting
  <2> QED
    BY Zenon, <2>1, <2>3, <2>4
<1>4. UniqueInv' /\ ExecutedInv'
  BY Zenon, <1>a, UniqueFrame, ExecutedFrame
<1>5. ResetInv'
  BY <1>a, <1>b, <1>c DEF ResetInv, IoFrozen, AdminFrozen, Unsubmitted, Aborting
<1> QED
  BY Zenon, <1>1, <1>2, <1>3, <1>4, <1>5

\* The controller is enabled again and has forgotten its commands.
LEMMA ResetConfigureInv ==
  ASSUME IInv, ResetConfigure
  PROVE  IInv'
<1> USE DEF IInv
<1>a. /\ rpc = "start" /\ rpc' = "init"
      /\ sq' = [q \in Queues |-> {}]
      /\ UNCHANGED <<req, pc, slot, task_state, status, cq, q_lock, tpc, treq, abort_req, frozen,
                     executed>>
  BY Zenon DEF ResetConfigure, ConfigureWith, Step, taskVars, lockVars, timerVars
<1>1. TypeInv'
  BY <1>a DEF TypeInv
<1>2. TaskInv' /\ RequestInv' /\ TimerInv' /\ ExecutedInv'
  BY <1>a, TaskFrame, RequestFrame, TimerFrame, ExecutedFrame
<1>3. MessageInv'
  <2> SUFFICES ASSUME NEW p \in Queues, NEW m \in Posted(p)
               PROVE  /\ <<p, m.tag>> \in Slots
                      /\ m.op = "sync" => m.of \in Tasks
                      /\ Owned(p, m)'
    BY <1>a, Zenon DEF MessageInv, Posted
  <2>1. <<p, m.tag>> \in Slots /\ (m.op = "sync" => m.of \in Tasks) /\ Owned(p, m)
    BY Zenon DEF MessageInv
  <2> QED
    BY <2>1, <1>a, OwnedFrame DEF Aborting
<1>4. UniqueInv'
  BY Zenon, <1>a DEF UniqueInv, Alone
<1>5. ResetInv'
  BY Zenon, <1>a DEF ResetInv, IoFrozen, AdminFrozen, Unsubmitted, Aborting, Queues
<1> QED
  BY <1>1, <1>2, <1>3, <1>4, <1>5

\* A queue that is initialised and thawed holds no command and no entry.
LEMMA ThawInv ==
  ASSUME IInv, NEW q \in Queues, sq[q] = {},
         cq' = [cq EXCEPT ![q] = << >>], frozen' = [frozen EXCEPT ![q] = FALSE],
         rpc' \in Stages, ResetInv',
         UNCHANGED <<req, pc, slot, task_state, status, sq, q_lock, tpc, treq, abort_req, executed>>
  PROVE  IInv'
<1> USE DEF IInv
<1>a. /\ cq'[q] = << >> /\ Posted(q)' = {}
      /\ \A p \in Queues \ {q} : cq'[p] = cq[p] /\ frozen'[p] = frozen[p] /\ Posted(p)' = Posted(p)
  BY DEF TypeInv, Posted
<1>1. TypeInv'
  BY SMTT(30), ZenonT(30) DEF TypeInv, Stages
<1>2. TaskInv' /\ RequestInv' /\ TimerInv'
  BY Zenon, TaskFrame, RequestFrame, TimerFrame
<1>3. MessageInv'
  <2> SUFFICES ASSUME NEW p \in Queues, NEW m \in sq[p] \cup Posted(p)'
               PROVE  /\ <<p, m.tag>> \in Slots
                      /\ m.op = "sync" => m.of \in Tasks
                      /\ Owned(p, m)'
    BY Zenon DEF MessageInv
  <2>1. p # q /\ m \in sq[p] \cup Posted(p)
    BY Zenon, <1>a
  <2>2. <<p, m.tag>> \in Slots /\ (m.op = "sync" => m.of \in Tasks) /\ Owned(p, m)
    BY Zenon, <2>1 DEF MessageInv
  <2> QED
    BY Zenon, <2>1, <2>2, <1>a, OwnedFrame DEF Aborting
<1>4. UniqueInv'
  BY SMTT(30), ZenonT(30), <1>a DEF UniqueInv, Alone
<1>5. ExecutedInv'
  BY ZenonT(30), SMTT(30), <1>a DEF ExecutedInv
<1> QED
  BY Zenon, <1>1, <1>2, <1>3, <1>4, <1>5

\* Every stage of the reset.
LEMMA ResetStepInv ==
  ASSUME IInv, ~SubmitRaces, Reset
  PROVE  IInv'
<1> USE DEF IInv
<1> DEFINE rest == <<req, pc, slot, task_state, status, sq, cq, q_lock, tpc, treq, abort_req,
                     executed>>
<1>1. CASE ResetUnlist
  <2>1. rpc = "queued" /\ rpc' = "stop" /\ UNCHANGED rest /\ UNCHANGED frozen
    BY Zenon, <1>1 DEF ResetUnlist, Step, taskVars, ringVars, lockVars, timerVars
  <2>2. ResetInv'
    BY Zenon, <2>1 DEF ResetInv, IoFrozen, AdminFrozen, Unsubmitted, Aborting
  <2> QED
    BY Zenon, <2>1, <2>2, StageInv DEF TypeInv, Stages
<1>2. CASE ResetSuspendIo
  <2>1. /\ rpc = "stop" /\ rpc' = "suspend_admin" /\ UNCHANGED rest
        /\ frozen' = [frozen EXCEPT !["io"] = TRUE]
    BY <1>2 DEF ResetSuspendIo, Step, taskVars, ringVars, lockVars, timerVars
  <2>2. frozen' \in [Queues -> BOOLEAN] /\ frozen'["io"] /\ \A q \in Queues : frozen[q] => frozen'[q]
    BY Zenon, <2>1 DEF TypeInv, Queues
  <2>3. ResetInv'
    BY <2>1, <2>2 DEF ResetInv, IoFrozen, AdminFrozen, Unsubmitted, Aborting
  <2> QED
    BY <2>1, <2>2, <2>3, StageInv DEF Stages
<1>3. CASE ResetSuspendAdmin
  <2>1. /\ rpc = "suspend_admin" /\ rpc' \in {"clear_io", "drain"} /\ UNCHANGED rest
        /\ frozen' = [frozen EXCEPT !["admin"] = TRUE]
    BY <1>3 DEF ResetSuspendAdmin, Step, taskVars, ringVars, lockVars, timerVars
  <2>2. /\ frozen' \in [Queues -> BOOLEAN] /\ frozen'["admin"]
        /\ \A q \in Queues : frozen[q] => frozen'[q]
    BY Zenon, <2>1 DEF TypeInv, Queues
  <2>3. ResetInv'
    BY Zenon, <2>1, <2>2 DEF ResetInv, IoFrozen, AdminFrozen, Unsubmitted, Aborting, Queues
  <2> QED
    BY <2>1, <2>2, <2>3, StageInv DEF Stages
<1>4. CASE ResetDrain
  <2>1. CASE cq["admin"] # << >> /\ Finish("admin") /\ UNCHANGED rpc
    BY Zenon, <1>4, <2>1, FinishInv DEF ResetDrain, lockVars, timerVars, Queues
  <2>2. CASE rpc' = "clear_io" /\ UNCHANGED <<req, task_state, status, cq>>
    <3>1. rpc = "drain" /\ UNCHANGED rest /\ UNCHANGED frozen
      BY Zenon, <1>4, <2>2 DEF ResetDrain, lockVars, timerVars
    <3>2. ResetInv'
      BY Zenon, <2>2, <3>1 DEF ResetInv, IoFrozen, AdminFrozen, Unsubmitted, Aborting
    <3> QED
      BY Zenon, <2>2, <3>1, <3>2, StageInv DEF TypeInv, Stages
  <2> QED
    BY Zenon, <1>4, <2>1, <2>2 DEF ResetDrain
<1>5. CASE \E q \in Queues : ResetClear(q)
  BY <1>5, ResetClearInv
<1>6. CASE ResetConfigure
  BY <1>6, ResetConfigureInv
<1>7. CASE ResetInitAdmin
  <2>1. /\ rpc = "init" /\ rpc' = "setup" /\ cq' = [cq EXCEPT !["admin"] = << >>]
        /\ frozen' = [frozen EXCEPT !["admin"] = FALSE]
        /\ UNCHANGED <<req, pc, slot, task_state, status, sq, q_lock, tpc, treq, abort_req, executed>>
    BY <1>7 DEF ResetInitAdmin, Step, taskVars, lockVars, timerVars
  <2>2. sq["admin"] = {} /\ "admin" \in Queues
    BY Zenon, <2>1 DEF ResetInv, Queues
  <2>3. ResetInv'
    BY <2>1 DEF TypeInv, ResetInv, IoFrozen, AdminFrozen, Unsubmitted, Aborting, Queues
  <2> QED
    BY <2>1, <2>2, <2>3, ThawInv, Zenon DEF Stages
<1>8. CASE ResetCreateIo
  <2>1. /\ rpc = "create" /\ rpc' = "up" /\ cq' = [cq EXCEPT !["io"] = << >>]
        /\ frozen' = [frozen EXCEPT !["io"] = FALSE]
        /\ UNCHANGED <<req, pc, slot, task_state, status, sq, q_lock, tpc, treq, abort_req, executed>>
    BY Zenon, <1>8 DEF ResetCreateIo, Step, taskVars, lockVars, timerVars
  <2>2. sq["io"] = {} /\ "io" \in Queues
    BY Zenon, <2>1 DEF ResetInv, Queues
  <2>3. ResetInv'
    BY Zenon, <2>1 DEF TypeInv, ResetInv, IoFrozen, AdminFrozen, Unsubmitted, Aborting, Queues
  <2> QED
    BY <2>1, <2>2, <2>3, ThawInv, Zenon DEF Stages
<1> QED
  BY Zenon, <1>1, <1>2, <1>3, <1>4, <1>5, <1>6, <1>7, <1>8 DEF Reset

-----------------------------------------------------------------------------
(* The controller.                                                         *)

\* A command of queue q becomes an entry of it.
Posts(q, cmd0, st) ==
  /\ sq'[q] = sq[q] \ {cmd0}
  /\ cq'[q] = Append(cq[q], Entry(cmd0, st))

\* An entry is owned if the command it answers was.
LEMMA PostOwned ==
  ASSUME MessageInv, NEW q \in Queues, NEW cmd0 \in sq[q],
         UNCHANGED <<req, pc, slot, tpc, abort_req, frozen>>, NEW st
  PROVE  /\ <<q, cmd0.tag>> \in Slots
         /\ cmd0.op = "sync" => cmd0.of \in Tasks
         /\ Owned(q, Entry(cmd0, st))'
BY Zenon DEF MessageInv, Owned, Aborting, Entry

\* A tag that moves from the submission to the completion ring stays unique.
LEMMA PostUnique ==
  ASSUME TypeInv, UniqueInv, NEW q \in Queues, NEW cmd0 \in sq[q],
         NEW st \in {"answered", "abort"}, Posts(q, cmd0, st)
  PROVE  /\ Entry(cmd0, st) \in Entries
         /\ cq'[q] \in Seq(Entries)
         /\ Posted(q)' = Posted(q) \cup {Entry(cmd0, st)}
         /\ Alone(q)'
<1> DEFINE e == Entry(cmd0, st)
           n0 == Len(cq[q])
<1>1. e \in Entries /\ e.tag = cmd0.tag
  BY DEF TypeInv, Cmds, Entries, Entry
<1>2. /\ cq[q] \in Seq(Entries) /\ n0 \in Nat /\ cq'[q] \in Seq(Entries)
      /\ Len(cq'[q]) = n0 + 1
      /\ \A i \in 1..n0 : cq'[q][i] = cq[q][i]
      /\ cq'[q][n0 + 1] = e
  <2>1. cq[q] \in Seq(Entries) /\ n0 \in Nat
    BY DEF TypeInv
  <2>2. cq'[q] = Append(cq[q], e)
    BY DEF Posts
  <2> HIDE DEF e
  <2>3. /\ Append(cq[q], e) \in Seq(Entries)
        /\ Len(Append(cq[q], e)) = Len(cq[q]) + 1
        /\ \A i \in 1..Len(cq[q]) : Append(cq[q], e)[i] = cq[q][i]
        /\ Append(cq[q], e)[Len(cq[q]) + 1] = e
    BY <1>1, <2>1, AppendEntry
  <2> QED
    BY Zenon, <2>1, <2>2, <2>3
<1> HIDE DEF e, n0
<1>3. \A i \in 1..(n0 + 1) : i \in 1..n0 \/ i = n0 + 1
  BY <1>2
<1>4. Posted(q)' = Posted(q) \cup {e}
  <2>1. Posted(q)' = {cq'[q][i] : i \in 1..(n0 + 1)}
    BY <1>2 DEF Posted
  <2>2. \A x : x \in Posted(q)' <=> x \in Posted(q) \cup {e}
    BY SMTT(30), ZenonT(30), <2>1, <1>2, <1>3 DEF Posted, n0
  <2> QED
    BY <2>2
<1>5. \A m \in sq'[q] : m \in sq[q] /\ m # cmd0
  BY DEF Posts
<1>6. \A m \in sq'[q] : m.tag # e.tag
  BY Zenon, <1>1, <1>5 DEF UniqueInv, Alone
<1>7. \A i \in 1..n0 : cq[q][i].tag # e.tag
  BY Zenon, <1>1 DEF UniqueInv, Alone, n0
<1>8. \A m \in sq'[q] : \A i \in 1..Len(cq'[q]) : m.tag # cq'[q][i].tag
  BY SMTT(30), ZenonT(30), <1>2, <1>3, <1>5, <1>6 DEF UniqueInv, Alone, n0
<1>9. ASSUME NEW i \in 1..Len(cq'[q]), NEW j \in 1..Len(cq'[q]),
             cq'[q][i].tag = cq'[q][j].tag
      PROVE  i = j
  <2>1. CASE i \in 1..n0 /\ j \in 1..n0
    BY Zenon, <1>9, <2>1, <1>2 DEF UniqueInv, Alone, n0
  <2>2. CASE i = n0 + 1 /\ j \in 1..n0
    BY Zenon, <1>9, <2>2, <1>2, <1>7
  <2>3. CASE j = n0 + 1 /\ i \in 1..n0
    BY Zenon, <1>9, <2>3, <1>2, <1>7
  <2> QED
    BY Zenon, <2>1, <2>2, <2>3, <1>2, <1>3
<1> QED
  BY Zenon, <1>1, <1>2, <1>4, <1>5, <1>8, <1>9 DEF UniqueInv, Alone, e

\* The controller answers a command.
LEMMA AnswerInv ==
  ASSUME IInv, NEW q \in Queues, NEW cmd0 \in sq[q], Answer(q, cmd0)
  PROVE  IInv'
<1> USE DEF IInv
<1> DEFINE e == Entry(cmd0, "answered")
<1>a. /\ sq' = [sq EXCEPT ![q] = @ \ {cmd0}]
      /\ cq' = [cq EXCEPT ![q] = Append(@, e)]
      /\ executed' = [c \in Tasks |-> executed[c] \/ (cmd0.op = "sync" /\ c = cmd0.of)]
      /\ UNCHANGED <<req, pc, slot, task_state, status, q_lock, tpc, treq, abort_req, rpc, frozen>>
  BY Zenon DEF Answer, taskVars, lockVars, timerVars, devVars
<1>b. /\ Posts(q, cmd0, "answered")
      /\ \A p \in Queues \ {q} : sq'[p] = sq[p] /\ cq'[p] = cq[p] /\ Posted(p)' = Posted(p)
  <2>1. Posts(q, cmd0, "answered")
    BY Zenon, <1>a DEF TypeInv, Posts
  <2>2. \A p \in Queues \ {q} : sq'[p] = sq[p] /\ cq'[p] = cq[p]
    BY <1>a DEF TypeInv
  <2>3. \A p \in Queues \ {q} : Posted(p)' = Posted(p)
    BY <2>2 DEF Posted
  <2> QED
    BY Zenon, <2>1, <2>2, <2>3
<1>c. /\ e \in Entries
      /\ cq'[q] \in Seq(Entries)
      /\ Posted(q)' = Posted(q) \cup {e}
      /\ Alone(q)'
  BY Zenon, <1>b, PostUnique
<1>d. e.tag = cmd0.tag /\ e.op = cmd0.op /\ e.of = cmd0.of
  BY Zenon DEF Entry
<1>e. \A c \in Tasks : /\ executed[c] => executed'[c]
                       /\ cmd0.op = "sync" /\ c = cmd0.of => executed'[c]
  BY <1>a, Zenon
<1> HIDE DEF e
<1>1. TypeInv'
  BY <1>a, <1>c DEF TypeInv
<1>2. TaskInv'
  BY <1>a, <1>e, TaskFrame, Zenon
<1>3. RequestInv' /\ TimerInv'
  <2>1. RequestInv'
    BY <1>a, RequestFrame, Zenon
  <2>2. TimerInv'
    BY <1>a, TimerFrame, Zenon
  <2> QED
    BY <2>1, <2>2
<1>4. MessageInv'
  <2> SUFFICES ASSUME NEW p \in Queues, NEW m \in sq'[p] \cup Posted(p)'
               PROVE  /\ <<p, m.tag>> \in Slots
                      /\ m.op = "sync" => m.of \in Tasks
                      /\ Owned(p, m)'
    BY Zenon DEF MessageInv
  <2>1. CASE m \in sq[p] \cup Posted(p)
    <3>1. <<p, m.tag>> \in Slots /\ (m.op = "sync" => m.of \in Tasks) /\ Owned(p, m)
      BY Zenon, <2>1 DEF MessageInv
    <3> QED
      BY Zenon, <3>1, <1>a, OwnedFrame DEF Aborting
  <2>2. CASE p = q /\ m = e
    BY Zenon, <2>2, <1>a, <1>d, PostOwned DEF e
  <2> QED
    BY Zenon, <2>1, <2>2, <1>b, <1>c DEF Posts
<1>5. UniqueInv'
  <2>1. ASSUME NEW p \in Queues \ {q}
        PROVE  Alone(p)'
    <3>1. sq'[p] = sq[p] /\ cq'[p] = cq[p]
      BY Zenon, <1>b
    <3>2. Alone(p)
      BY Zenon DEF UniqueInv
    <3> QED
      BY Zenon, <3>1, <3>2 DEF Alone
  <2> QED
    BY Zenon, <1>c, <2>1 DEF UniqueInv
<1>6. ExecutedInv'
  <2> SUFFICES ASSUME NEW p \in Queues, NEW f \in Posted(p)', f.op = "sync", f.status # "abort",
                      pc[f.of] = "schedule", slot[f.of] = <<p, f.tag>>
               PROVE  executed'[f.of]
    BY Zenon, <1>a DEF ExecutedInv
  <2>1. CASE f \in Posted(p)
    BY <2>1, <1>e, Zenon DEF ExecutedInv, MessageInv
  <2>2. CASE p = q /\ f = e
    BY <2>2, <1>d, <1>e, Zenon DEF MessageInv
  <2> QED
    BY Zenon, <2>1, <2>2, <1>b, <1>c
<1>7. ResetInv'
  BY Zenon, <1>a, <1>b DEF ResetInv, Unsubmitted, Aborting, Posts, Queues
<1> QED
  BY Zenon, <1>1, <1>2, <1>3, <1>4, <1>5, <1>6, <1>7

\* The controller aborts a command and answers both.
LEMMA ExecuteAbortInv ==
  ASSUME IInv, NEW cmd0 \in sq["admin"], NEW target \in sq["io"], ExecuteAbort(cmd0, target)
  PROVE  IInv'
<1> USE DEF IInv
<1> DEFINE e == Entry(cmd0, "answered")
           f == Entry(target, "abort")
<1>a. /\ sq' = [sq EXCEPT !["admin"] = @ \ {cmd0}, !["io"] = @ \ {target}]
      /\ cq' = [cq EXCEPT !["admin"] = Append(@, e), !["io"] = Append(@, f)]
      /\ cmd0.op = "abort"
      /\ UNCHANGED <<req, pc, slot, task_state, status, q_lock, tpc, treq, abort_req, rpc, frozen,
                     executed>>
  BY Zenon DEF ExecuteAbort, taskVars, lockVars, timerVars, devVars
<1>q. "admin" \in Queues /\ "io" \in Queues /\ \A q \in Queues : q = "admin" \/ q = "io"
  BY Zenon DEF Queues
<1>b. Posts("admin", cmd0, "answered") /\ Posts("io", target, "abort")
  BY <1>a, <1>q DEF TypeInv, Posts
<1>c. /\ e \in Entries
      /\ cq'["admin"] \in Seq(Entries)
      /\ Posted("admin")' = Posted("admin") \cup {e}
      /\ Alone("admin")'
  BY Zenon, <1>b, <1>q, PostUnique
<1>d. /\ f \in Entries
      /\ cq'["io"] \in Seq(Entries)
      /\ Posted("io")' = Posted("io") \cup {f}
      /\ Alone("io")'
  BY Zenon, <1>b, <1>q, PostUnique
<1>e. /\ e.tag = cmd0.tag /\ e.op = "abort" /\ e.op = cmd0.op /\ e.of = cmd0.of
      /\ f.tag = target.tag /\ f.op = target.op /\ f.of = target.of /\ f.status = "abort"
  BY Zenon, <1>a DEF Entry
<1>f. /\ Owned("admin", e)' /\ <<"admin", e.tag>> \in Slots
      /\ Owned("io", f)' /\ <<"io", f.tag>> \in Slots /\ (f.op = "sync" => f.of \in Tasks)
  BY Zenon, <1>a, <1>e, <1>q, PostOwned
<1> HIDE DEF e, f
<1>1. TypeInv'
  <2>1. sq' \in [Queues -> SUBSET Cmds]
    BY <1>a, Zenon DEF TypeInv
  <2>2. cq' \in [Queues -> Seq(Entries)]
    BY Zenon, <1>a, <1>c, <1>d, <1>q DEF TypeInv
  <2> QED
    BY <2>1, <2>2, <1>a, Zenon DEF TypeInv
<1>2. TaskInv' /\ RequestInv' /\ TimerInv'
  BY Zenon, <1>a, TaskFrame, RequestFrame, TimerFrame
<1>4. MessageInv'
  <2> SUFFICES ASSUME NEW p \in Queues, NEW m \in sq'[p] \cup Posted(p)'
               PROVE  /\ <<p, m.tag>> \in Slots
                      /\ m.op = "sync" => m.of \in Tasks
                      /\ Owned(p, m)'
    BY Zenon DEF MessageInv
  <2>1. CASE m \in sq[p] \cup Posted(p)
    <3>1. <<p, m.tag>> \in Slots /\ (m.op = "sync" => m.of \in Tasks) /\ Owned(p, m)
      BY Zenon, <2>1 DEF MessageInv
    <3> QED
      BY Zenon, <3>1, <1>a, OwnedFrame DEF Aborting
  <2>2. CASE (p = "admin" /\ m = e) \/ (p = "io" /\ m = f)
    BY Zenon, <2>2, <1>e, <1>f
  <2> QED
    BY Zenon, <2>1, <2>2, <1>b, <1>c, <1>d, <1>q DEF Posts
<1>5. UniqueInv'
  BY Zenon, <1>c, <1>d, <1>q DEF UniqueInv
<1>6. ExecutedInv'
  <2> SUFFICES ASSUME NEW p \in Queues, NEW g \in Posted(p)', g.op = "sync", g.status # "abort",
                      pc[g.of] = "schedule", slot[g.of] = <<p, g.tag>>
               PROVE  executed[g.of]
    BY Zenon, <1>a DEF ExecutedInv
  <2>1. g \in Posted(p)
    BY ZenonT(30), <1>c, <1>d, <1>e, <1>q
  <2> QED
    BY Zenon, <2>1 DEF ExecutedInv
<1>7. ResetInv'
  BY <1>a, <1>b DEF ResetInv, Unsubmitted, Aborting, Posts, Queues
<1> QED
  BY Zenon, <1>1, <1>2, <1>4, <1>5, <1>6, <1>7

-----------------------------------------------------------------------------
(* The theorems.                                                           *)

\* Every step preserves the invariant.
LEMMA NextInv ==
  ASSUME IInv, ~SubmitRaces, [Next]_vars
  PROVE  IInv'
<1>1. ASSUME NEW c \in Tasks, Task(c) PROVE IInv'
  BY <1>1, AllocInv, SetStateInv, SubmitInv, ReturnInv DEF Task
<1>2. ASSUME NEW q \in Queues, Irq(q) PROVE IInv'
  BY <1>2, IrqInv
<1>3. ASSUME NEW q \in Queues, Timer(q) PROVE IInv'
  BY <1>3, TimerAbortReqInv, TimerResetInv, TimerStoreInv, TimerSubmitInv DEF Timer
<1>4. ASSUME NEW s \in Slots, TimerFires(s) PROVE IInv'
  BY <1>4, TimerFiresInv
<1>5. CASE Kthread
  BY <1>5, KthreadInv
<1>6. CASE Reset
  BY <1>6, ResetStepInv
<1>7. CASE Controller
  <2>1. ASSUME NEW q \in Queues, NEW cmd0 \in sq[q], Answer(q, cmd0) PROVE IInv'
    BY <2>1, AnswerInv
  <2>2. ASSUME NEW cmd0 \in sq["admin"], NEW target \in sq["io"], ExecuteAbort(cmd0, target)
        PROVE  IInv'
    BY <2>2, ExecuteAbortInv
  <2>3. CASE Fail
    BY <2>3, FrameInv DEF Fail, taskVars, ringVars, lockVars, timerVars
  <2> QED
    BY <1>7, <2>1, <2>2, <2>3 DEF Controller
<1>8. CASE UNCHANGED vars
  BY <1>8, FrameInv DEF vars, taskVars, ringVars, lockVars, timerVars, devVars
<1> QED
  BY <1>1, <1>2, <1>3, <1>4, <1>5, <1>6, <1>7, <1>8 DEF Next

\* The invariant holds in every state that is reached when no reset clears
\* a queue before a caller has submitted to it.
THEOREM InvariantHolds == ~SubmitRaces => (Spec => []IInv)
<1> SUFFICES ASSUME ~SubmitRaces PROVE Spec => []IInv
  OBVIOUS
<1>1. Init => IInv
  BY InitInv
<1>2. IInv /\ [Next]_vars => IInv'
  BY NextInv
<1> QED
  BY <1>1, <1>2, PTL DEF Spec

\* For any number of callers and tags, a request that will call
\* sync_completion has its caller's stack frame, and a caller that sleeps has
\* such a request.
THEOREM FrameHasRequestHolds == ~SubmitRaces => (Spec => []FrameHasRequest)
<1>1. IInv => FrameHasRequest
  <2> SUFFICES ASSUME IInv PROVE FrameHasRequest
    BY Zenon
  <2>1. ASSUME NEW s \in Slots, req[s].fn = "sync_completion"
        PROVE  \E c \in Tasks : req[s].ctx = c /\ slot[c] = s /\ pc[c] # "idle"
    BY Zenon, <2>1 DEF IInv, RequestInv
  <2>2. ASSUME NEW c \in Tasks, pc[c] = "schedule", task_state[c] = "UNINTERRUPTIBLE"
        PROVE  req[slot[c]].busy /\ req[slot[c]].fn = "sync_completion"
               /\ req[slot[c]].ctx = c
    BY <2>2 DEF IInv, TaskInv, Waiting
  <2> QED
    BY <2>1, <2>2 DEF FrameHasRequest
<1> QED
  BY <1>1, InvariantHolds, PTL

\* For any number of callers and tags, no command or entry carries a tag
\* that somebody else may hold.
THEOREM TagNotReusedHolds == ~SubmitRaces => (Spec => []TagNotReused)
<1>1. IInv => TagNotReused
  <2> SUFFICES ASSUME IInv, NEW q \in Queues, NEW m \in sq[q] \cup Posted(q), m.op = "sync"
               PROVE  slot[m.of] = <<q, m.tag>> \/ frozen[q]
    BY Zenon DEF TagNotReused, Posted
  <2> QED
    BY Zenon DEF IInv, MessageInv, Owned
<1> QED
  BY <1>1, InvariantHolds, PTL

\* For any number of callers and tags, what nvme_submit_sync_cmd returns is
\* the status of its own command, or that of its cancellation.
THEOREM StatusIsRealHolds == ~SubmitRaces => (Spec => []StatusIsReal)
<1>1. IInv => StatusIsReal
  BY DEF IInv, StatusIsReal, TaskInv, Waiting
<1> QED
  BY <1>1, InvariantHolds, PTL
=============================================================================
