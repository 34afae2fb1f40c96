--------------------------- MODULE DelQueueProofs ---------------------------
(***************************************************************************)
(* Proofs about DelQueue for any number of queues and of admin tags.       *)
(***************************************************************************)
EXTENDS DelQueue, FiniteSetTheorems, TLAPS

Elems(s) == {s[k] : k \in DOMAIN s}
NoRepeats(s) == \A j, k \in DOMAIN s : s[j] = s[k] => j = k

WorkItems == Queues \cup {Flush}

(* Types, with the list as a sequence; the bound on refcount is not here,  *)
(* it follows from RefcountIsPending.                                      *)
TypeInv ==
    /\ pc \in {"queueing", "waiting", "testing", "sleeping", "clearing",
               "flushing", "flushed", "stopping", "returned"}
    /\ i \in 0 .. NQueues /\ asleep \in BOOLEAN /\ waiter \in BOOLEAN
    /\ works \in Seq(WorkItems)
    /\ running \in Queues \cup {None} /\ putting \in BOOLEAN
    /\ fn \in [Queues -> Functions]
    /\ status \in [Queues -> {"none", "interrupted", "ok", "failed", "aborted"}]
    /\ admin \subseteq Queues /\ enabled \in BOOLEAN
    /\ deleted \subseteq {"sq", "cq"} \X Queues

(* Where a queue's work can be: in one place at most, and nowhere before   *)
(* the caller's loop has come to it.  The flush work is in the list only   *)
(* while the caller waits for it.                                          *)
PlaceInv ==
    /\ NoRepeats(works)
    /\ Elems(works) \cap admin = {}
    /\ running \notin Elems(works) \cup admin
    /\ putting => running # None
    /\ pc = "queueing" =>
         \A q \in 1 .. i : q \notin Elems(works) \cup admin \cup {running}
    /\ Flush \in Elems(works) => pc = "flushed"
    /\ pc = "returned" => running = None

(* A queue's function tells how far its deletion has come.                 *)
StageInv ==
    \A q \in Queues :
      /\ fn[q] = "start" => status[q] = "none" /\ q \notin admin
      /\ fn[q] = "del_sq" /\ status[q] = "ok" => <<"sq", q>> \in deleted
      /\ fn[q] = "del_cq" => <<"sq", q>> \in deleted
      /\ <<"cq", q>> \in deleted => <<"sq", q>> \in deleted

CountInv == refcount = Cardinality(Pending)

IInv == TypeInv /\ PlaceInv /\ StageInv /\ CountInv

(* A caller that has not given up, that is, not disabled the controller,   *)
(* leaves its loop only when nothing is left to wait for.                  *)
PatientInv ==
    /\ ~MayTimeOut => enabled
    /\ pc \in {"clearing", "flushing", "flushed"} => ~enabled
    /\ pc \in {"stopping", "returned"} /\ enabled => works = <<>> /\ Pending = {}

-----------------------------------------------------------------------------
(* Sequences without repetitions.                                          *)

(* Queueing a work adds it to the end of the list.                         *)
LEMMA AppendElems ==
  ASSUME NEW S, NEW s \in Seq(S), NEW x \in S
  PROVE  /\ Append(s, x) \in Seq(S)
         /\ Elems(Append(s, x)) = Elems(s) \cup {x}
         /\ NoRepeats(s) /\ x \notin Elems(s) => NoRepeats(Append(s, x))
<1> DEFINE a == Append(s, x)
<1>1. a \in Seq(S) /\ Len(a) = Len(s) + 1 /\ a[Len(s) + 1] = x
        /\ \A k \in 1 .. Len(s) : a[k] = s[k]
  OBVIOUS
<1>2. DOMAIN a = 1 .. Len(s) + 1 /\ DOMAIN s = 1 .. Len(s) /\ Len(s) \in Nat
  BY <1>1
<1> HIDE DEF a
<1>3. Elems(a) = Elems(s) \cup {x}
  <2>1. Elems(a) \subseteq Elems(s) \cup {x}
    BY <1>1, <1>2 DEF Elems
  <2>2. Elems(s) \cup {x} \subseteq Elems(a)
    <3>1. x \in Elems(a)
      <4>1. Len(s) + 1 \in DOMAIN a
        BY <1>2
      <4> QED BY <4>1, <1>1 DEF Elems
    <3>2. ASSUME NEW k \in DOMAIN s
          PROVE  s[k] \in Elems(a)
      <4>1. k \in DOMAIN a /\ a[k] = s[k]
        BY <1>1, <1>2
      <4> QED BY <4>1 DEF Elems
    <3> QED BY <3>1, <3>2 DEF Elems
  <2> QED BY <2>1, <2>2
<1>4. ASSUME NoRepeats(s), x \notin Elems(s)
      PROVE  NoRepeats(a)
  <2>1. \A k \in 1 .. Len(s) : s[k] # x
    BY <1>2, <1>4 DEF Elems
  <2> QED BY <1>1, <1>2, <1>4, <2>1 DEF NoRepeats
<1> QED BY <1>1, <1>3, <1>4 DEF a

(* Taking the first work off a list without repetitions.                   *)
LEMMA TailElems ==
  ASSUME NEW S, NEW s \in Seq(S), s # <<>>, NoRepeats(s)
  PROVE  /\ Head(s) \in Elems(s) /\ Head(s) \in S
         /\ Tail(s) \in Seq(S)
         /\ Elems(Tail(s)) = Elems(s) \ {Head(s)}
         /\ NoRepeats(Tail(s))
<1> DEFINE a == Tail(s)
<1>1. /\ a \in Seq(S) /\ Len(s) \in Nat /\ Len(s) >= 1 /\ Len(a) = Len(s) - 1
      /\ DOMAIN s = 1 .. Len(s) /\ DOMAIN a = 1 .. Len(s) - 1
      /\ Head(s) = s[1]
  OBVIOUS
<1>2. \A k \in 1 .. Len(s) - 1 : a[k] = s[k + 1]
  BY <1>1
<1> HIDE DEF a
<1>3. Head(s) \in Elems(s)
  <2>1. 1 \in DOMAIN s
    BY <1>1
  <2> QED BY <2>1, <1>1 DEF Elems
<1>4. NoRepeats(a)
  <2> SUFFICES ASSUME NEW j \in DOMAIN a, NEW k \in DOMAIN a, a[j] = a[k]
               PROVE  j = k
    BY DEF NoRepeats
  <2>1. j + 1 \in DOMAIN s /\ k + 1 \in DOMAIN s /\ s[j + 1] = s[k + 1]
    BY <1>1, <1>2
  <2>2. j + 1 = k + 1
    BY <2>1 DEF NoRepeats
  <2> QED BY <2>2, <1>1
<1>5. Elems(a) \subseteq Elems(s) \ {Head(s)}
  <2> SUFFICES ASSUME NEW k \in DOMAIN a
               PROVE  a[k] \in Elems(s) /\ a[k] # Head(s)
    BY DEF Elems
  <2>1. k + 1 \in DOMAIN s /\ k + 1 # 1 /\ 1 \in DOMAIN s /\ a[k] = s[k + 1]
    BY <1>1, <1>2
  <2> QED BY <2>1, <1>1 DEF Elems, NoRepeats
<1>6. Elems(s) \ {Head(s)} \subseteq Elems(a)
  <2> SUFFICES ASSUME NEW k \in DOMAIN s, s[k] # Head(s)
               PROVE  s[k] \in Elems(a)
    BY DEF Elems
  <2>1. k - 1 \in DOMAIN a /\ a[k - 1] = s[k]
    BY <1>1, <1>2
  <2> QED BY <2>1 DEF Elems
<1>7. Head(s) \in S
  OBVIOUS
<1> QED BY <1>1, <1>3, <1>4, <1>5, <1>6, <1>7 DEF a

(* Putting a second list behind the first.                                 *)
LEMMA ConcatElems ==
  ASSUME NEW S, NEW s \in Seq(S), NEW t \in Seq(S),
         NoRepeats(s), NoRepeats(t), Elems(s) \cap Elems(t) = {}
  PROVE  /\ s \o t \in Seq(S)
         /\ Elems(s \o t) = Elems(s) \cup Elems(t)
         /\ NoRepeats(s \o t)
<1> DEFINE a == s \o t
<1>1. /\ a \in Seq(S) /\ Len(s) \in Nat /\ Len(t) \in Nat
      /\ Len(a) = Len(s) + Len(t)
      /\ DOMAIN s = 1 .. Len(s) /\ DOMAIN t = 1 .. Len(t)
      /\ DOMAIN a = 1 .. Len(s) + Len(t)
  OBVIOUS
<1>2. \A k \in 1 .. Len(s) : a[k] = s[k]
  BY <1>1
<1>3. \A k \in 1 .. Len(t) : a[Len(s) + k] = t[k]
  BY <1>1
<1> HIDE DEF a
<1>4. \A k \in DOMAIN a : \/ k \in DOMAIN s /\ a[k] = s[k]
                          \/ k - Len(s) \in DOMAIN t /\ a[k] = t[k - Len(s)]
  <2> SUFFICES ASSUME NEW k \in DOMAIN a, k \notin DOMAIN s
               PROVE  k - Len(s) \in DOMAIN t /\ a[k] = t[k - Len(s)]
    BY <1>2, <1>1
  <2>1. k - Len(s) \in 1 .. Len(t) /\ Len(s) + (k - Len(s)) = k
    BY <1>1
  <2> QED BY <2>1, <1>1, <1>3
<1>5. Elems(a) \subseteq Elems(s) \cup Elems(t)
  BY <1>4 DEF Elems
<1>6. Elems(s) \subseteq Elems(a)
  <2> SUFFICES ASSUME NEW k \in DOMAIN s
               PROVE  s[k] \in Elems(a)
    BY DEF Elems
  <2>1. k \in DOMAIN a /\ a[k] = s[k]
    BY <1>1, <1>2
  <2> QED BY <2>1 DEF Elems
<1>7. Elems(t) \subseteq Elems(a)
  <2> SUFFICES ASSUME NEW k \in DOMAIN t
               PROVE  t[k] \in Elems(a)
    BY DEF Elems
  <2>1. Len(s) + k \in DOMAIN a /\ a[Len(s) + k] = t[k]
    BY <1>1, <1>3
  <2> QED BY <2>1 DEF Elems
<1>8. NoRepeats(a)
  <2> SUFFICES ASSUME NEW j \in DOMAIN a, NEW k \in DOMAIN a, a[j] = a[k]
               PROVE  j = k
    BY DEF NoRepeats
  <2>1. CASE j \in DOMAIN s /\ a[j] = s[j] /\ k \in DOMAIN s /\ a[k] = s[k]
    BY <2>1, Zenon DEF NoRepeats
  <2>2. CASE /\ j - Len(s) \in DOMAIN t /\ a[j] = t[j - Len(s)]
             /\ k - Len(s) \in DOMAIN t /\ a[k] = t[k - Len(s)]
    <3>1. j - Len(s) = k - Len(s)
      BY <2>2, Zenon DEF NoRepeats
    <3> QED BY <3>1, <1>1
  <2>3. CASE /\ j \in DOMAIN s /\ a[j] = s[j]
             /\ k - Len(s) \in DOMAIN t /\ a[k] = t[k - Len(s)]
    BY <2>3, Zenon DEF Elems
  <2>4. CASE /\ j - Len(s) \in DOMAIN t /\ a[j] = t[j - Len(s)]
             /\ k \in DOMAIN s /\ a[k] = s[k]
    BY <2>4, Zenon DEF Elems
  <2> QED BY <1>4, <2>1, <2>2, <2>3, <2>4
<1> QED BY <1>1, <1>5, <1>6, <1>7, <1>8 DEF a

(* An order of a finite set lists every element of it once.                *)
LEMMA OrdersElems ==
  ASSUME NEW S, IsFiniteSet(S), NEW s \in Orders(S)
  PROVE  s \in Seq(S) /\ Elems(s) = S /\ NoRepeats(s)
<1>1. Cardinality(S) \in Nat
  BY FS_CardinalityType
<1>2. s \in [1 .. Cardinality(S) -> S] /\ NoRepeats(s)
  BY DEF Orders, NoRepeats
<1>3. s \in Seq(S)
  BY <1>1, <1>2
<1>4. s \in Injection(1 .. Cardinality(S), S)
  BY <1>2 DEF NoRepeats, Injection, IsInjective
<1>5. Cardinality(1 .. Cardinality(S)) = Cardinality(S)
  BY <1>1, FS_Interval
<1>6. s \in Surjection(1 .. Cardinality(S), S)
  BY <1>4, <1>5, FS_Injection
<1>7. Elems(s) = S
  BY <1>2, <1>6 DEF Surjection, Elems
<1> QED BY <1>2, <1>3, <1>7

-----------------------------------------------------------------------------
(* What the sets of the invariant are.                                     *)

(* Pending is a finite set of queues, at most NQueues of them.             *)
LEMMA PendingFinite ==
  ASSUME TypeInv
  PROVE  /\ Elems(works) \subseteq WorkItems /\ Listed = Elems(works) \ {Flush}
         /\ Pending \subseteq Queues /\ IsFiniteSet(Pending)
         /\ Cardinality(Pending) \in 0 .. NQueues
         /\ IsFiniteSet(admin)
<1>1. Elems(works) \subseteq WorkItems /\ Listed = Elems(works) \ {Flush}
  BY DEF TypeInv, Elems, Listed
<1>2. Pending \subseteq Queues /\ admin \subseteq Queues
  BY <1>1 DEF Pending, TypeInv, WorkItems
<1>3. IsFiniteSet(Queues) /\ Cardinality(Queues) = NQueues
  BY DelQueueAssumption, FS_Interval DEF Queues
<1>4. IsFiniteSet(Pending) /\ IsFiniteSet(admin) /\ Cardinality(Pending) <= NQueues
  BY <1>2, <1>3, FS_Subset
<1>5. Cardinality(Pending) \in Nat
  BY <1>4, FS_CardinalityType
<1> QED BY <1>1, <1>2, <1>4, <1>5, DelQueueAssumption

(* Work items are told apart from None.                                    *)
LEMMA Items == None \notin WorkItems /\ Flush \notin Queues /\ None # Flush
BY DelQueueAssumption DEF WorkItems, Queues, None, Flush

-----------------------------------------------------------------------------
(* The actions.                                                            *)

(* The invariant holds when nvme_disable_io_queues begins.                 *)
LEMMA InitInv == Init => IInv
<1> SUFFICES ASSUME Init PROVE IInv
  OBVIOUS
<1>1. TypeInv
  <2>1. i \in 0 .. NQueues
    BY DelQueueAssumption DEF Init
  <2>2. works \in Seq(WorkItems)
    BY DEF Init
  <2> QED BY <2>1, <2>2, Zenon DEF Init, TypeInv, Functions
<1>2. Elems(works) = {} /\ Listed = {} /\ Pending = {}
  <2>1. works = <<>> /\ DOMAIN works = {}
    BY DEF Init
  <2>2. Elems(works) = {}
    BY <2>1 DEF Elems
  <2>3. Listed = {}
    BY <2>1 DEF Listed
  <2> QED BY <2>2, <2>3 DEF Init, Pending
<1>3. PlaceInv
  <2>1. NoRepeats(works)
    BY DEF Init, NoRepeats
  <2>2. \A q \in 1 .. i : q # running
    BY DelQueueAssumption DEF Init, None
  <2> QED BY <2>1, <2>2, <1>2 DEF Init, PlaceInv
<1>4. StageInv
  BY DEF Init, StageInv
<1>5. CountInv
  BY <1>2, FS_EmptySet DEF Init, CountInv
<1> QED BY <1>1, <1>3, <1>4, <1>5 DEF IInv

(* The loop of the caller: the queue is nowhere yet, so that its work      *)
(* makes one more of them.                                                 *)
LEMMA QueueWorkInv ==
  ASSUME IInv, QueueWork
  PROVE  IInv'
<1> USE DelQueueAssumption DEF IInv
<1>a. /\ pc = "queueing" /\ i \in Queues /\ i' = i - 1
      /\ UNCHANGED <<pc, asleep, waiter, running, putting, fn, status, admin, enabled, deleted>>
      /\ \/ refcount' = refcount + 1 /\ works' = Append(works, i)
         \/ UNCHANGED <<refcount, works>>
  BY DEF QueueWork, QueueWorkWith, TypeInv, Queues, cmd
<1>b. i \in 1 .. i /\ 1 .. i' \subseteq 1 .. i /\ i \notin 1 .. i' /\ i' \in 0 .. NQueues
  BY <1>a DEF Queues
<1>c. i \notin Elems(works) \cup admin \cup {running}
  BY <1>a, <1>b DEF PlaceInv
<1>d. StageInv'
  BY <1>a, Zenon DEF StageInv
<1>1. CASE UNCHANGED <<refcount, works>>
  <2>1. TypeInv'
    BY <1>1, <1>a, <1>b DEF TypeInv
  <2>2. PlaceInv'
    BY <1>1, <1>a, <1>b DEF PlaceInv, Elems, NoRepeats
  <2>3. CountInv'
    BY <1>1, <1>a DEF CountInv, Pending, Listed
  <2> QED BY <2>1, <2>2, <2>3, <1>d
<1>2. CASE refcount' = refcount + 1 /\ works' = Append(works, i)
  <2>1. i \in WorkItems /\ works \in Seq(WorkItems)
    BY <1>a DEF WorkItems, TypeInv
  <2>2. /\ works' \in Seq(WorkItems)
        /\ Elems(works') = Elems(works) \cup {i} /\ NoRepeats(works')
    BY <1>2, <2>1, <1>c, AppendElems DEF PlaceInv
  <2>3. TypeInv'
    BY <2>2, <1>a, <1>b DEF TypeInv
  <2>4. PlaceInv'
    <3>1. Flush # i
      BY <1>a, Items
    <3>2. Elems(works)' = Elems(works) \cup {i} /\ NoRepeats(works)'
      BY <2>2, Zenon DEF Elems, NoRepeats
    <3> QED BY <3>1, <3>2, <1>a, <1>b, <1>c DEF PlaceInv
  <2>5. CountInv'
    <3>1. Listed' = Listed \cup {i}
      BY <2>2, <2>3, <1>a, Items DEF Listed, Elems
    <3>2. Pending' = Pending \cup {i}
      BY <3>1, <1>a DEF Pending
    <3>3. i \notin Pending
      BY <1>c DEF Pending, Listed, Elems
    <3>4. IsFiniteSet(Pending)
      BY PendingFinite
    <3>5. Cardinality(Pending \cup {i}) = Cardinality(Pending) + 1
      BY <3>3, <3>4, FS_AddElement
    <3> QED BY <3>2, <3>5, <1>2 DEF CountInv
  <2> QED BY <2>3, <2>4, <2>5, <1>d
<1> QED BY <1>a, <1>1, <1>2

(* Steps of the caller that only move it on and change its task state.     *)
LEMMA CallerMovesInv ==
  ASSUME IInv,
         PublishWaiter \/ PrepareToWait \/ TestRefcount \/ Woken \/ GiveUp
           \/ FlushEnd \/ StopWorker
  PROVE  IInv'
<1> USE DEF IInv
<1>a. /\ UNCHANGED <<i, refcount, works, running, putting, fn, status, admin, deleted>>
      /\ pc' \in {"waiting", "testing", "sleeping", "clearing", "stopping", "returned"}
      /\ asleep' \in BOOLEAN /\ waiter' \in BOOLEAN /\ enabled' \in BOOLEAN
      /\ pc' = "returned" => running = None
      /\ pc = "flushed" => Flush \notin Elems(works)
  BY Zenon DEF TypeInv, PublishWaiter, PrepareToWait, TestRefcount, Woken, GiveUp, FlushEnd,
         StopWorker, dq, worker, cmd, Elems
<1>1. TypeInv'
  BY <1>a DEF TypeInv
<1>2. PlaceInv'
  BY <1>a DEF PlaceInv, Elems, NoRepeats
<1>3. StageInv'
  BY <1>a, Zenon DEF StageInv
<1>4. CountInv'
  BY <1>a DEF CountInv, Pending, Listed
<1> QED BY <1>1, <1>2, <1>3, <1>4

(* nvme_clear_queue: every outstanding command's work goes to the list.    *)
LEMMA ClearAdminQueueInv ==
  ASSUME IInv, ClearAdminQueue
  PROVE  IInv'
<1> USE DEF IInv
<1>1. PICK s \in Orders(admin) : works' = works \o s
  BY SMTT(20) DEF ClearAdminQueue
<1>a. /\ pc = "clearing" /\ pc' = "flushing" /\ admin' = {}
      /\ status' = [q \in Queues |-> IF q \in admin THEN "aborted" ELSE status[q]]
      /\ UNCHANGED <<i, asleep, refcount, waiter, running, putting, fn, enabled, deleted>>
  BY DEF ClearAdminQueue, dq
<1>2. s \in Seq(admin) /\ Elems(s) = admin /\ NoRepeats(s)
  BY PendingFinite, OrdersElems
<1>3. s \in Seq(WorkItems)
  BY <1>2 DEF TypeInv, WorkItems
<1>4. /\ works' \in Seq(WorkItems) /\ NoRepeats(works')
      /\ Elems(works') = Elems(works) \cup admin
  <2>1. works \in Seq(WorkItems) /\ NoRepeats(works) /\ Elems(works) \cap Elems(s) = {}
    BY <1>2 DEF TypeInv, PlaceInv
  <2> QED BY <2>1, <1>1, <1>2, <1>3, ConcatElems
<1>5. TypeInv'
  BY <1>a, <1>4 DEF TypeInv
<1>6. PlaceInv'
  <2>1. Elems(works)' = Elems(works) \cup admin /\ NoRepeats(works)'
    BY <1>4, Zenon DEF Elems, NoRepeats
  <2>2. Flush \notin admin
    BY Items DEF TypeInv
  <2> QED BY <2>1, <2>2, <1>a DEF PlaceInv
<1>7. StageInv'
  BY <1>a, Zenon DEF StageInv, TypeInv
<1>8. CountInv'
  <2>1. Listed' = Listed \cup admin
    BY SMTT(20), <1>4, Items DEF Listed, Elems, TypeInv
  <2>2. Pending' = Pending
    BY <2>1, <1>a DEF Pending
  <2> QED BY <2>2, <1>a DEF CountInv
<1> QED BY <1>5, <1>6, <1>7, <1>8

(* flush_kthread_worker puts its work behind those of the queues.          *)
LEMMA FlushStartInv ==
  ASSUME IInv, FlushStart
  PROVE  IInv'
<1> USE DEF IInv
<1>a. /\ pc = "flushing" /\ pc' = "flushed" /\ works' = Append(works, Flush)
      /\ UNCHANGED <<i, asleep, refcount, waiter, running, putting, fn, status, admin,
                     enabled, deleted>>
  BY DEF FlushStart, dq, cmd
<1>1. Flush \notin Elems(works) /\ Flush \in WorkItems /\ works \in Seq(WorkItems)
  BY <1>a DEF PlaceInv, TypeInv, WorkItems
<1>2. /\ works' \in Seq(WorkItems) /\ NoRepeats(works')
      /\ Elems(works') = Elems(works) \cup {Flush}
  BY <1>1, <1>a, AppendElems DEF PlaceInv
<1>3. TypeInv'
  BY <1>2, <1>a DEF TypeInv
<1>4. PlaceInv'
  <2>1. Elems(works)' = Elems(works) \cup {Flush} /\ NoRepeats(works)'
    BY <1>2, Zenon DEF Elems, NoRepeats
  <2>2. Flush \notin admin /\ running # Flush
    BY Items DEF TypeInv
  <2> QED BY <2>1, <2>2, <1>a DEF PlaceInv
<1>5. StageInv'
  BY <1>a, Zenon DEF StageInv
<1>6. CountInv'
  <2>1. Listed' = Listed
    BY <1>2, Zenon DEF Listed, Elems
  <2> QED BY <2>1, <1>a DEF CountInv, Pending
<1> QED BY <1>3, <1>4, <1>5, <1>6

(* The worker takes a work off its list.                                   *)
LEMMA RunWorkInv ==
  ASSUME IInv, RunWork
  PROVE  IInv'
<1> USE DEF IInv
<1> DEFINE h == Head(works)
<1>a. /\ pc # "returned" /\ running = None /\ works # <<>>
      /\ running' = IF h = Flush THEN None ELSE h
      /\ works' = Tail(works)
      /\ UNCHANGED <<pc, i, asleep, refcount, waiter, putting, fn, status, admin, enabled,
                     deleted>>
  BY DEF RunWork, caller, dq, cmd
<1>1. /\ h \in Elems(works) /\ h \in WorkItems
      /\ works' \in Seq(WorkItems) /\ NoRepeats(works')
      /\ Elems(works') = Elems(works) \ {h}
  <2>1. works \in Seq(WorkItems) /\ NoRepeats(works)
    BY DEF TypeInv, PlaceInv
  <2> QED BY <2>1, <1>a, TailElems
<1>2. ~putting
  BY <1>a DEF PlaceInv, TypeInv
<1> HIDE DEF h
<1>3. TypeInv'
  <2>1. running' \in Queues \cup {None}
    BY <1>1, <1>a DEF WorkItems
  <2> QED BY <2>1, <1>1, <1>a DEF TypeInv
<1>4. PlaceInv'
  <2>1. Elems(works)' = Elems(works) \ {h} /\ NoRepeats(works)'
    BY <1>1, Zenon DEF Elems, NoRepeats
  <2>2. None \notin Elems(works) \cup admin
    BY <1>a DEF PlaceInv
  <2>3. running' \notin (Elems(works) \ {h}) \cup admin
    BY <2>2, <1>1, <1>a DEF PlaceInv
  <2>4. pc = "queueing" => \A q \in 1 .. i : q # running'
    BY <1>1, <1>a DEF PlaceInv
  <2> QED BY <2>1, <2>3, <2>4, <1>2, <1>a DEF PlaceInv
<1>5. StageInv'
  BY <1>a, Zenon DEF StageInv
<1>6. CountInv'
  <2>1. Listed' = Listed \ {h}
    BY <1>1, Zenon DEF Listed, Elems
  <2>2. h # Flush => h \in Listed /\ h # None
    BY <1>1, Items DEF Listed, Elems
  <2>3. h = Flush => Listed' = Listed
    BY <2>1 DEF Listed
  <2>4. Pending' = Pending
    <3>1. CASE h = Flush
      BY <3>1, <2>3, <1>a DEF Pending
    <3>2. CASE h # Flush
      <4>1. running' = h /\ running' # None /\ ~putting'
        BY <3>2, <2>2, <1>2, <1>a
      <4>2. Pending' = Listed' \cup admin \cup {h}
        BY <4>1, <1>a DEF Pending
      <4>3. Pending = Listed \cup admin
        BY <1>a DEF Pending
      <4> QED BY <4>2, <4>3, <2>1, <2>2, <3>2
    <3> QED BY <3>1, <3>2
  <2> QED BY <2>4, <1>a DEF CountInv
<1> QED BY <1>3, <1>4, <1>5, <1>6

(* The worker has submitted the command of the work it runs: the queue is  *)
(* now held by the command.                                                *)
LEMMA SubmittedInv ==
  ASSUME IInv, running # None, ~putting, NEW next \in {"del_sq", "del_cq"},
         next = "del_cq" => <<"sq", running>> \in deleted,
         fn' = [fn EXCEPT ![running] = next],
         status' = [status EXCEPT ![running] = "interrupted"],
         admin' = admin \cup {running}, running' = None,
         UNCHANGED <<pc, i, asleep, refcount, waiter, works, putting, enabled, deleted>>
  PROVE  IInv'
<1> USE DEF IInv
<1>1. running \in Queues
  BY DEF TypeInv
<1>2. TypeInv'
  BY <1>1 DEF TypeInv, Functions
<1>3. PlaceInv'
  <2>1. Elems(works)' = Elems(works) /\ NoRepeats(works)' = NoRepeats(works)
    BY DEF Elems, NoRepeats
  <2>2. None \notin Elems(works) \cup admin'
    BY <1>1, Items, PendingFinite DEF TypeInv, WorkItems
  <2>3. pc = "queueing" => \A q \in 1 .. i : q # None
    BY DelQueueAssumption DEF TypeInv, None
  <2>4. pc # "returned"
    BY DEF PlaceInv
  <2>5. Elems(works) \cap admin' = {}
    BY DEF PlaceInv
  <2> QED BY <2>1, <2>2, <2>3, <2>4, <2>5 DEF PlaceInv
<1>4. StageInv'
  <2> SUFFICES ASSUME NEW q \in Queues
               PROVE  /\ fn'[q] = "start" => status'[q] = "none" /\ q \notin admin'
                      /\ fn'[q] = "del_sq" /\ status'[q] = "ok" => <<"sq", q>> \in deleted
                      /\ fn'[q] = "del_cq" => <<"sq", q>> \in deleted
                      /\ <<"cq", q>> \in deleted => <<"sq", q>> \in deleted
    BY Zenon DEF StageInv
  <2>1. CASE q = running
    BY <2>1 DEF StageInv, TypeInv
  <2>2. CASE q # running
    BY <2>2 DEF StageInv, TypeInv
  <2> QED BY <2>1, <2>2
<1>5. CountInv'
  <2>1. Listed' = Listed
    BY DEF Listed
  <2>2. Pending' = Pending
    BY <2>1 DEF Pending
  <2> QED BY <2>2 DEF CountInv
<1> QED BY <1>2, <1>3, <1>4, <1>5

(* The worker has dropped the reference of the queue whose work it runs:   *)
(* the first half of nvme_put_dq.                                          *)
LEMMA DroppedInv ==
  ASSUME IInv, running # None, ~putting, putting' = TRUE, refcount' = refcount - 1,
         \/ UNCHANGED fn
         \/ fn' = [fn EXCEPT ![running] = "del_sq"] /\ fn[running] = "start"
         \/ /\ fn' = [fn EXCEPT ![running] = "del_cq"]
            /\ <<"sq", running>> \in deleted,
         UNCHANGED <<pc, i, asleep, waiter, works, running, status, admin, enabled, deleted>>
  PROVE  IInv'
<1> USE DEF IInv
<1>1. running \in Queues
  BY DEF TypeInv
<1>2. TypeInv'
  BY <1>1 DEF TypeInv, Functions
<1>3. PlaceInv'
  BY DEF PlaceInv, Elems, NoRepeats
<1>4. StageInv'
  <2> SUFFICES ASSUME NEW q \in Queues
               PROVE  /\ fn'[q] = "start" => status[q] = "none" /\ q \notin admin
                      /\ fn'[q] = "del_sq" /\ status[q] = "ok" => <<"sq", q>> \in deleted
                      /\ fn'[q] = "del_cq" => <<"sq", q>> \in deleted
                      /\ <<"cq", q>> \in deleted => <<"sq", q>> \in deleted
    BY Zenon DEF StageInv
  <2>1. CASE q = running
    BY <2>1 DEF StageInv, TypeInv
  <2>2. CASE q # running
    BY <2>2 DEF StageInv, TypeInv
  <2> QED BY <2>1, <2>2
<1>5. CountInv'
  <2>1. running \notin Listed \cup admin
    BY DEF PlaceInv, Listed, Elems
  <2>2. Pending = Listed \cup admin \cup {running}
    BY DEF Pending
  <2>3. Listed' = Listed
    BY DEF Listed
  <2>4. Pending' = Listed \cup admin
    BY <2>3 DEF Pending
  <2>5. Pending' = Pending \ {running} /\ running \in Pending
    BY <2>1, <2>2, <2>4
  <2>6. IsFiniteSet(Pending)
    BY PendingFinite
  <2>7. Cardinality(Pending \ {running}) = Cardinality(Pending) - 1
    BY <2>5, <2>6, FS_RemoveElement
  <2> QED BY <2>5, <2>7 DEF CountInv
<1> QED BY <1>2, <1>3, <1>4, <1>5

(* The three functions of a queue's work.                                  *)
LEMMA HandlersInv ==
  ASSUME IInv,
         nvme_del_queue_start \/ nvme_del_sq_work_handler \/ nvme_del_cq_work_handler
  PROVE  IInv'
<1> USE DEF IInv
<1>0. running # None => running \in Queues
  BY DEF TypeInv
<1>1. CASE nvme_del_queue_start
  <2>1. /\ running # None /\ ~putting /\ fn[running] = "start"
        /\ fn' = [fn EXCEPT ![running] = "del_sq"]
        /\ UNCHANGED <<pc, i, asleep, waiter, works, enabled, deleted>>
    BY <1>1 DEF nvme_del_queue_start, Submit, caller
  <2>2. \/ /\ status' = [status EXCEPT ![running] = "interrupted"]
           /\ admin' = admin \cup {running} /\ running' = None
           /\ UNCHANGED <<putting, refcount>>
        \/ /\ putting' = TRUE /\ refcount' = refcount - 1
           /\ UNCHANGED <<status, admin, running>>
    BY <1>1, <2>1 DEF nvme_del_queue_start, Submit
  <2>3. CASE UNCHANGED <<putting, refcount>> /\ running' = None
    BY <2>1, <2>2, <2>3, SubmittedInv
  <2>4. CASE putting' = TRUE /\ refcount' = refcount - 1 /\ UNCHANGED <<status, admin, running>>
    BY <2>1, <2>4, DroppedInv
  <2> QED BY <2>2, <2>3, <2>4, Zenon
<1>2. CASE nvme_del_sq_work_handler
  <2>1. /\ running # None /\ ~putting /\ fn[running] = "del_sq"
        /\ UNCHANGED <<pc, i, asleep, waiter, works, enabled, deleted>>
    BY <1>2 DEF nvme_del_sq_work_handler, DelSqWith, caller
  <2>2. \/ /\ status[running] = "ok" /\ fn' = [fn EXCEPT ![running] = "del_cq"]
           /\ status' = [status EXCEPT ![running] = "interrupted"]
           /\ admin' = admin \cup {running} /\ running' = None
           /\ UNCHANGED <<putting, refcount>>
        \/ /\ status[running] = "ok" /\ fn' = [fn EXCEPT ![running] = "del_cq"]
           /\ putting' = TRUE /\ refcount' = refcount - 1
           /\ UNCHANGED <<status, admin, running>>
        \/ /\ putting' = TRUE /\ refcount' = refcount - 1
           /\ UNCHANGED <<fn, status, admin, running>>
    BY <1>2, <2>1 DEF nvme_del_sq_work_handler, DelSqWith, Submit
  <2>3. status[running] = "ok" => <<"sq", running>> \in deleted
    BY <2>1, <1>0, Zenon DEF StageInv
  <2>4. CASE /\ status[running] = "ok" /\ fn' = [fn EXCEPT ![running] = "del_cq"]
             /\ status' = [status EXCEPT ![running] = "interrupted"]
             /\ admin' = admin \cup {running} /\ running' = None
             /\ UNCHANGED <<putting, refcount>>
    BY <2>1, <2>3, <2>4, SubmittedInv
  <2>5. CASE /\ status[running] = "ok" /\ fn' = [fn EXCEPT ![running] = "del_cq"]
             /\ putting' = TRUE /\ refcount' = refcount - 1
             /\ UNCHANGED <<status, admin, running>>
    BY <2>1, <2>3, <2>5, DroppedInv
  <2>6. CASE /\ putting' = TRUE /\ refcount' = refcount - 1
             /\ UNCHANGED <<fn, status, admin, running>>
    BY <2>1, <2>6, DroppedInv
  <2> QED BY <2>2, <2>4, <2>5, <2>6, Zenon
<1>3. CASE nvme_del_cq_work_handler
  <2>1. /\ running # None /\ ~putting /\ putting' = TRUE /\ refcount' = refcount - 1
        /\ UNCHANGED <<pc, i, asleep, waiter, works, running, fn, status, admin, enabled, deleted>>
    BY <1>3 DEF nvme_del_cq_work_handler, caller, cmd
  <2> QED BY <2>1, DroppedInv
<1> QED BY <1>1, <1>2, <1>3

(* The second half of nvme_put_dq.                                         *)
LEMMA WakeWaiterInv ==
  ASSUME IInv, WakeWaiter
  PROVE  IInv'
<1> USE DEF IInv
<1>a. /\ running # None /\ putting /\ running' = None /\ putting' = FALSE
      /\ asleep' \in BOOLEAN
      /\ UNCHANGED <<pc, i, refcount, waiter, works, fn, status, admin, enabled, deleted>>
  BY Zenon DEF WakeWaiter, TypeInv, dq, cmd
<1>1. TypeInv'
  BY <1>a, Zenon DEF TypeInv
<1>2. PlaceInv'
  <2>1. None \notin Elems(works) \cup admin
    BY Items, PendingFinite DEF TypeInv, WorkItems
  <2>2. pc = "queueing" => \A q \in 1 .. i : q # None
    BY DelQueueAssumption DEF TypeInv, None
  <2> QED BY <2>1, <2>2, <1>a DEF PlaceInv, Elems, NoRepeats
<1>3. StageInv'
  BY <1>a, Zenon DEF StageInv
<1>4. CountInv'
  <2>1. Listed' = Listed
    BY <1>a DEF Listed
  <2>2. Pending' = Pending
    BY <2>1, <1>a DEF Pending
  <2> QED BY <2>2, <1>a DEF CountInv
<1> QED BY <1>1, <1>2, <1>3, <1>4

(* async_completion: the queue goes from the command to the list.          *)
LEMMA CompleteInv ==
  ASSUME IInv, NEW q \in Queues, Complete(q)
  PROVE  IInv'
<1> USE DEF IInv
<1>a. /\ q \in admin /\ admin' = admin \ {q} /\ works' = Append(works, q)
      /\ \/ /\ status' = [status EXCEPT ![q] = "ok"]
            /\ deleted' = deleted \cup {<<IF fn[q] = "del_sq" THEN "sq" ELSE "cq", q>>}
         \/ status' = [status EXCEPT ![q] = "failed"] /\ UNCHANGED deleted
      /\ UNCHANGED <<pc, i, asleep, refcount, waiter, running, putting, fn, enabled>>
  BY DEF Complete, caller, dq
<1>1. q \in WorkItems /\ q \notin Elems(works) /\ works \in Seq(WorkItems) /\ q # Flush
  BY <1>a, Items DEF WorkItems, PlaceInv, TypeInv
<1>2. /\ works' \in Seq(WorkItems) /\ NoRepeats(works')
      /\ Elems(works') = Elems(works) \cup {q}
  BY <1>1, <1>a, AppendElems DEF PlaceInv
<1>3. TypeInv'
  <2>1. /\ status' \in [Queues -> {"none", "interrupted", "ok", "failed", "aborted"}]
        /\ deleted' \subseteq {"sq", "cq"} \X Queues
    BY <1>a DEF TypeInv
  <2> QED BY <2>1, <1>2, <1>a DEF TypeInv
<1>4. PlaceInv'
  <2>1. Elems(works)' = Elems(works) \cup {q} /\ NoRepeats(works)'
    BY <1>2, Zenon DEF Elems, NoRepeats
  <2> QED BY <2>1, <1>1, <1>a DEF PlaceInv
<1>5. StageInv'
  <2> SUFFICES ASSUME NEW r \in Queues
               PROVE  /\ fn[r] = "start" => status'[r] = "none" /\ r \notin admin'
                      /\ fn[r] = "del_sq" /\ status'[r] = "ok" => <<"sq", r>> \in deleted'
                      /\ fn[r] = "del_cq" => <<"sq", r>> \in deleted'
                      /\ <<"cq", r>> \in deleted' => <<"sq", r>> \in deleted'
    BY <1>a, Zenon DEF StageInv
  <2>1. deleted \subseteq deleted' /\ fn[q] # "start" /\ fn[q] \in Functions
    BY <1>a, Zenon DEF StageInv, TypeInv
  <2>2. CASE r # q
    <3>1. status'[r] = status[r] /\ (<<"cq", r>> \in deleted' => <<"cq", r>> \in deleted)
      BY <2>2, <1>a DEF TypeInv
    <3> QED BY <2>1, <3>1, <1>a DEF StageInv
  <2>3. CASE r = q /\ fn[q] = "del_sq"
    <3>1. status'[q] = "ok" => <<"sq", q>> \in deleted'
      BY <2>3, <1>a DEF TypeInv
    <3>2. <<"cq", q>> \in deleted' => <<"cq", q>> \in deleted
      BY <2>3, <1>a
    <3> QED BY <2>1, <2>3, <3>1, <3>2 DEF StageInv
  <2>4. CASE r = q /\ fn[q] = "del_cq"
    BY <2>1, <2>4 DEF StageInv
  <2> QED BY <2>1, <2>2, <2>3, <2>4 DEF Functions
<1>6. CountInv'
  <2>1. Listed' = Listed \cup {q}
    BY <1>1, <1>2, Zenon DEF Listed, Elems
  <2>2. Pending' = Pending
    BY <2>1, <1>a DEF Pending
  <2> QED BY <2>2, <1>a DEF CountInv
<1> QED BY <1>3, <1>4, <1>5, <1>6

(* Every step of the three actors preserves the invariant.                 *)
LEMMA NextInv == IInv /\ [Next]_vars => IInv'
<1> SUFFICES ASSUME IInv, [Next]_vars PROVE IInv'
  OBVIOUS
<1>1. CASE UNCHANGED vars
  <2>1. UNCHANGED <<pc, i, asleep, refcount, waiter, works, running, putting, fn, status,
                    admin, enabled, deleted>>
    BY <1>1 DEF vars, caller, dq, worker, cmd
  <2> QED BY <2>1 DEF IInv, TypeInv, PlaceInv, StageInv, CountInv, Pending, Listed, Elems,
                      NoRepeats
<1>2. CASE CallerStep \/ GiveUp
  BY <1>2, QueueWorkInv, CallerMovesInv, ClearAdminQueueInv, FlushStartInv DEF CallerStep
<1>3. CASE WorkerStep
  BY <1>3, RunWorkInv, HandlersInv, WakeWaiterInv DEF WorkerStep
<1>4. ASSUME NEW q \in Queues, Complete(q) PROVE IInv'
  BY <1>4, CompleteInv
<1> QED BY <1>1, <1>2, <1>3, <1>4 DEF Next

(* The invariant holds in every state of nvme_disable_io_queues.           *)
THEOREM InvariantHolds == Spec => []IInv
BY InitInv, NextInv, PTL DEF Spec

-----------------------------------------------------------------------------
(* The properties.                                                         *)

(* The variables have their types; the reference count never exceeds the   *)
(* number of queues and is never negative.                                 *)
THEOREM TypeOKHolds == Spec => []TypeOK
<1>1. IInv => TypeOK
  <2> SUFFICES ASSUME IInv PROVE TypeOK
    OBVIOUS
  <2>1. refcount \in 0 .. NQueues
    BY PendingFinite DEF IInv, CountInv
  <2>2. \A k \in DOMAIN works : works[k] \in Queues \cup {Flush}
    BY DEF IInv, TypeInv, WorkItems
  <2> QED BY <2>1, <2>2 DEF IInv, TypeInv, TypeOK
<1> QED BY <1>1, InvariantHolds, PTL

(* The reference count of nvme_get_dq and nvme_put_dq is the number of     *)
(* queues that are being deleted, whatever fails or is cancelled.          *)
THEOREM RefcountIsPendingHolds == Spec => []RefcountIsPending
<1>1. IInv => RefcountIsPending
  BY DEF IInv, CountInv, PlaceInv, RefcountIsPending, NoRepeats, Listed, Elems
<1> QED BY <1>1, InvariantHolds, PTL

(* nvme_del_sq_work_handler deletes a completion queue only once the       *)
(* controller has deleted its submission queue.                            *)
THEOREM SqBeforeCqHolds == Spec => []SqBeforeCq
<1>1. IInv => SqBeforeCq
  BY DEF IInv, StageInv, SqBeforeCq
<1> QED BY <1>1, InvariantHolds, PTL

(* A list without elements is empty.                                       *)
LEMMA NoElems ==
  ASSUME NEW S, NEW s \in Seq(S), Elems(s) = {}
  PROVE  s = <<>>
<1>1. \A k \in 1 .. Len(s) : s[k] \in Elems(s)
  BY DEF Elems
<1>2. Len(s) = 0
  <2> SUFFICES ASSUME Len(s) # 0 PROVE FALSE
    OBVIOUS
  <2>1. Len(s) \in Nat /\ 1 \in 1 .. Len(s)
    OBVIOUS
  <2> QED BY <2>1, <1>1
<1> QED BY <1>2

(* A caller that has not given up stops the worker only after the count    *)
(* has come down to zero, and then nothing moves any more.                 *)
LEMMA PatientNext == IInv /\ PatientInv /\ [Next]_vars => PatientInv'
<1> SUFFICES ASSUME IInv, PatientInv, [Next]_vars
             PROVE  PatientInv'
  OBVIOUS
<1>1. CASE UNCHANGED <<works, admin, running, putting, enabled>>
             /\ (UNCHANGED pc \/ StopWorker \/ FlushEnd)
  <2>1. Pending' = Pending
    BY <1>1 DEF Pending, Listed
  <2>2. pc' \in {"stopping", "returned"} /\ enabled => pc \in {"stopping", "returned"}
    BY <1>1 DEF StopWorker, FlushEnd, PatientInv
  <2>3. pc' \in {"clearing", "flushing", "flushed"} => ~enabled'
    BY <1>1 DEF StopWorker, FlushEnd, PatientInv
  <2> QED BY <1>1, <2>1, <2>2, <2>3 DEF PatientInv
<1>2. CASE QueueWork \/ PublishWaiter \/ PrepareToWait \/ Woken
  BY <1>2 DEF QueueWork, QueueWorkWith, PublishWaiter, PrepareToWait, Woken, PatientInv
<1>3. CASE TestRefcount
  <2>1. pc = "testing" /\ UNCHANGED <<works, admin, running, putting, enabled>>
    BY <1>3 DEF TestRefcount, worker, cmd
  <2>2. pc' = "sleeping" \/ (pc' = "stopping" /\ refcount = 0)
    BY <1>3 DEF TestRefcount
  <2>3. ASSUME refcount = 0 PROVE works = <<>> /\ Pending = {}
    <3>1. Pending = {}
      BY <2>3, PendingFinite, FS_EmptySet, Zenon DEF IInv, CountInv
    <3>2. Elems(works) = {}
      BY <3>1, <2>1, PendingFinite DEF IInv, PlaceInv, Pending
    <3>3. works = <<>>
      BY <3>2, NoElems DEF IInv, TypeInv
    <3> QED BY <3>1, <3>3
  <2>4. Pending' = Pending
    BY <2>1 DEF Pending, Listed
  <2> QED BY <2>1, <2>2, <2>3, <2>4 DEF PatientInv
<1>4. CASE GiveUp
  BY <1>4 DEF GiveUp, PatientInv
<1>5. CASE ClearAdminQueue \/ FlushStart
  BY <1>5 DEF ClearAdminQueue, FlushStart, PatientInv
<1>6. ASSUME pc \in {"stopping", "returned"}, enabled
      PROVE  works = <<>> /\ admin = {} /\ (running = None \/ putting)
  BY <1>6 DEF PatientInv, Pending
<1>7. CASE WorkerStep
  <2>1. UNCHANGED <<pc, enabled>>
    <3>1. RunWork \/ nvme_del_queue_start \/ nvme_del_cq_work_handler => UNCHANGED <<pc, enabled>>
      BY DEF RunWork, nvme_del_queue_start, nvme_del_cq_work_handler, caller
    <3>2. nvme_del_sq_work_handler \/ WakeWaiter => UNCHANGED <<pc, enabled>>
      BY Zenon DEF nvme_del_sq_work_handler, DelSqWith, WakeWaiter, caller
    <3> QED BY <1>7, <3>1, <3>2 DEF WorkerStep
  <2>2. CASE ~(pc \in {"stopping", "returned"} /\ enabled)
    BY <2>1, <2>2 DEF PatientInv
  <2>3. CASE pc \in {"stopping", "returned"} /\ enabled
    <3>1. WakeWaiter
      <4>1. ~RunWork
        BY <1>6, <2>3 DEF RunWork
      <4>2. ~nvme_del_queue_start /\ ~nvme_del_cq_work_handler
        BY <1>6, <2>3 DEF nvme_del_queue_start, nvme_del_cq_work_handler
      <4>3. ~nvme_del_sq_work_handler
        BY <1>6, <2>3 DEF nvme_del_sq_work_handler, DelSqWith
      <4> QED BY <1>7, <4>1, <4>2, <4>3 DEF WorkerStep
    <3>2. UNCHANGED <<works, admin>> /\ running' = None /\ running # None /\ putting
      BY <3>1 DEF WakeWaiter, cmd
    <3>3. Pending' = Pending
      BY <3>2 DEF Pending, Listed
    <3> QED BY <2>1, <3>2, <3>3 DEF PatientInv
  <2> QED BY <2>2, <2>3
<1>8. ASSUME NEW q \in Queues, Complete(q) PROVE PatientInv'
  <2>1. UNCHANGED <<pc, enabled>> /\ q \in admin
    BY <1>8 DEF Complete, caller
  <2> QED BY <2>1, <1>6 DEF PatientInv
<1>9. CASE UNCHANGED vars
  BY <1>9, <1>1 DEF vars, caller, worker, cmd
<1>10. CASE StopWorker \/ FlushEnd
  BY <1>10, <1>1 DEF StopWorker, FlushEnd, worker, cmd
<1> QED
  BY <1>2, <1>3, <1>4, <1>5, <1>7, <1>8, <1>9, <1>10 DEF Next, CallerStep

(* What PatientNext needs to become an invariant.                          *)
LEMMA PatientHolds == Spec => []PatientInv
<1>1. Init => PatientInv
  BY DEF Init, PatientInv
<1> QED BY <1>1, PatientNext, InvariantHolds, PTL DEF Spec

(* nvme_wait_dq and kthread_stop: when the wait ends with a count of zero, *)
(* no command, no listed work and no running work refers to the frame that *)
(* nvme_disable_io_queues leaves.                                          *)
THEOREM FlushedUnlessGivenUpHolds == Spec => []FlushedUnlessGivenUp
<1>1. IInv /\ PatientInv => FlushedUnlessGivenUp
  BY DEF IInv, PlaceInv, PatientInv, FlushedUnlessGivenUp, Pending
<1> QED BY <1>1, InvariantHolds, PatientHolds, PTL

(* The comment in nvme_wait_dq is true of a wait that is neither timed out *)
(* nor interrupted: nothing is outstanding when the function returns.      *)
THEOREM AllFlushedUnlessTimeout == ~MayTimeOut => (Spec => []AllFlushed)
<1> SUFFICES ASSUME ~MayTimeOut PROVE Spec => []AllFlushed
  OBVIOUS
<1>1. PatientInv => AllFlushed
  BY DEF PatientInv, AllFlushed, Pending
<1> QED BY <1>1, PatientHolds, PTL
=============================================================================
