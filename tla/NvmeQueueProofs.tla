--------------------------- MODULE NvmeQueueProofs ---------------------------
(***************************************************************************)
(* The rings, doorbells and phase bits of NvmeQueue implement QueuePair,   *)
(* for any depth, any tags fewer than that and any number of resets, when  *)
(* nothing is submitted during a reset and requests do not share numbers   *)
(* with the character device; who owns a tag, and when the doorbells are   *)
(* quiet, follows from the same invariant.                                 *)
(***************************************************************************)
EXTENDS NvmeQueue, TLAPS

-----------------------------------------------------------------------------
(* The inductive invariant.                                                *)

\* Who may hold q_lock at each stage of a reset.
LockInv ==
  /\ stage # "up" => unsent = {} /\ lock # "submit"
  /\ lock = "irq" => stage \in {"up", "frozen", "suspended", "irq"}
  /\ lock = "kthread" => stage \in {"up", "listed", "created", "irq"}
  /\ lock = "queue_rq" => stage \in {"up", "frozen"}
  /\ lock = "teardown" => stage = "deleted" /\ path = "disable"
  /\ resets = 0 => stage = "up"

\* The submission side: the controller knows the driver's tail, and has nothing
\* to do from the deletion of the queues until they are in service again.
Deleted == {"deleted", "drained", "unmapped", "cleared", "listed", "created", "irq"}
SqInv ==
  /\ stage = "up" => sq_tail = q_db.sq
  /\ stage \in Deleted => working = {} /\ ctrl.sq_head = q_db.sq
  /\ stage \in {"created", "irq"} => ctrl = FreshCtrl /\ q_db.sq = 0
  /\ lock = "submit" => sq_cmds[sq_tail] = cur

\* The completion side: the entries the phase bits call new are the ones from
\* the driver's place up to the controller's, and the ring is never full.
CqInv ==
  /\ Unseen \in 0 .. q_depth - 1
  /\ \A k \in 0 .. q_depth - 1 : NewAt(cqes, ReadAt, ReadPhase, k) <=> k < Unseen
  /\ stage \notin {"created", "irq"} =>
        /\ ctrl.cq_tail = Wrap(ReadAt + Unseen)
        /\ ctrl.phase = Lap(ReadAt + Unseen, ReadPhase)

\* A queue that nvme_disable_queue drained stays drained.
QuietInv ==
  path = "disable" /\ stage \in Deleted \ {"deleted"} =>
     /\ Unseen = 0
     /\ lock \in Handlers => head = cq_head /\ phase = cq_phase

Distinct(s) == \A i, j \in DOMAIN s : s[i] = s[j] => i = j

\* Has t a place in s?
Has(s, t) == \E i \in DOMAIN s : s[i] = t

\* A tag is in one place only.
PlaceInv ==
  /\ todo \in Seq(Tags) /\ finished \in Seq(Tags) /\ working \subseteq Tags
  /\ Distinct(todo) /\ Distinct(finished)
  /\ \A t \in Tags : /\ ~(Has(todo, t) /\ t \in working)
                     /\ ~(Has(finished, t) /\ t \in working)
                     /\ ~(Has(todo, t) /\ Has(finished, t))

\* What the command structures say of a tag that is in the queue, or on its way.
InQueue(t) == Has(todo, t) \/ t \in working \/ Has(finished, t)

OwnerInv ==
  /\ \A t \in unsent : info[t] = "started"
  /\ lock = "submit" => /\ cur \in Tags \ unsent /\ info[cur] = "started"
                        /\ ~InQueue(cur)
  /\ \A t \in Tags : InQueue(t) => /\ t \notin unsent
                                   /\ info[t] \in {"started", "cancelled"}
                                   /\ stage = "up" => info[t] = "started"

\* A request that waits and can be found is in the queue, or on its way.
WaitInv ==
  /\ stage = "up" =>
        \A t \in IF resets = 0 THEN Tags ELSE Requests : info[t] = "started" =>
           t \in Deaf \/ InQueue(t) \/ t \in unsent \/ (lock = "submit" /\ t = cur)
  /\ stage \in {"cleared", "listed", "created", "irq"} =>
        \A t \in Requests : info[t] # "started"

QueueInv ==
  /\ LockInv /\ SqInv /\ CqInv /\ QuietInv
  /\ PlaceInv /\ OwnerInv /\ WaitInv

IInv == TypeOK /\ QueueInv

-----------------------------------------------------------------------------
(* Rings.                                                                  *)

\* The rings, as far as they hold tags.
Entries == Tags \cup {None}
Rings == [Slots -> Entries]

\* Counting round a ring.
LEMMA RingFacts ==
  ASSUME NEW i \in Slots, NEW j \in Slots
  PROVE  /\ Next1(i) \in Slots
         /\ \A k \in Slots : Wrap(i + k) \in Slots
         /\ \A k, l \in Slots : Wrap(i + k) = Wrap(i + l) => k = l
         /\ \A k \in Slots : k + 1 \in Slots => Next1(Wrap(i + k)) = Wrap(i + (k + 1))
         /\ \A k \in Slots : k + 1 \in Slots => Wrap(Next1(i) + k) = Wrap(i + (k + 1))
         /\ Wrap(i) = i
         /\ Distance(i, j) \in Slots
         /\ Wrap(i + Distance(i, j)) = j
         /\ Distance(i, j) = 0 <=> i = j
         /\ Distance(i, j) + 1 \in Slots => Distance(i, Next1(j)) = Distance(i, j) + 1
         /\ i # j => Distance(Next1(i), j) = Distance(i, j) - 1
  BY DepthAssumption DEF Slots, Next1, Wrap, Distance

LEMMA WrapFacts ==
  ASSUME NEW i \in Slots, NEW k \in Slots, NEW l \in Slots
  PROVE  Wrap(i + k) \in Slots /\ (Wrap(i + k) = Wrap(i + l) => k = l)
  BY RingFacts

\* What a stretch of a ring is as a sequence.
LEMMA QueuedIs ==
  ASSUME NEW ring \in Rings, NEW i \in Slots, NEW n \in Slots
  PROVE  /\ Queued(ring, i, n) \in Seq(Entries)
         /\ Len(Queued(ring, i, n)) = n
         /\ DOMAIN Queued(ring, i, n) = 1 .. n
         /\ \A k \in 1 .. n : Queued(ring, i, n)[k] = ring[Wrap(i + (k - 1))]
<1>1. \A k \in 1 .. n : ring[Wrap(i + (k - 1))] \in Entries
  <2> TAKE k \in 1 .. n
  <2>1. Wrap(i + (k - 1)) \in Slots
    BY DepthAssumption DEF Slots, Wrap
  <2> QED BY <2>1 DEF Rings
<1>2. n \in Nat
  BY DepthAssumption DEF Slots
<1>3. Queued(ring, i, n) \in [1 .. n -> Entries]
  BY <1>1 DEF Queued
<1>4. \A k \in 1 .. n : Queued(ring, i, n)[k] = ring[Wrap(i + (k - 1))]
  BY DEF Queued
<1> HIDE DEF Queued
<1>5. Queued(ring, i, n) \in Seq(Entries) /\ Len(Queued(ring, i, n)) = n
  BY <1>2, <1>3
<1>6. DOMAIN Queued(ring, i, n) = 1 .. n
  BY <1>3
<1> QED BY <1>4, <1>5, <1>6

\* A stretch does not depend on the slots outside it.
LEMMA QueuedFrame ==
  ASSUME NEW ring, NEW other, NEW i \in Slots, NEW n \in Slots,
         \A k \in Slots : k < n => ring[Wrap(i + k)] = other[Wrap(i + k)]
  PROVE  Queued(ring, i, n) = Queued(other, i, n)
<1>1. \A k \in 1 .. n : ring[Wrap(i + (k - 1))] = other[Wrap(i + (k - 1))]
  <2> TAKE k \in 1 .. n
  <2>1. k - 1 \in Slots /\ k - 1 < n
    BY DepthAssumption DEF Slots
  <2> QED BY <2>1
<1> QED BY <1>1 DEF Queued

\* A stretch that grows by a slot.
LEMMA QueuedAppend ==
  ASSUME NEW ring \in Rings, NEW i \in Slots,
         NEW n \in Slots, n + 1 \in Slots
  PROVE  Queued(ring, i, n + 1) = Append(Queued(ring, i, n), ring[Wrap(i + n)])
<1> DEFINE s == Queued(ring, i, n)
           t == Queued(ring, i, n + 1)
           e == ring[Wrap(i + n)]
<1>1. /\ s \in Seq(Entries) /\ Len(s) = n
      /\ DOMAIN s = 1 .. n
      /\ \A k \in 1 .. n : s[k] = ring[Wrap(i + (k - 1))]
  BY QueuedIs
<1>2. /\ t \in Seq(Entries) /\ Len(t) = n + 1
      /\ DOMAIN t = 1 .. n + 1
      /\ \A k \in 1 .. n + 1 : t[k] = ring[Wrap(i + (k - 1))]
  BY QueuedIs
<1>3. e \in Entries
  BY RingFacts DEF Rings
<1>4. n \in Nat
  BY DepthAssumption DEF Slots
<1>5. t[n + 1] = e
  BY <1>2, <1>4
<1> HIDE DEF s, t, e
<1>6. /\ Append(s, e) \in Seq(Entries) /\ Len(Append(s, e)) = n + 1
      /\ \A k \in 1 .. n : Append(s, e)[k] = s[k]
      /\ Append(s, e)[n + 1] = e
  BY <1>1, <1>3, <1>4
<1>7. ASSUME NEW k \in 1 .. n + 1
      PROVE  t[k] = Append(s, e)[k]
  <2>1. CASE k = n + 1
    BY <2>1, <1>5, <1>6
  <2>2. CASE k # n + 1
    <3>1. k \in 1 .. n
      BY <2>2, <1>4
    <3> QED
      BY <3>1, <1>1, <1>2, <1>6
  <2> QED
    BY Zenon, <2>1, <2>2
<1>8. t = Append(s, e)
  BY <1>2, <1>4, <1>6, <1>7
<1> QED BY <1>8 DEF s, t, e

\* A stretch that loses its first slot.
LEMMA QueuedTail ==
  ASSUME NEW ring \in Rings, NEW i \in Slots,
         NEW n \in Slots, n # 0
  PROVE  /\ Queued(ring, i, n) # <<>>
         /\ Head(Queued(ring, i, n)) = ring[i]
         /\ Tail(Queued(ring, i, n)) = Queued(ring, Next1(i), n - 1)
<1> DEFINE s == Queued(ring, i, n)
           t == Queued(ring, Next1(i), n - 1)
<1>1. n \in Nat /\ n - 1 \in Nat /\ n - 1 \in Slots
  BY DepthAssumption DEF Slots
<1>2. /\ s \in Seq(Entries) /\ Len(s) = n
      /\ DOMAIN s = 1 .. n
      /\ \A k \in 1 .. n : s[k] = ring[Wrap(i + (k - 1))]
  BY QueuedIs
<1>3. /\ t \in Seq(Entries) /\ Len(t) = n - 1
      /\ DOMAIN t = 1 .. n - 1
      /\ \A k \in 1 .. n - 1 : t[k] = ring[Wrap(Next1(i) + (k - 1))]
  <2>1. Next1(i) \in Slots
    BY RingFacts
  <2> QED BY Zenon, <1>1, <2>1, QueuedIs
<1>4. s[1] = ring[i]
  <2>1. s[1] = ring[Wrap(i + (1 - 1))]
    BY <1>1, <1>2
  <2>2. Wrap(i + (1 - 1)) = i
    BY DepthAssumption DEF Slots, Wrap
  <2> QED BY <2>1, <2>2
<1>5. \A k \in 1 .. n - 1 : t[k] = s[k + 1]
  <2> TAKE k \in 1 .. n - 1
  <2>1. Wrap(Next1(i) + (k - 1)) = Wrap(i + ((k + 1) - 1))
    BY DepthAssumption DEF Slots, Wrap, Next1
  <2>2. k + 1 \in 1 .. n
    BY <1>1
  <2> QED BY Zenon, <1>2, <1>3, <2>1, <2>2
<1> HIDE DEF s, t
<1>6. s # <<>>
  BY <1>1, <1>2
<1>7. Head(s) = s[1]
  BY <1>2
<1>8. /\ Tail(s) \in Seq(Entries) /\ Len(Tail(s)) = n - 1
      /\ \A k \in 1 .. n - 1 : Tail(s)[k] = s[k + 1]
  BY <1>1, <1>2, <1>6
<1>9. Tail(s) = t
  BY <1>1, <1>3, <1>5, <1>8
<1> QED BY <1>4, <1>6, <1>7, <1>9 DEF s, t

\* The phase bits count the new entries.
LEMMA CountNewIs ==
  ASSUME NEW ring, NEW i, NEW p, NEW n \in Slots,
         \A k \in Slots : NewAt(ring, i, p, k) <=> k < n
  PROVE  CountNew(ring, i, p) = n
<1> DEFINE Q(m) == /\ \A k \in 0 .. m - 1 : NewAt(ring, i, p, k)
                   /\ m = q_depth \/ ~NewAt(ring, i, p, m)
<1>1. n \in 0 .. q_depth /\ Q(n)
  BY DepthAssumption DEF Slots
<1>2. ASSUME NEW m \in 0 .. q_depth, Q(m) PROVE m = n
  <2>1. CASE m < n
    BY <1>2, <2>1, DepthAssumption DEF Slots
  <2>2. CASE n < m
    BY <1>2, <2>2, DepthAssumption DEF Slots
  <2> QED BY <2>1, <2>2, DepthAssumption DEF Slots
<1>3. CountNew(ring, i, p) = CHOOSE m \in 0 .. q_depth : Q(m)
  BY DEF CountNew
<1> HIDE DEF Q
<1>4. (CHOOSE m \in 0 .. q_depth : Q(m)) \in 0 .. q_depth
      /\ Q(CHOOSE m \in 0 .. q_depth : Q(m))
  BY <1>1
<1> QED BY <1>2, <1>3, <1>4

\* An entry whose phase bit is right counts once it is read no more: the ring
\* seen from the next slot on.
LEMMA ConsumeNew ==
  ASSUME NEW ring, NEW i \in Slots, NEW p \in 0 .. 1, NEW n \in Slots, n # 0,
         \A k \in Slots : ring[k].phase \in 0 .. 1,
         \A k \in Slots : NewAt(ring, i, p, k) <=> k < n,
         NEW j, j = Next1(i), NEW q, q = IF j = 0 THEN 1 - p ELSE p
  PROVE  /\ n - 1 \in Slots
         /\ \A k \in Slots : NewAt(ring, j, q, k) <=> k < n - 1
         /\ Wrap(j + (n - 1)) = Wrap(i + n)
         /\ Lap(j + (n - 1), q) = Lap(i + n, p)
<1>1. \A k \in Slots : k + 1 \in Slots =>
         Wrap(j + k) = Wrap(i + (k + 1)) /\ Lap(j + k, q) = Lap(i + (k + 1), p)
  BY DepthAssumption DEF Slots, Wrap, Lap, Next1
<1>2. n - 1 \in Slots /\ (n - 1) + 1 = n
  BY DepthAssumption DEF Slots
<1>3. ASSUME NEW k \in Slots PROVE NewAt(ring, j, q, k) <=> k < n - 1
  <2>1. CASE k + 1 \in Slots
    <3>1. NewAt(ring, j, q, k) <=> NewAt(ring, i, p, k + 1)
      BY <1>1, <2>1 DEF NewAt
    <3>2. NewAt(ring, i, p, k + 1) <=> k + 1 < n
      BY <2>1
    <3>3. k + 1 < n <=> k < n - 1
      BY DepthAssumption DEF Slots
    <3> QED BY <3>1, <3>2, <3>3
  <2>2. CASE k + 1 \notin Slots
    <3>1. k = q_depth - 1
      BY <2>2, DepthAssumption DEF Slots
    <3>2. Wrap(j + k) = i /\ Lap(j + k, q) = 1 - p
      BY <3>1, DepthAssumption DEF Slots, Wrap, Lap, Next1
    <3>3. 0 \in Slots /\ 0 < n /\ Wrap(i + 0) = i /\ Lap(i + 0, p) = p
      BY DepthAssumption DEF Slots, Wrap, Lap
    <3>4. ring[i].phase = p
      BY <3>3 DEF NewAt
    <3>5. 1 - p # p /\ ~(k < n - 1)
      BY <3>1, DepthAssumption DEF Slots
    <3> QED BY <3>2, <3>4, <3>5 DEF NewAt
  <2> QED BY <2>1, <2>2
<1> QED BY <1>1, <1>2, <1>3

\* The controller writes the first entry that is not new, with the phase bit
\* that makes it new.
LEMMA PostNew ==
  ASSUME NEW ring, NEW i \in Slots, NEW p \in 0 .. 1,
         NEW n \in Slots, n + 1 \in Slots,
         \A k \in Slots : NewAt(ring, i, p, k) <=> k < n,
         NEW new, new[Wrap(i + n)].phase = Lap(i + n, p),
         \A k \in Slots : k # Wrap(i + n) => new[k] = ring[k]
  PROVE  /\ \A k \in Slots : NewAt(new, i, p, k) <=> k < n + 1
         /\ Next1(Wrap(i + n)) = Wrap(i + (n + 1))
         /\ Lap(i + (n + 1), p) = IF Next1(Wrap(i + n)) = 0 THEN 1 - Lap(i + n, p)
                                  ELSE Lap(i + n, p)
<1>1. /\ Next1(Wrap(i + n)) = Wrap(i + (n + 1))
      /\ Lap(i + (n + 1), p) = IF Next1(Wrap(i + n)) = 0 THEN 1 - Lap(i + n, p)
                               ELSE Lap(i + n, p)
  BY DepthAssumption DEF Slots, Wrap, Lap, Next1
<1>2. ASSUME NEW k \in Slots PROVE NewAt(new, i, p, k) <=> k < n + 1
  <2>1. CASE k = n
    BY <2>1, DepthAssumption DEF NewAt, Slots
  <2>2. CASE k # n
    <3>1. Wrap(i + k) \in Slots /\ Wrap(i + k) # Wrap(i + n)
      BY <2>2, RingFacts
    <3>2. NewAt(new, i, p, k) <=> NewAt(ring, i, p, k)
      BY <3>1 DEF NewAt
    <3>3. k < n + 1 <=> k < n
      BY <2>2, DepthAssumption DEF Slots
    <3> QED BY <3>2, <3>3
  <2> QED BY <2>1, <2>2
<1> QED BY <1>1, <1>2

\* A stretch from a slot to itself is empty.
LEMMA EmptyStretch ==
  ASSUME NEW ring, NEW i \in Slots
  PROVE  Queued(ring, i, Distance(i, i)) = <<>>
<1>1. Distance(i, i) = 0
  BY RingFacts
<1> QED BY <1>1 DEF Queued

\* Different tags fill a sequence that is shorter than the ring, with one to
\* spare for a tag that is not among them.  It follows from the size of Tags, at
\* the end of this module.
RoomForOneMore ==
  \A s \in Seq(Tags), t \in Tags :
     Distinct(s) /\ (\A k \in DOMAIN s : s[k] # t) => Len(s) + 1 \in Slots

-----------------------------------------------------------------------------
(* The queue pair's own steps, and where tags are.                         *)

\* A tag at the end of a sequence.
LEMMA AppendHas ==
  ASSUME NEW s \in Seq(Tags), Distinct(s), NEW t \in Tags, ~Has(s, t)
  PROVE  /\ Append(s, t) \in Seq(Tags)
         /\ Distinct(Append(s, t))
         /\ \A u : Has(Append(s, t), u) <=> Has(s, u) \/ u = t
<1> DEFINE r == Append(s, t)
           n == Len(s)
<1>1. n \in Nat /\ DOMAIN s = 1 .. n
  OBVIOUS
<1>2. /\ r \in Seq(Tags) /\ DOMAIN r = 1 .. n + 1
      /\ \A i \in 1 .. n : r[i] = s[i]
      /\ r[n + 1] = t
  BY <1>1
<1> HIDE DEF r, n
<1>3. Distinct(r)
  BY <1>1, <1>2 DEF Distinct, Has
<1>4. \A u : Has(r, u) <=> Has(s, u) \/ u = t
  BY <1>1, <1>2 DEF Has
<1> QED BY <1>2, <1>3, <1>4 DEF r

\* A sequence without its first tag.
LEMMA TailHas ==
  ASSUME NEW s \in Seq(Tags), Distinct(s), s # <<>>
  PROVE  /\ Head(s) \in Tags /\ Has(s, Head(s))
         /\ Tail(s) \in Seq(Tags)
         /\ Distinct(Tail(s))
         /\ \A u : Has(Tail(s), u) <=> Has(s, u) /\ u # Head(s)
<1> DEFINE r == Tail(s)
           n == Len(s)
           h == Head(s)
<1>1. n \in Nat /\ n # 0 /\ DOMAIN s = 1 .. n /\ h = s[1] /\ h \in Tags
  OBVIOUS
<1>2. /\ r \in Seq(Tags) /\ Len(r) = n - 1
      /\ \A i \in 1 .. Len(r) : r[i] = s[i + 1]
  BY <1>1
<1>3. DOMAIN r = 1 .. n - 1
  BY <1>2
<1> HIDE DEF r, n, h
<1>4. Distinct(r)
  <2> SUFFICES ASSUME NEW i \in 1 .. n - 1, NEW j \in 1 .. n - 1, r[i] = r[j]
               PROVE  i = j
    BY <1>3 DEF Distinct
  <2>1. i + 1 \in DOMAIN s /\ j + 1 \in DOMAIN s /\ s[i + 1] = s[j + 1]
    BY <1>1, <1>2
  <2>2. i + 1 = j + 1
    BY <2>1 DEF Distinct
  <2> QED BY <2>2
<1>5. ASSUME NEW u, Has(r, u) PROVE Has(s, u) /\ u # h
  <2>1. PICK i \in 1 .. n - 1 : s[i + 1] = u
    BY <1>2, <1>3, <1>5 DEF Has
  <2>2. i + 1 \in DOMAIN s /\ 1 \in DOMAIN s /\ i + 1 # 1
    BY <1>1
  <2> QED BY <1>1, <2>1, <2>2 DEF Has, Distinct
<1>6. ASSUME NEW u, Has(s, u), u # h PROVE Has(r, u)
  <2>1. PICK i \in 1 .. n : s[i] = u
    BY <1>1, <1>6 DEF Has
  <2>2. i - 1 \in 1 .. n - 1 /\ (i - 1) + 1 = i
    BY <1>1, <1>6, <2>1
  <2>3. r[i - 1] = u
    BY <1>2, <2>1, <2>2
  <2> QED BY <1>3, <2>2, <2>3 DEF Has
<1>7. Has(s, h)
  BY <1>1 DEF Has
<1> QED BY <1>1, <1>2, <1>4, <1>5, <1>6, <1>7 DEF r, h

\* The empty sequence has no tag.
LEMMA EmptyHas ==
  <<>> \in Seq(Tags) /\ Distinct(<<>>) /\ \A u : ~Has(<<>>, u)
BY DEF Distinct, Has

\* The two ways of saying that a tag is in the queue.
LEMMA OutstandingIs ==
  \A t : t \in Pair!Outstanding <=> InQueue(t)
BY DEF Pair!Outstanding, Pair!Elements, InQueue, Has

\* Nothing moves.
LEMMA SamePlaces ==
  ASSUME PlaceInv, UNCHANGED Pair!vars
  PROVE  PlaceInv' /\ \A t : InQueue(t)' <=> InQueue(t)
<1> USE DEF Pair!vars
<1>1. \A t : InQueue(t)' <=> InQueue(t)
  BY DEF InQueue
<1>2. PlaceInv'
  BY DEF PlaceInv
<1> QED BY <1>1, <1>2

\* A command is submitted.
LEMMA SubmitPlaces ==
  ASSUME PlaceInv, NEW t \in Tags, ~InQueue(t),
         todo' = Append(todo, t), UNCHANGED <<working, finished>>
  PROVE  PlaceInv' /\ \A u : InQueue(u)' <=> InQueue(u) \/ u = t
<1>1. /\ todo' \in Seq(Tags) /\ Distinct(todo')
      /\ \A u : Has(todo', u) <=> Has(todo, u) \/ u = t
  BY AppendHas DEF PlaceInv, InQueue
<1>2. \A u : InQueue(u)' <=> InQueue(u) \/ u = t
  BY <1>1 DEF InQueue
<1>3. PlaceInv'
  BY <1>1 DEF PlaceInv, InQueue
<1> QED BY <1>2, <1>3

\* The controller fetches a command.
LEMMA FetchPlaces ==
  ASSUME PlaceInv, todo # <<>>, todo' = Tail(todo),
         working' = working \cup {Head(todo)}, finished' = finished
  PROVE  PlaceInv' /\ \A u : InQueue(u)' <=> InQueue(u)
<1>1. /\ Head(todo) \in Tags /\ Has(todo, Head(todo))
      /\ todo' \in Seq(Tags) /\ Distinct(todo')
      /\ \A u : Has(todo', u) <=> Has(todo, u) /\ u # Head(todo)
  BY TailHas DEF PlaceInv
<1>2. \A u : InQueue(u)' <=> InQueue(u)
  BY <1>1 DEF InQueue
<1>3. PlaceInv'
  BY <1>1 DEF PlaceInv
<1> QED BY <1>2, <1>3

\* The controller posts a completion.
LEMMA FinishPlaces ==
  ASSUME PlaceInv, NEW t \in Tags, t \in working, todo' = todo,
         working' = working \ {t}, finished' = Append(finished, t)
  PROVE  PlaceInv' /\ \A u : InQueue(u)' <=> InQueue(u)
<1>1. /\ finished' \in Seq(Tags) /\ Distinct(finished')
      /\ \A u : Has(finished', u) <=> Has(finished, u) \/ u = t
  BY AppendHas DEF PlaceInv
<1>2. \A u : InQueue(u)' <=> InQueue(u)
  BY <1>1 DEF InQueue
<1>3. PlaceInv'
  BY <1>1 DEF PlaceInv
<1> QED BY <1>2, <1>3

\* The driver takes a completion.
LEMMA DeliverPlaces ==
  ASSUME PlaceInv, finished # <<>>, finished' = Tail(finished),
         UNCHANGED <<todo, working>>
  PROVE  /\ PlaceInv' /\ Head(finished) \in Tags /\ InQueue(Head(finished))
         /\ \A u : InQueue(u)' <=> InQueue(u) /\ u # Head(finished)
<1> DEFINE h == Head(finished)
<1>1. /\ h \in Tags /\ Has(finished, h)
      /\ finished' \in Seq(Tags) /\ Distinct(finished')
      /\ \A u : Has(finished', u) <=> Has(finished, u) /\ u # h
  BY TailHas DEF PlaceInv
<1>2. h \notin working /\ ~Has(todo, h)
  BY <1>1 DEF PlaceInv
<1>3. \A u : InQueue(u)' <=> InQueue(u) /\ u # h
  BY <1>1, <1>2 DEF InQueue
<1>4. PlaceInv'
  BY <1>1 DEF PlaceInv
<1> QED BY <1>1, <1>3, <1>4 DEF InQueue

\* The controller loses what it held.
LEMMA StopPlaces ==
  ASSUME PlaceInv, todo' = <<>>, working' = {}, finished' = finished
  PROVE  PlaceInv' /\ \A u : InQueue(u)' => InQueue(u)
<1>1. \A u : InQueue(u)' => InQueue(u)
  BY EmptyHas DEF InQueue
<1>2. PlaceInv'
  BY EmptyHas DEF PlaceInv
<1> QED BY <1>1, <1>2

\* The driver forgets what it has not seen.
LEMMA DiscardPlaces ==
  ASSUME PlaceInv, finished' = <<>>, UNCHANGED <<todo, working>>
  PROVE  PlaceInv' /\ \A u : InQueue(u)' <=> Has(todo, u) \/ u \in working
<1>1. \A u : InQueue(u)' <=> Has(todo, u) \/ u \in working
  BY EmptyHas DEF InQueue
<1>2. PlaceInv'
  BY EmptyHas DEF PlaceInv
<1> QED BY <1>1, <1>2

-----------------------------------------------------------------------------
(* Types.                                                                  *)

\* The parts of the state that the rings are made of.
LEMMA RingTypes ==
  ASSUME TypeOK
  PROVE  /\ sq_cmds \in Rings /\ CqTags \in Rings
         /\ ReadAt \in Slots /\ ReadPhase \in 0 .. 1
         /\ sq_tail \in Slots /\ q_db.sq \in Slots
         /\ ctrl.sq_head \in Slots /\ ctrl.cq_tail \in Slots
         /\ \A i \in Slots : cqes[i].phase \in 0 .. 1
<1>1. sq_cmds \in Rings
  BY DEF TypeOK, Rings, Entries
<1>2. CqTags \in Rings
  BY DEF TypeOK, Rings, Entries, CqTags
<1> QED BY <1>1, <1>2 DEF TypeOK, ReadAt, ReadPhase

\* Every step keeps the types.
LEMMA TypeStep ==
  ASSUME TypeOK, [Next]_vars
  PROVE  TypeOK'
<1> USE DepthAssumption, TagsAssumption, ResetAssumption DEF TypeOK
<1>0. \A i \in Slots : Next1(i) \in Slots
  BY DEF Slots, Next1
<1>z. 0 \in Slots /\ \A p \in 0 .. 1 : 1 - p \in 0 .. 1
  BY DEF Slots
<1>1. ASSUME NEW t \in Tags, nvme_set_info(t) PROVE TypeOK'
  BY <1>1 DEF nvme_set_info, driver, held, reset
<1>2. ASSUME NEW t \in Tags, SubmitCopy(t) PROVE TypeOK'
  BY <1>2 DEF SubmitCopy, reset
<1>3. ASSUME NEW t \in Tags, CtrlPost(t) PROVE TypeOK'
  <2>1. cqes' \in [Slots -> [tag : Tags \cup {None}, phase : 0 .. 1]]
    BY <1>3 DEF CtrlPost
  <2>2. ctrl' \in [sq_head : Slots, cq_tail : Slots, phase : 0 .. 1]
    BY Zenon, <1>0, <1>z, <1>3 DEF CtrlPost
  <2> QED BY <1>3, <2>1, <2>2 DEF CtrlPost, driver, held, reset
<1>4. CASE SubmitRing
  <2>1. q_db' \in [sq : Slots, cq : Slots] /\ sq_tail' \in Slots
    BY <1>0, <1>4 DEF SubmitRing, RingWith
  <2>2. /\ lock' \in Handlers \cup {None, "submit"} /\ cur' \in Tags \cup {None}
        /\ head' \in Slots /\ phase' \in 0 .. 1
    BY <1>4 DEF SubmitRing, RingWith, Handlers
  <2> QED BY Zenon, <1>4, <2>1, <2>2 DEF SubmitRing, RingWith, reset
<1>5. ASSUME NEW h \in Handlers, ProcessStart(h) PROVE TypeOK'
  BY <1>5 DEF ProcessStart, driver, reset
<1>6. CASE ProcessEntry
  BY <1>0, <1>z, <1>6 DEF ProcessEntry, EntryWith, driver, reset
<1>7. CASE ProcessExit
  BY <1>z, <1>7 DEF ProcessExit, ProcessExitWith, Stages
<1>8. CASE CtrlFetch
  BY <1>0, <1>8 DEF CtrlFetch, driver, held, reset
<1>9. CASE Freeze
  BY <1>9 DEF Freeze, driver, held, Stages
<1>10. CASE nvme_suspend_queue
  BY <1>10 DEF nvme_suspend_queue, driver, held, Stages
<1>11. CASE FreeIrq
  BY <1>11 DEF FreeIrq, driver, held, Stages
<1>12. CASE DeleteQueues
  BY <1>12 DEF DeleteQueues, driver, held, Stages
<1>13. CASE nvme_dev_unmap
  BY <1>13 DEF nvme_dev_unmap, UnmapFrom, driver, held, Stages
<1>14. CASE nvme_clear_queue
  BY <1>14 DEF nvme_clear_queue, ClearWith, driver, held, Stages
<1>15. CASE nvme_dev_start
  BY <1>15 DEF nvme_dev_start, driver, held, Stages
<1>16. CASE nvme_create_queue
  BY SMTT(30), ZenonT(30), <1>z, <1>16 DEF nvme_create_queue, FreshCtrl, driver, held, Stages
<1>17. CASE queue_request_irq
  BY <1>17 DEF queue_request_irq, driver, held, Stages
<1>18. CASE nvme_init_queue
  BY <1>z, <1>18 DEF nvme_init_queue, InitQueueWith, EmptyCqe, held, Stages
<1>19. CASE UNCHANGED vars
  BY <1>19 DEF vars, driver, held, reset
<1> QED
  BY Zenon, <1>1, <1>2, <1>3, <1>4, <1>5, <1>6, <1>7, <1>8, <1>9, <1>10, <1>11, <1>12,
     <1>13, <1>14, <1>15, <1>16, <1>17, <1>18, <1>19 DEF Next

-----------------------------------------------------------------------------
(* Numbers.                                                                *)

\* Who can be found does not change.
LEMMA SameDeaf ==
  ASSUME number' = number
  PROVE  Deaf' = Deaf
BY DEF Deaf, Found

\* The entry of a command finds this command or none.
LEMMA FoundIs ==
  ASSUME TypeOK, Apart, NEW t \in Tags, NEW u \in Found(t)
  PROVE  u = t
<1>1. /\ number \in Numberings /\ u \in Tags /\ number[u] = number[t]
      /\ number[t] < NCmds => u \in CharioTags
      /\ ~(number[t] < NCmds) => u \in Requests
  BY TagsAssumption DEF TypeOK, Found, Requests
<1>2. u \in CharioTags <=> t \in CharioTags
  BY <1>1, NumberAssumption DEF Apart, Requests
<1> QED BY <1>1, <1>2, NumberAssumption

-----------------------------------------------------------------------------
(* The steps of a reset that leave the rings alone.                        *)

\* What the queue pair holds depends on the rings and the driver's place only.
LEMMA StillQueue ==
  ASSUME UNCHANGED <<sq_cmds, ctrl, cqes, ReadAt, ReadPhase, working>>,
         q_db'.sq = q_db.sq
  PROVE  UNCHANGED Pair!vars /\ Unseen' = Unseen
<1>1. Unseen' = Unseen
  BY DEF Unseen
<1>2. CqTags' = CqTags
  BY DEF CqTags
<1>3. finished' = finished
  BY <1>1, <1>2 DEF finished
<1>4. todo' = todo
  BY DEF todo
<1> QED BY <1>1, <1>3, <1>4 DEF Pair!vars

\* From freezing the queue to freeing its interrupt, from unmapping the registers
\* to listing the device again, and installing the interrupt handler.
LEMMA CalmStep ==
  ASSUME IInv, ~Overlap,
         \/ Freeze \/ nvme_suspend_queue \/ FreeIrq \/ nvme_dev_unmap
         \/ nvme_clear_queue \/ nvme_dev_start \/ queue_request_irq
  PROVE  QueueInv' /\ UNCHANGED Pair!vars
<1> USE DEF IInv, QueueInv
<1> DEFINE Same == UNCHANGED <<info, path, resets>>
<1>1. UNCHANGED <<number, ReadAt, ReadPhase, cqes, ctrl, q_db, working, unsent, lock, head,
                  phase, cq_head, cq_phase, sq_cmds, sq_tail, cur>>
  BY Zenon DEF Freeze, nvme_suspend_queue, FreeIrq, nvme_dev_unmap, UnmapFrom,
         nvme_clear_queue, ClearWith, nvme_dev_start, queue_request_irq,
         driver, held, ReadAt, ReadPhase
<1>2. \/ /\ stage = "up" /\ stage' = "frozen" /\ resets' # 0 /\ info' = info
         /\ unsent = {} /\ lock \notin {"submit", "kthread"}
      \/ stage = "frozen" /\ stage' = "suspended" /\ lock = None /\ Same
      \/ stage = "suspended" /\ stage' = "quiet" /\ lock # "irq" /\ Same
      \/ /\ stage = (IF path = "disable" THEN "drained" ELSE "deleted")
         /\ stage' = "unmapped" /\ Same
      \/ /\ stage = "unmapped" /\ stage' = "cleared" /\ UNCHANGED <<path, resets>>
         /\ \A t \in Tags : info'[t] = IF t \in Requests /\ info[t] = "started"
                                      THEN "cancelled" ELSE info[t]
      \/ stage = "cleared" /\ stage' = "listed" /\ Same
      \/ stage = "created" /\ stage' = "irq" /\ Same
  <2>1. CASE Freeze
    <3>1. resets' # 0
      BY <2>1, ResetAssumption DEF Freeze, TypeOK
    <3> QED BY <2>1, <3>1 DEF Freeze
  <2>2. CASE nvme_clear_queue
    BY <2>2 DEF nvme_clear_queue, ClearWith
  <2> QED BY <2>1, <2>2 DEF nvme_suspend_queue, FreeIrq, nvme_dev_unmap, UnmapFrom,
             nvme_dev_start, queue_request_irq
<1>3. UNCHANGED Pair!vars /\ Unseen' = Unseen
  BY <1>1, StillQueue
<1>4. PlaceInv' /\ \A t : InQueue(t)' <=> InQueue(t)
  BY <1>3, SamePlaces
<1>5. LockInv'
  BY Zenon, <1>1, <1>2 DEF LockInv, None
<1>6. SqInv'
  BY <1>1, <1>2 DEF SqInv, Deleted
<1>7. CqInv'
  BY <1>1, <1>2, <1>3 DEF CqInv
<1>8. QuietInv'
  BY Zenon, <1>1, <1>2, <1>3 DEF QuietInv, Deleted, LockInv, Handlers
<1>9. OwnerInv'
  <2>1. \A t \in Tags : /\ info'[t] = info[t] \/ info'[t] = "cancelled"
                        /\ stage = "up" => info'[t] = info[t]
    BY <1>2
  <2>2. stage' # "up" /\ unsent' = {} /\ lock' # "submit"
    BY <1>1, <1>2 DEF LockInv
  <2> QED BY <1>1, <1>4, <2>1, <2>2 DEF OwnerInv
<1>10. WaitInv'
  <2>1. stage' # "up"
    BY <1>2
  <2>2. stage' \in {"cleared", "listed", "created", "irq"}
        => \A t \in Requests : info'[t] # "started"
    BY <1>2 DEF WaitInv, Requests
  <2> QED BY <2>1, <2>2 DEF WaitInv
<1> QED BY Zenon, <1>3, <1>4, <1>5, <1>6, <1>7, <1>8, <1>9, <1>10

-----------------------------------------------------------------------------
(* Submitting a command.                                                   *)

\* A caller takes a tag that is not in the queue.
LEMMA SetInfoStep ==
  ASSUME IInv, ~Overlap, NEW t \in Tags, nvme_set_info(t)
  PROVE  QueueInv' /\ UNCHANGED Pair!vars
<1> USE DEF IInv, QueueInv
<1>1. /\ UNCHANGED <<number, ReadAt, ReadPhase, cqes, ctrl, q_db, working, lock, head, phase,
                     cq_head, cq_phase, sq_cmds, sq_tail, cur, stage, path, resets>>
      /\ stage = "up" /\ t \notin unsent /\ info[t] # "started"
      /\ unsent' = unsent \cup {t}
      /\ \A u \in Tags : info'[u] = IF u = t THEN "started" ELSE info[u]
  BY Zenon DEF nvme_set_info, driver, held, reset, ReadAt, ReadPhase, TypeOK
<1>2. UNCHANGED Pair!vars /\ Unseen' = Unseen
  BY <1>1, StillQueue
<1>3. PlaceInv' /\ \A u : InQueue(u)' <=> InQueue(u)
  BY <1>2, SamePlaces
<1>4. LockInv'
  BY Zenon, <1>1 DEF LockInv
<1>5. SqInv' /\ CqInv' /\ QuietInv'
  BY Zenon, <1>1, <1>2 DEF SqInv, CqInv, QuietInv
<1>6. ~InQueue(t) /\ ~(lock = "submit" /\ cur = t)
  BY Zenon, <1>1 DEF OwnerInv
<1>7. unsent' \subseteq Tags
  BY <1>1 DEF TypeOK
<1>8. OwnerInv'
  BY Zenon, <1>1, <1>3, <1>6, <1>7 DEF OwnerInv
<1>9. WaitInv'
  BY Zenon, <1>1, <1>3, SameDeaf DEF WaitInv, Requests
<1> QED BY <1>2, <1>3, <1>4, <1>5, <1>8, <1>9

\* The command goes into a slot the controller does not look at yet.
LEMMA SubmitCopyStep ==
  ASSUME IInv, ~Overlap, NEW t \in Tags, SubmitCopy(t)
  PROVE  QueueInv' /\ UNCHANGED Pair!vars
<1> USE DEF IInv, QueueInv
<1>1. /\ UNCHANGED <<number, cqes, ctrl, q_db, working, info, head, phase,
                     cq_head, cq_phase, sq_tail, stage, path, resets>>
      /\ t \in unsent /\ lock = None /\ lock' = "submit" /\ cur' = t
      /\ unsent' = unsent \ {t}
      /\ sq_cmds' = [sq_cmds EXCEPT ![sq_tail] = t]
  BY DEF SubmitCopy, reset
<1>2. stage = "up" /\ sq_tail = q_db.sq
  BY <1>1 DEF LockInv, SqInv
<1>3. UNCHANGED <<ReadAt, ReadPhase>>
  BY <1>1 DEF ReadAt, ReadPhase, Handlers, None
<1>4. Unseen' = Unseen /\ finished' = finished
  BY <1>1, <1>3 DEF Unseen, finished, CqTags
<1>5. todo' = todo
  <2> DEFINE h == ctrl.sq_head
             n == Distance(h, q_db.sq)
  <2>1. h \in Slots /\ q_db.sq \in Slots /\ sq_cmds \in Rings
    BY RingTypes
  <2>2. n \in Slots /\ Wrap(h + n) = q_db.sq
    BY Zenon, <2>1, RingFacts
  <2> HIDE DEF h, n
  <2>3. ASSUME NEW k \in Slots, k < n
        PROVE  sq_cmds'[Wrap(h + k)] = sq_cmds[Wrap(h + k)]
    <3>1. k # n
      BY <2>2, <2>3 DEF Slots
    <3>2. Wrap(h + k) \in Slots /\ Wrap(h + k) # Wrap(h + n)
      BY <2>1, <2>2, <3>1, RingFacts
    <3> QED BY <1>1, <1>2, <2>1, <2>2, <3>2 DEF Rings
  <2>4. Queued(sq_cmds', h, n) = Queued(sq_cmds, h, n)
    BY <2>1, <2>2, <2>3, QueuedFrame
  <2> QED BY <1>1, <2>4 DEF todo, h, n
<1>6. UNCHANGED Pair!vars
  BY <1>1, <1>4, <1>5 DEF Pair!vars
<1>7. PlaceInv' /\ \A u : InQueue(u)' <=> InQueue(u)
  BY <1>6, SamePlaces
<1>8. LockInv'
  BY <1>1, <1>2 DEF LockInv
<1>9. SqInv'
  BY <1>1, <1>2 DEF SqInv, TypeOK, Deleted
<1>10. CqInv' /\ QuietInv'
  BY <1>1, <1>2, <1>3, <1>4 DEF CqInv, QuietInv, Deleted
<1>11. OwnerInv'
  BY <1>1, <1>2, <1>7 DEF OwnerInv
<1>12. WaitInv'
  BY Zenon, <1>1, <1>2, <1>7, SameDeaf DEF WaitInv, None
<1> QED BY <1>6, <1>7, <1>8, <1>9, <1>10, <1>11, <1>12

\* The doorbell hands the command to the controller.
LEMMA SubmitRingStep ==
  ASSUME IInv, ~Overlap, RoomForOneMore, SubmitRing
  PROVE  QueueInv' /\ cur \in Tags /\ Pair!Submit(cur)
<1> USE DEF IInv, QueueInv
<1>1. /\ UNCHANGED <<number, cqes, ctrl, working, info, unsent, sq_cmds,
                     cq_head, cq_phase, stage, path, resets>>
      /\ lock = "submit" /\ q_db'.sq = Next1(sq_tail) /\ sq_tail' = Next1(sq_tail)
      /\ \/ lock' = None
         \/ lock' = "queue_rq" /\ head' = cq_head /\ phase' = cq_phase
  BY DEF SubmitRing, RingWith, reset, TypeOK
<1>2. /\ stage = "up" /\ sq_tail = q_db.sq /\ sq_cmds[q_db.sq] = cur
      /\ cur \in Tags /\ cur \notin unsent /\ ~InQueue(cur) /\ info[cur] = "started"
  BY <1>1 DEF LockInv, SqInv, OwnerInv
<1>3. UNCHANGED <<ReadAt, ReadPhase>>
  BY <1>1 DEF ReadAt, ReadPhase, Handlers, None
<1>4. Unseen' = Unseen /\ finished' = finished
  BY Zenon, <1>1, <1>3 DEF Unseen, finished, CqTags
<1>5. todo' = Append(todo, cur)
  <2> DEFINE h == ctrl.sq_head
             n == Distance(h, q_db.sq)
  <2>1. h \in Slots /\ q_db.sq \in Slots /\ sq_cmds \in Rings
    BY RingTypes
  <2>2. n \in Slots /\ Wrap(h + n) = q_db.sq
    BY Zenon, <2>1, RingFacts
  <2>3. Len(todo) = n
    BY <2>1, <2>2, QueuedIs DEF todo
  <2>4. n + 1 \in Slots
    BY Zenon, <1>2, <2>3 DEF RoomForOneMore, PlaceInv, InQueue, Has
  <2>5. Distance(h, Next1(q_db.sq)) = n + 1
    <3> DEFINE j == q_db.sq
    <3>1. h \in Slots /\ j \in Slots /\ Distance(h, j) + 1 \in Slots
      BY <2>1, <2>4
    <3> HIDE DEF h, j
    <3>2. Distance(h, Next1(j)) = Distance(h, j) + 1
      BY <3>1, DepthAssumption DEF Slots, Next1, Distance
    <3> QED
      BY <3>2 DEF j
  <2>6. todo' = Queued(sq_cmds, h, n + 1)
    BY <1>1, <1>2, <2>5 DEF todo
  <2>7. Queued(sq_cmds, h, n + 1) = Append(Queued(sq_cmds, h, n), sq_cmds[Wrap(h + n)])
    BY Zenon, <2>1, <2>2, <2>4, QueuedAppend
  <2> QED BY Zenon, <1>2, <2>2, <2>6, <2>7 DEF todo
<1>6. PlaceInv' /\ \A u : InQueue(u)' <=> InQueue(u) \/ u = cur
  BY Zenon, <1>1, <1>2, <1>4, <1>5, SubmitPlaces
<1>7. Pair!Submit(cur)
  BY Zenon, <1>1, <1>2, <1>4, <1>5, OutstandingIs DEF Pair!Submit
<1>8. LockInv'
  BY Zenon, <1>1, <1>2 DEF LockInv, None
<1>9. SqInv'
  BY Zenon, <1>1, <1>2 DEF SqInv, Deleted, None
<1>10. CqInv' /\ QuietInv'
  BY Zenon, <1>1, <1>2, <1>3, <1>4 DEF CqInv, QuietInv, Deleted
<1>11. OwnerInv'
  BY Zenon, <1>1, <1>2, <1>6 DEF OwnerInv, None
<1>12. WaitInv'
  BY Zenon, <1>1, <1>2, <1>6, SameDeaf DEF WaitInv
<1> QED BY <1>2, <1>6, <1>7, <1>8, <1>9, <1>10, <1>11, <1>12

-----------------------------------------------------------------------------
(* Consuming completions.                                                  *)

\* A handler starts where the last one stopped.
LEMMA ProcessStartStep ==
  ASSUME IInv, ~Overlap, NEW h \in Handlers, ProcessStart(h)
  PROVE  QueueInv' /\ UNCHANGED Pair!vars
<1> USE DEF IInv, QueueInv
<1>1. /\ UNCHANGED <<number, cqes, ctrl, q_db, working, info, unsent, cur, cq_head, cq_phase,
                     sq_cmds, sq_tail, stage, path, resets>>
      /\ lock = None /\ lock' = h /\ head' = cq_head /\ phase' = cq_phase
      /\ MayProcess(h)
  BY DEF ProcessStart, driver, reset
<1>2. UNCHANGED <<ReadAt, ReadPhase>>
  BY <1>1 DEF ReadAt, ReadPhase, Handlers, None
<1>3. UNCHANGED Pair!vars /\ Unseen' = Unseen
  BY <1>1, <1>2, StillQueue
<1>4. PlaceInv' /\ \A u : InQueue(u)' <=> InQueue(u)
  BY <1>3, SamePlaces
<1>5. LockInv'
  BY <1>1 DEF LockInv, MayProcess, Handlers
<1>6. SqInv'
  BY <1>1 DEF SqInv, Handlers
<1>7. CqInv' /\ QuietInv'
  BY <1>1, <1>2, <1>3 DEF CqInv, QuietInv
<1>8. OwnerInv'
  BY <1>1, <1>4 DEF OwnerInv, Handlers
<1>9. WaitInv'
  BY Zenon, <1>1, <1>4, SameDeaf DEF WaitInv, None
<1> QED BY <1>3, <1>4, <1>5, <1>6, <1>7, <1>8, <1>9

\* The entry the driver looks at is new when something is unseen, and only then.
LEMMA AtHead ==
  ASSUME IInv, lock \in Handlers
  PROVE  cqes[head].phase = phase <=> Unseen # 0
<1> USE DEF IInv, QueueInv
<1>1. ReadAt = head /\ ReadPhase = phase
  BY DEF ReadAt, ReadPhase
<1>2. 0 \in 0 .. q_depth - 1 /\ Unseen \in 0 .. q_depth - 1 /\ head \in Slots
  BY DepthAssumption DEF CqInv, TypeOK
<1>3. NewAt(cqes, head, phase, 0) <=> 0 < Unseen
  BY <1>1, <1>2 DEF CqInv
<1>4. Wrap(head + 0) = head /\ Lap(head + 0, phase) = phase
  BY <1>2, DepthAssumption DEF Slots, Wrap, Lap
<1>5. cqes[head].phase = phase <=> 0 < Unseen
  BY <1>3, <1>4 DEF NewAt
<1> QED BY <1>2, <1>5

\* A handler stops where nothing is new.
LEMMA ProcessExitStep ==
  ASSUME IInv, ~Overlap, ProcessExit
  PROVE  QueueInv' /\ UNCHANGED Pair!vars
<1> USE DEF IInv, QueueInv
<1>1. /\ UNCHANGED <<number, cqes, ctrl, working, info, unsent, cur, sq_cmds, sq_tail, path,
                     resets>>
      /\ lock \in Handlers /\ lock' = None /\ cq_head' = head /\ cq_phase' = phase
      /\ q_db'.sq = q_db.sq /\ cqes[head].phase # phase
      /\ stage' = IF lock = "teardown" THEN "drained" ELSE stage
  BY DEF ProcessExit, ProcessExitWith, TypeOK
<1>2. UNCHANGED <<ReadAt, ReadPhase>>
  BY <1>1 DEF ReadAt, ReadPhase, Handlers, None
<1>3. UNCHANGED Pair!vars /\ Unseen' = Unseen
  BY <1>1, <1>2, StillQueue
<1>4. PlaceInv' /\ \A u : InQueue(u)' <=> InQueue(u)
  BY <1>3, SamePlaces
<1>5. LockInv'
  BY <1>1 DEF LockInv, Handlers, None
<1>6. SqInv'
  BY Zenon, <1>1 DEF SqInv, LockInv, Deleted, None
<1>7. CqInv'
  BY Zenon, <1>1, <1>2, <1>3 DEF CqInv, LockInv
<1>8. QuietInv'
  <2>1. Unseen' = 0
    BY Zenon, <1>1, <1>3, AtHead
  <2> QED BY Zenon, <1>1, <2>1 DEF QuietInv, Handlers, None
<1>9. OwnerInv'
  BY Zenon, <1>1, <1>4 DEF OwnerInv, LockInv, None
<1>10. WaitInv'
  BY Zenon, <1>1, <1>4, SameDeaf DEF WaitInv, LockInv, Handlers
<1> QED BY <1>3, <1>4, <1>5, <1>6, <1>7, <1>8, <1>9, <1>10

\* A handler takes the oldest completion it has not seen.
LEMMA ProcessEntryStep ==
  ASSUME IInv, ~Overlap, Apart, ProcessEntry
  PROVE  QueueInv' /\ Pair!Deliver
<1> USE DEF IInv, QueueInv
<1> DEFINE n == Unseen
           t == cqes[head].tag
<1>1. /\ UNCHANGED <<number, cqes, ctrl, q_db, working, unsent, lock, cur, cq_head, cq_phase,
                     sq_cmds, sq_tail, stage, path, resets>>
      /\ lock \in Handlers /\ cqes[head].phase = phase /\ head' = Next1(head)
      /\ phase' = IF head' = 0 THEN 1 - phase ELSE phase
      /\ t \in Tags => \A u \in Tags : info'[u] = IF u \in Found(t) THEN "completed"
                                                  ELSE info[u]
  BY Zenon DEF ProcessEntry, EntryWith, driver, reset, TypeOK
<1>2. /\ ReadAt = head /\ ReadPhase = phase
      /\ ReadAt' = Next1(head) /\ ReadPhase' = phase'
  BY Zenon, <1>1 DEF ReadAt, ReadPhase
<1>3. n \in Slots /\ n # 0
  BY Zenon, <1>1, AtHead DEF CqInv, Slots
<1>4. head \in Slots /\ phase \in 0 .. 1 /\ \A k \in Slots : cqes[k].phase \in 0 .. 1
  BY RingTypes DEF TypeOK
<1>5. \A k \in Slots : NewAt(cqes, head, phase, k) <=> k < n
  BY Zenon, <1>2 DEF CqInv, Slots
<1> HIDE DEF n
<1>6. /\ n - 1 \in Slots
      /\ \A k \in Slots : NewAt(cqes, head', phase', k) <=> k < n - 1
      /\ Wrap(head' + (n - 1)) = Wrap(head + n)
      /\ Lap(head' + (n - 1), phase') = Lap(head + n, phase)
  <2>1. head' = Next1(head) /\ phase' = IF head' = 0 THEN 1 - phase ELSE phase
    BY Zenon, <1>1
  <2> QED BY <1>3, <1>4, <1>5, <2>1, ConsumeNew, SMTT(40)
<1>7. Unseen' = n - 1
  <2>1. CountNew(cqes, head', phase') = n - 1
    BY Zenon, <1>6, CountNewIs
  <2> QED BY <1>1, <1>2, <2>1 DEF Unseen
<1>8. CqInv'
  BY Zenon, <1>1, <1>2, <1>6, <1>7 DEF CqInv, Slots, n
<1>9. /\ finished # <<>> /\ Head(finished) = CqTags[head]
      /\ Tail(finished) = Queued(CqTags, Next1(head), n - 1)
  BY SMTT(20), <1>2, <1>3, <1>4, RingTypes, QueuedTail DEF finished, n
<1>10. finished' = Tail(finished) /\ Head(finished) = t
  <2>1. CqTags' = CqTags /\ CqTags[head] = t
    BY Zenon, <1>1, <1>4 DEF CqTags
  <2> QED BY Zenon, <1>1, <1>2, <1>7, <1>9, <2>1 DEF finished
<1>11. UNCHANGED <<todo, working>>
  BY Zenon, <1>1 DEF todo
<1>12. /\ PlaceInv' /\ t \in Tags /\ InQueue(t)
       /\ \A u : InQueue(u)' <=> InQueue(u) /\ u # t
  BY Zenon, <1>9, <1>10, <1>11, DeliverPlaces
<1>13. LockInv' /\ SqInv'
  BY Zenon, <1>1 DEF LockInv, SqInv
<1>14. QuietInv'
  BY Zenon, <1>1, <1>3 DEF QuietInv, n
<1>15. OwnerInv'
  <2>1. lock # "submit" /\ t \notin unsent /\ unsent \subseteq Tags
    BY Zenon, <1>1, <1>12 DEF OwnerInv, Handlers, TypeOK
  <2>2. \A u \in Tags : u # t => info'[u] = info[u]
    BY Zenon, <1>1, <1>12, FoundIs
  <2> QED BY Zenon, <1>1, <1>12, <2>1, <2>2 DEF OwnerInv
<1>16. WaitInv'
  <2>1. Deaf' = Deaf /\ (t \notin Deaf => info'[t] = "completed")
    BY Zenon, <1>1, <1>12, SameDeaf DEF Deaf
  <2>2. \A u \in Tags : info'[u] = "started" => info[u] = "started"
    BY Zenon, <1>1, <1>12
  <2>3. ASSUME NEW u \in Tags, info'[u] = "started", u \notin Deaf
        PROVE  u # t
    BY Zenon, <1>12, <2>1, <2>3
  <2> QED BY Zenon, <1>1, <1>12, <2>1, <2>2, <2>3 DEF WaitInv, Requests
<1>17. Pair!Deliver
  BY <1>9, <1>10, <1>11 DEF Pair!Deliver
<1> QED BY Zenon, <1>8, <1>12, <1>13, <1>14, <1>15, <1>16, <1>17

-----------------------------------------------------------------------------
(* The controller.                                                         *)

\* The controller fetches the oldest command.
LEMMA CtrlFetchStep ==
  ASSUME IInv, ~Overlap, CtrlFetch
  PROVE  QueueInv' /\ Pair!Fetch
<1> USE DEF IInv, QueueInv
<1> DEFINE h == ctrl.sq_head
           n == Distance(h, q_db.sq)
<1>1. /\ UNCHANGED <<number, cqes, q_db, info, unsent, lock, cur, head, phase, cq_head,
                     cq_phase, sq_cmds, sq_tail, stage, path, resets>>
      /\ h # q_db.sq /\ working' = working \cup {sq_cmds[h]}
      /\ ctrl'.sq_head = Next1(h) /\ ctrl'.cq_tail = ctrl.cq_tail
      /\ ctrl'.phase = ctrl.phase
  BY Zenon DEF CtrlFetch, driver, held, reset, TypeOK
<1>2. stage \notin Deleted
  BY Zenon, <1>1 DEF SqInv
<1>3. UNCHANGED <<ReadAt, ReadPhase>>
  BY <1>1 DEF ReadAt, ReadPhase
<1>4. Unseen' = Unseen /\ finished' = finished
  BY Zenon, <1>1, <1>3 DEF Unseen, finished, CqTags
<1>5. todo # <<>> /\ Head(todo) = sq_cmds[h] /\ todo' = Tail(todo)
  <2>1. h \in Slots /\ q_db.sq \in Slots /\ sq_cmds \in Rings
    BY Zenon, RingTypes
  <2>2. n \in Slots /\ n # 0 /\ Distance(Next1(h), q_db.sq) = n - 1
    BY SMTT(30), ZenonT(30), <1>1, <2>1, RingFacts
  <2>3. /\ Queued(sq_cmds, h, n) # <<>>
        /\ Head(Queued(sq_cmds, h, n)) = sq_cmds[h]
        /\ Tail(Queued(sq_cmds, h, n)) = Queued(sq_cmds, Next1(h), n - 1)
    BY <2>1, <2>2, QueuedTail
  <2> QED BY <1>1, <2>2, <2>3 DEF todo
<1>6. PlaceInv' /\ \A u : InQueue(u)' <=> InQueue(u)
  BY Zenon, <1>1, <1>4, <1>5, FetchPlaces
<1>7. Pair!Fetch
  BY <1>1, <1>4, <1>5 DEF Pair!Fetch
<1>8. LockInv'
  BY Zenon, <1>1 DEF LockInv
<1>9. SqInv'
  BY Zenon, <1>1, <1>2 DEF SqInv, Deleted
<1>10. CqInv'
  BY Zenon, <1>1, <1>3, <1>4 DEF CqInv
<1>11. QuietInv'
  BY Zenon, <1>1, <1>2 DEF QuietInv
<1>12. OwnerInv'
  BY Zenon, <1>1, <1>6 DEF OwnerInv
<1>13. WaitInv'
  BY Zenon, <1>1, <1>6, SameDeaf DEF WaitInv
<1> QED BY <1>6, <1>7, <1>8, <1>9, <1>10, <1>11, <1>12, <1>13

\* The controller posts a completion into a slot the driver has read.
LEMMA CtrlPostStep ==
  ASSUME IInv, ~Overlap, RoomForOneMore, NEW t \in Tags, CtrlPost(t)
  PROVE  QueueInv' /\ Pair!Finish(t)
<1> USE DEF IInv, QueueInv
<1> DEFINE n == Unseen
           r == ReadAt
           p == ReadPhase
           c == ctrl.cq_tail
<1>1. /\ UNCHANGED <<number, q_db, info, unsent, lock, cur, head, phase, cq_head,
                     cq_phase, sq_cmds, sq_tail, stage, path, resets>>
      /\ t \in working /\ working' = working \ {t}
      /\ cqes' = [cqes EXCEPT ![c] = [tag |-> t, phase |-> ctrl.phase]]
      /\ ctrl'.sq_head = ctrl.sq_head /\ ctrl'.cq_tail = Next1(c)
      /\ ctrl'.phase = IF Next1(c) = 0 THEN 1 - ctrl.phase ELSE ctrl.phase
  BY Zenon DEF CtrlPost, driver, held, reset, TypeOK
<1>2. stage \notin Deleted
  BY <1>1 DEF SqInv
<1>3. r \in Slots /\ p \in 0 .. 1 /\ c \in Slots /\ CqTags \in Rings
  BY RingTypes
<1>4. /\ n \in Slots /\ c = Wrap(r + n) /\ ctrl.phase = Lap(r + n, p)
      /\ \A k \in Slots : NewAt(cqes, r, p, k) <=> k < n
  BY Zenon, <1>2 DEF CqInv, Slots, Deleted
<1>5. UNCHANGED <<ReadAt, ReadPhase>>
  BY <1>1 DEF ReadAt, ReadPhase
<1>6. n + 1 \in Slots
  <2>1. Len(finished) = n
    BY Zenon, <1>3, <1>4, QueuedIs DEF finished
  <2> QED BY Zenon, <1>1, <2>1 DEF RoomForOneMore, PlaceInv, Has
<1>7. /\ \A k \in Slots : k # c => cqes'[k] = cqes[k]
      /\ cqes'[c].phase = ctrl.phase /\ cqes'[c].tag = t
  BY Zenon, <1>1, <1>3 DEF TypeOK
<1> HIDE DEF n, r, p, c
<1>8. /\ \A k \in Slots : NewAt(cqes', r, p, k) <=> k < n + 1
      /\ Next1(c) = Wrap(r + (n + 1))
      /\ Lap(r + (n + 1), p) = IF Next1(c) = 0 THEN 1 - ctrl.phase ELSE ctrl.phase
  <2>1. /\ cqes'[Wrap(r + n)].phase = Lap(r + n, p)
        /\ \A k \in Slots : k # Wrap(r + n) => cqes'[k] = cqes[k]
    BY <1>4, <1>7
  <2>2. n \in Slots /\ \A k \in Slots : NewAt(cqes, r, p, k) <=> k < n
    BY Zenon, <1>4
  <2>3. /\ \A k \in Slots : NewAt(cqes', r, p, k) <=> k < n + 1
        /\ Next1(Wrap(r + n)) = Wrap(r + (n + 1))
        /\ Lap(r + (n + 1), p) = IF Next1(Wrap(r + n)) = 0 THEN 1 - Lap(r + n, p)
                                 ELSE Lap(r + n, p)
    BY <1>3, <1>6, <2>1, <2>2, PostNew, SMTT(40)
  <2> QED BY Zenon, <1>4, <2>3
<1>9. Unseen' = n + 1
  <2>1. CountNew(cqes', r, p) = n + 1
    BY <1>6, <1>8, CountNewIs
  <2> QED BY <1>5, <2>1 DEF Unseen, r, p
<1>10. CqInv'
  BY Zenon, <1>1, <1>5, <1>6, <1>8, <1>9 DEF CqInv, Slots, r, p
<1>11. finished' = Append(finished, t)
  <2>1. CqTags' \in Rings /\ CqTags'[c] = t
    BY <1>1, <1>3, <1>7 DEF CqTags, Rings, Entries, TypeOK
  <2>2. \A k \in Slots : k < n => CqTags'[Wrap(r + k)] = CqTags[Wrap(r + k)]
    <3> TAKE k \in Slots
    <3> HAVE k < n
    <3>0. r \in Slots /\ n \in Slots
      BY <1>3, <1>4
    <3>1. k # n
      BY <3>0 DEF Slots
    <3>2. Wrap(r + k) \in Slots /\ (Wrap(r + k) = Wrap(r + n) => k = n)
      BY Zenon, <3>0, WrapFacts
    <3> QED BY Zenon, <1>4, <1>7, <3>1, <3>2 DEF CqTags
  <2>3. Queued(CqTags', r, n) = Queued(CqTags, r, n)
    BY Zenon, <1>3, <1>4, <2>2, QueuedFrame
  <2>4. Queued(CqTags', r, n + 1) = Append(Queued(CqTags', r, n), CqTags'[c])
    BY <1>3, <1>4, <1>6, <2>1, QueuedAppend
  <2> QED BY Zenon, <1>5, <1>9, <2>1, <2>3, <2>4 DEF finished, r, n
<1>12. todo' = todo
  BY Zenon, <1>1 DEF todo
<1>13. PlaceInv' /\ \A u : InQueue(u)' <=> InQueue(u)
  BY Zenon, <1>1, <1>11, <1>12, FinishPlaces
<1>14. Pair!Finish(t)
  BY Zenon, <1>1, <1>11, <1>12 DEF Pair!Finish
<1>15. LockInv'
  BY Zenon, <1>1 DEF LockInv
<1>16. SqInv'
  BY <1>1, <1>2 DEF SqInv, Deleted
<1>17. QuietInv'
  BY Zenon, <1>1, <1>2 DEF QuietInv
<1>18. OwnerInv'
  BY Zenon, <1>1, <1>13 DEF OwnerInv
<1>19. WaitInv'
  BY Zenon, <1>1, <1>13, SameDeaf DEF WaitInv
<1> QED BY <1>10, <1>13, <1>14, <1>15, <1>16, <1>17, <1>18, <1>19

-----------------------------------------------------------------------------
(* The queues go, and come back.                                           *)

\* The controller deletes its queues.
LEMMA DeleteQueuesStep ==
  ASSUME IInv, ~Overlap, DeleteQueues
  PROVE  QueueInv' /\ Pair!Stop
<1> USE DEF IInv, QueueInv
<1>1. /\ UNCHANGED <<number, cqes, q_db, info, unsent, lock, cur, head, phase, cq_head,
                     cq_phase, sq_cmds, sq_tail, path, resets>>
      /\ stage = "quiet" /\ stage' = "deleted" /\ working' = {}
      /\ ctrl'.sq_head = q_db.sq /\ ctrl'.cq_tail = ctrl.cq_tail
      /\ ctrl'.phase = ctrl.phase
  BY Zenon DEF DeleteQueues, driver, held, TypeOK
<1>2. UNCHANGED <<ReadAt, ReadPhase>>
  BY Zenon, <1>1 DEF ReadAt, ReadPhase
<1>3. Unseen' = Unseen /\ finished' = finished
  BY Zenon, <1>1, <1>2 DEF Unseen, finished, CqTags
<1>4. todo' = <<>>
  BY Zenon, <1>1, RingTypes, EmptyStretch DEF todo
<1>5. PlaceInv' /\ \A u : InQueue(u)' => InQueue(u)
  BY Zenon, <1>1, <1>3, <1>4, StopPlaces
<1>6. Pair!Stop
  BY Zenon, <1>1, <1>3, <1>4 DEF Pair!Stop
<1>7. LockInv'
  BY Zenon, <1>1 DEF LockInv
<1>8. SqInv'
  BY Zenon, <1>1 DEF SqInv, LockInv
<1>9. CqInv'
  BY Zenon, <1>1, <1>2, <1>3 DEF CqInv
<1>10. QuietInv' /\ WaitInv'
  BY Zenon, <1>1 DEF QuietInv, WaitInv
<1>11. OwnerInv'
  BY Zenon, <1>1, <1>5 DEF OwnerInv, LockInv
<1> QED BY <1>5, <1>6, <1>7, <1>8, <1>9, <1>10, <1>11

\* The controller creates them again: what the driver has not seen of the old
\* completion ring is still there.
LEMMA CreateStep ==
  ASSUME IInv, ~Overlap, nvme_create_queue
  PROVE  QueueInv' /\ UNCHANGED Pair!vars
<1> USE DEF IInv, QueueInv
<1>1. /\ UNCHANGED <<number, cqes, info, unsent, lock, cur, head, phase, cq_head, cq_phase,
                     sq_cmds, sq_tail, working, path, resets>>
      /\ stage = "listed" /\ stage' = "created"
      /\ ctrl' = FreshCtrl /\ q_db'.sq = 0 /\ ctrl'.sq_head = 0
  BY DEF nvme_create_queue, driver, held, FreshCtrl
<1>2. UNCHANGED <<ReadAt, ReadPhase>>
  BY Zenon, <1>1 DEF ReadAt, ReadPhase
<1>3. Unseen' = Unseen /\ finished' = finished
  BY <1>1, <1>2 DEF Unseen, finished, CqTags
<1>4. todo' = todo
  <2>1. todo = <<>>
    BY Zenon, <1>1, RingTypes, EmptyStretch DEF todo, SqInv, Deleted
  <2>2. 0 \in Slots
    BY DepthAssumption DEF Slots
  <2>3. todo' = <<>>
    BY <1>1, <2>2, EmptyStretch DEF todo
  <2> QED BY ZenonT(30), <2>1, <2>3
<1>5. UNCHANGED Pair!vars
  BY <1>1, <1>3, <1>4 DEF Pair!vars
<1>6. PlaceInv' /\ \A u : InQueue(u)' <=> InQueue(u)
  BY Zenon, <1>5, SamePlaces
<1>7. LockInv'
  BY Zenon, <1>1 DEF LockInv
<1>8. SqInv'
  BY Zenon, <1>1 DEF SqInv, LockInv, Deleted
<1>9. CqInv'
  BY Zenon, <1>1, <1>2, <1>3 DEF CqInv
<1>10. QuietInv'
  BY Zenon, <1>1, <1>3 DEF QuietInv, Deleted
<1>11. OwnerInv'
  BY Zenon, <1>1, <1>6 DEF OwnerInv, LockInv
<1>12. WaitInv'
  BY <1>1 DEF WaitInv
<1> QED BY Zenon, <1>5, <1>6, <1>7, <1>8, <1>9, <1>10, <1>11, <1>12

\* The driver starts again at the first slot of an empty completion ring.
LEMMA InitQueueStep ==
  ASSUME IInv, ~Overlap, nvme_init_queue
  PROVE  QueueInv' /\ Pair!Discard
<1> USE DEF IInv, QueueInv
<1>1. /\ UNCHANGED <<number, q_db, info, unsent, lock, cur, head, phase, ctrl,
                     sq_cmds, working, path, resets>>
      /\ stage = "irq" /\ stage' = "up" /\ lock = None
      /\ sq_tail' = 0 /\ cq_head' = 0 /\ cq_phase' = 1
      /\ cqes' = [i \in Slots |-> EmptyCqe]
  BY DEF nvme_init_queue, InitQueueWith, held
<1>2. ReadAt' = 0 /\ ReadPhase' = 1
  BY Zenon, <1>1 DEF ReadAt, ReadPhase, Handlers, None
<1>3. 0 \in Slots /\ \A k \in Slots : ~NewAt(cqes', 0, 1, k)
  BY <1>1, DepthAssumption DEF NewAt, EmptyCqe, Slots, Wrap, Lap
<1>4. Unseen' = 0
  <2>1. \A k \in Slots : NewAt(cqes', 0, 1, k) <=> k < 0
    BY <1>3, DepthAssumption DEF Slots
  <2>2. CountNew(cqes', 0, 1) = 0
    BY <1>3, <2>1, CountNewIs
  <2> QED BY <1>2, <2>2 DEF Unseen
<1>5. finished' = <<>>
  BY <1>4 DEF finished, Queued
<1>6. todo' = todo
  BY Zenon, <1>1 DEF todo
<1>7. PlaceInv' /\ \A u : InQueue(u)' <=> Has(todo, u) \/ u \in working
  BY <1>1, <1>5, <1>6, DiscardPlaces
<1>8. \A u : ~InQueue(u)'
  <2>1. todo = <<>> /\ working = {}
    BY Zenon, <1>1, RingTypes, EmptyStretch DEF todo, SqInv, Deleted
  <2> QED BY Zenon, <1>7, <2>1, EmptyHas
<1>9. Pair!Discard
  BY Zenon, <1>1, <1>5, <1>6 DEF Pair!Discard
<1>10. LockInv'
  BY Zenon, <1>1 DEF LockInv, None
<1>11. SqInv'
  BY Zenon, <1>1 DEF SqInv, Deleted, None
<1>12. CqInv'
  <2>1. ctrl'.cq_tail = 0 /\ ctrl'.phase = 1
    BY <1>1 DEF SqInv, FreshCtrl
  <2>2. Wrap(0 + 0) = 0 /\ Lap(0 + 0, 1) = 1 /\ 0 \in 0 .. q_depth - 1
    BY DepthAssumption DEF Wrap, Lap
  <2>3. \A k \in 0 .. q_depth - 1 : NewAt(cqes', 0, 1, k) <=> k < 0
    BY <1>3, DepthAssumption DEF Slots
  <2> QED BY Zenon, <1>2, <1>4, <2>1, <2>2, <2>3 DEF CqInv
<1>13. QuietInv'
  BY Zenon, <1>1 DEF QuietInv, Deleted
<1>14. OwnerInv'
  BY Zenon, <1>1, <1>8 DEF OwnerInv, None
<1>15. WaitInv'
  BY Zenon, <1>1 DEF WaitInv, LockInv
<1> QED BY Zenon, <1>7, <1>9, <1>10, <1>11, <1>12, <1>13, <1>14, <1>15

\* The invariant holds at first.
LEMMA InitInv ==
  Init => IInv /\ Pair!Init
<1> SUFFICES ASSUME Init PROVE IInv /\ Pair!Init
  BY Zenon
<1>1. TypeOK
  <2>1. 0 \in Slots /\ 0 \in 0 .. MaxResets
    BY DepthAssumption, ResetAssumption DEF Slots
  <2>2. /\ sq_cmds \in [Slots -> Tags \cup {None}]
        /\ cqes \in [Slots -> [tag : Tags \cup {None}, phase : 0 .. 1]]
        /\ q_db \in [sq : Slots, cq : Slots]
        /\ ctrl \in [sq_head : Slots, cq_tail : Slots, phase : 0 .. 1]
    BY <2>1 DEF Init, EmptyCqe, FreshCtrl
  <2>3. /\ cq_phase \in 0 .. 1 /\ phase \in 0 .. 1
        /\ info \in [Tags -> {"started", "completed", "cancelled"}]
    BY DEF Init
  <2> QED BY Zenon, <2>1, <2>2, <2>3 DEF TypeOK, Init, Stages
<1>2. ReadAt = 0 /\ ReadPhase = 1
  BY Zenon DEF ReadAt, ReadPhase, Handlers, None, Init
<1>3. 0 \in Slots /\ \A k \in Slots : ~NewAt(cqes, 0, 1, k)
  <2>1. cqes = [i \in Slots |-> EmptyCqe]
    BY Zenon DEF Init
  <2> QED BY <2>1, DepthAssumption DEF NewAt, EmptyCqe, Slots, Wrap, Lap
<1>4. Unseen = 0
  <2>1. \A k \in Slots : NewAt(cqes, 0, 1, k) <=> k < 0
    BY <1>3, DepthAssumption DEF Slots
  <2>2. CountNew(cqes, 0, 1) = 0
    BY Zenon, <1>3, <2>1, CountNewIs
  <2> QED BY Zenon, <1>2, <2>2 DEF Unseen
<1>5. finished = <<>>
  BY <1>4 DEF finished, Queued
<1>6. todo = <<>>
  BY Zenon, <1>3, EmptyStretch DEF todo, FreshCtrl, Init
<1>7. \A u : ~InQueue(u)
  BY Zenon, <1>5, <1>6, EmptyHas DEF InQueue, Init
<1>8. LockInv /\ SqInv /\ QuietInv
  BY Zenon DEF LockInv, SqInv, QuietInv, Deleted, None, Init
<1>9. CqInv
  <2>1. Wrap(0 + 0) = 0 /\ Lap(0 + 0, 1) = 1 /\ 0 \in 0 .. q_depth - 1
    BY DepthAssumption DEF Wrap, Lap
  <2>2. \A k \in 0 .. q_depth - 1 : NewAt(cqes, 0, 1, k) <=> k < 0
    BY <1>3, DepthAssumption DEF Slots
  <2> QED BY Zenon, <1>2, <1>4, <2>1, <2>2 DEF CqInv, FreshCtrl, Init
<1>10. PlaceInv
  BY Zenon, <1>5, <1>6, EmptyHas DEF PlaceInv, Init
<1>11. OwnerInv /\ WaitInv
  BY Zenon, <1>7 DEF OwnerInv, WaitInv, None, Requests, Init
<1>12. Pair!Init
  BY <1>5, <1>6 DEF Pair!Init, Init
<1> QED BY <1>1, <1>8, <1>9, <1>10, <1>11, <1>12 DEF IInv, QueueInv

\* Every step keeps the invariant, and is a step of the queue pair or none.
LEMMA NextInv ==
  ASSUME IInv, ~Overlap, Apart, RoomForOneMore, [Next]_vars
  PROVE  IInv' /\ [Pair!Next]_(Pair!vars)
<1>1. TypeOK'
  BY Zenon, TypeStep DEF IInv
<1>2. QueueInv' /\ [Pair!Next]_(Pair!vars)
  <2>1. CASE \E t \in Tags : nvme_set_info(t) \/ SubmitCopy(t) \/ CtrlPost(t)
    BY <2>1, SetInfoStep, SubmitCopyStep, CtrlPostStep DEF Pair!Next
  <2>2. CASE SubmitRing
    BY <2>2, SubmitRingStep DEF Pair!Next
  <2>3. CASE \E h \in Handlers : ProcessStart(h)
    BY <2>3, ProcessStartStep
  <2>4. CASE ProcessEntry
    BY <2>4, ProcessEntryStep DEF Pair!Next
  <2>5. CASE ProcessExit
    BY <2>5, ProcessExitStep
  <2>6. CASE CtrlFetch
    BY <2>6, CtrlFetchStep DEF Pair!Next
  <2>7. CASE \/ Freeze \/ nvme_suspend_queue \/ FreeIrq \/ nvme_dev_unmap
             \/ nvme_clear_queue \/ nvme_dev_start \/ queue_request_irq
    BY <2>7, CalmStep
  <2>8. CASE DeleteQueues
    BY <2>8, DeleteQueuesStep DEF Pair!Next
  <2>9. CASE nvme_create_queue
    BY <2>9, CreateStep
  <2>10. CASE nvme_init_queue
    BY Zenon, <2>10, InitQueueStep DEF Pair!Next
  <2>11. CASE UNCHANGED vars
    <3>1. UNCHANGED <<number, driver, cqes, q_db, info, unsent, held, ctrl, working, reset>>
      BY Zenon, <2>11 DEF vars
    <3>2. UNCHANGED <<number, ReadAt, ReadPhase, cqes, ctrl, q_db, working, unsent, lock, cur,
                      head, phase, cq_head, cq_phase, sq_cmds, sq_tail, info, stage,
                      path, resets>>
      BY Zenon, <3>1 DEF driver, held, reset, ReadAt, ReadPhase
    <3>3. UNCHANGED Pair!vars /\ Unseen' = Unseen
      BY <3>2, StillQueue
    <3>4. PlaceInv' /\ \A t : InQueue(t)' <=> InQueue(t)
      BY Zenon, <3>3, SamePlaces DEF IInv, QueueInv
    <3>5. LockInv' /\ SqInv' /\ CqInv' /\ QuietInv'
      BY Zenon, <3>2, <3>3 DEF IInv, QueueInv, LockInv, SqInv, CqInv, QuietInv
    <3>6. OwnerInv' /\ WaitInv'
      BY Zenon, <3>2, <3>4, SameDeaf DEF IInv, QueueInv, OwnerInv, WaitInv
    <3> QED BY Zenon, <3>3, <3>4, <3>5, <3>6 DEF QueueInv
  <2> QED BY Zenon, <2>1, <2>2, <2>3, <2>4, <2>5, <2>6, <2>7, <2>8, <2>9, <2>10, <2>11 DEF Next
<1> QED BY <1>1, <1>2 DEF IInv

-----------------------------------------------------------------------------
(* There are fewer tags than slots.                                        *)

Fin == INSTANCE FiniteSetTheorems

LEMMA Room == RoomForOneMore
<1> SUFFICES ASSUME NEW s \in Seq(Tags), NEW t \in Tags, Distinct(s),
                    \A k \in DOMAIN s : s[k] # t
             PROVE  Len(s) + 1 \in Slots
  BY Zenon DEF RoomForOneMore
<1>0. Fin!IsFiniteSet(Tags) /\ Fin!Cardinality(Tags) < q_depth
  <2>1. IsFiniteSet(Tags) <=> Fin!IsFiniteSet(Tags)
    BY DEF IsFiniteSet, Fin!IsFiniteSet
  <2>2. Cardinality(Tags) = Fin!Cardinality(Tags)
    BY DEF Cardinality, Fin!Cardinality
  <2> QED BY Zenon, <2>1, <2>2, TagsAssumption
<1> DEFINE n == Len(s)
           f == [k \in 1 .. n + 1 |-> IF k <= n THEN s[k] ELSE t]
<1>1. n \in Nat /\ DOMAIN s = 1 .. n /\ \A k \in 1 .. n : s[k] \in Tags
  OBVIOUS
<1> HIDE DEF n
<1>2. f \in [1 .. n + 1 -> Tags]
  BY <1>1
<1>3. \A k, l \in 1 .. n + 1 : f[k] = f[l] => k = l
  <2> TAKE k, l \in 1 .. n + 1
  <2>1. CASE k <= n /\ l <= n
    BY <1>1, <2>1 DEF Distinct
  <2>2. CASE k = n + 1 /\ l <= n
    BY <1>1, <2>2
  <2>3. CASE k <= n /\ l = n + 1
    BY <1>1, <2>3
  <2> QED BY <1>1, <2>1, <2>2, <2>3
<1> HIDE DEF f
<1>4. f \in Fin!Injection(1 .. n + 1, Tags)
  BY Zenon, <1>2, <1>3 DEF Fin!Injection, Fin!IsInjective
<1>5. Fin!Cardinality(1 .. n + 1) <= Fin!Cardinality(Tags)
  BY Zenon, <1>4, <1>0, Fin!FS_Injection
<1>6. Fin!Cardinality(1 .. n + 1) = n + 1
  BY <1>1, Fin!FS_Interval
<1>7. Fin!Cardinality(Tags) \in Nat
  BY Zenon, <1>0, Fin!FS_CardinalityType
<1>8. n + 1 \in Slots
  BY <1>0, <1>1, <1>5, <1>6, <1>7, DepthAssumption DEF Slots
<1> QED BY <1>8 DEF n

-----------------------------------------------------------------------------
(* The theorems.                                                           *)

\* The variables of a queue have their types, also when commands are submitted
\* during a reset.
THEOREM TypeOKHolds == Spec => []TypeOK
<1>1. Init => TypeOK
  BY InitInv DEF IInv
<1>2. TypeOK /\ [Next]_vars => TypeOK'
  BY TypeStep
<1> QED BY <1>1, <1>2, PTL DEF Spec

\* The invariant holds of a queue whose users let a reset run undisturbed.
THEOREM InductiveInvariant == ~Overlap /\ Apart => (Spec => []IInv)
<1> SUFFICES ASSUME ~Overlap, Apart PROVE Spec => []IInv
  OBVIOUS
<1>1. Init => IInv
  BY InitInv
<1>2. IInv /\ [Next]_vars => IInv'
  BY NextInv, Room
<1> QED BY <1>1, <1>2, PTL DEF Spec

\* The rings of nvme-core.c, with q_lock, doorbells and phase bits, deliver each
\* command to the controller and each completion to the driver once and in
\* order: __nvme_submit_cmd overwrites no command that was not fetched, although
\* it does not look, and nvme_process_cq takes every new entry and no old one.
THEOREM RefinesQueuePair == ~Overlap /\ Apart => (Spec => ImplementsQueuePair)
<1> SUFFICES ASSUME ~Overlap, Apart PROVE Spec => ImplementsQueuePair
  OBVIOUS
<1>1. Init => Pair!Init
  BY InitInv
<1>2. IInv /\ [Next]_vars => [Pair!Next]_(Pair!vars)
  BY Zenon, NextInv, Room
<1>3. Spec => []IInv
  BY InductiveInvariant
<1> QED BY <1>1, <1>2, <1>3, PTL DEF Spec, ImplementsQueuePair, Pair!Spec

\* A tag in the rings or the controller belongs to a caller that waits for it,
\* or was told of its cancellation.
THEOREM InFlightIsOwnedHolds == ~Overlap /\ Apart => (Spec => []InFlightIsOwned)
<1> SUFFICES ASSUME ~Overlap, Apart PROVE Spec => []InFlightIsOwned
  OBVIOUS
<1>1. IInv => InFlightIsOwned
  <2> SUFFICES ASSUME IInv, NEW t \in Pair!Outstanding PROVE
         t \notin unsent /\ info[t] \in {"started", "cancelled"}
         /\ (stage = "up" => info[t] = "started")
    BY DEF InFlightIsOwned
  <2>1. InQueue(t)
    BY Zenon, OutstandingIs
  <2>2. t \in Tags
    BY <2>1 DEF InQueue, Has, PlaceInv, IInv, QueueInv
  <2> QED BY Zenon, <2>1, <2>2 DEF IInv, QueueInv, OwnerInv
<1> QED BY <1>1, InductiveInvariant, PTL

\* The rings or the controller hold every command a caller waits for while the
\* queue is in service.
THEOREM WaitedForIsInFlightHolds == ~Overlap /\ Apart => (Spec => []WaitedForIsInFlight)
<1> SUFFICES ASSUME ~Overlap, Apart PROVE Spec => []WaitedForIsInFlight
  OBVIOUS
<1>1. IInv => WaitedForIsInFlight
  BY OutstandingIs DEF IInv, QueueInv, WaitInv, WaitedForIsInFlight
<1> QED BY <1>1, InductiveInvariant, PTL

\* Nobody writes a doorbell while the registers are unmapped; and if
\* nvme_disable_queue drained the completion ring, nobody does until
\* nvme_init_queue, although nvme_kthread polls before that.
THEOREM QuietUntilInitHolds == ~Overlap /\ Apart => (Spec => QuietUntilInit)
<1> SUFFICES ASSUME ~Overlap, Apart PROVE Spec => QuietUntilInit
  OBVIOUS
<1> DEFINE When == \/ stage \in {"unmapped", "cleared"}
                   \/ path = "disable" /\ stage \in {"listed", "created", "irq"}
           Quiet == When /\ stage' = stage => UNCHANGED q_db
<1>1. IInv /\ [Next]_vars => [Quiet]_vars
  <2> SUFFICES ASSUME IInv, Next, When, stage' = stage
               PROVE  q_db' = q_db
    BY Zenon DEF vars
  <2> USE DEF IInv, QueueInv
  <2>1. lock # "submit" /\ (lock \in Handlers => head = cq_head /\ phase = cq_phase)
    <3>1. CASE stage \in {"unmapped", "cleared"}
      BY <3>1 DEF LockInv, Handlers
    <3>2. CASE path = "disable" /\ stage \in {"listed", "created", "irq"}
      BY <3>2 DEF LockInv, QuietInv, Deleted
    <3> QED BY Zenon, <3>1, <3>2
  <2>2. CASE ProcessExit
    BY <2>1, <2>2 DEF ProcessExit, ProcessExitWith
  <2>3. CASE SubmitRing
    BY Zenon, <2>1, <2>3 DEF SubmitRing, RingWith
  <2>4. CASE nvme_create_queue
    BY <2>4 DEF nvme_create_queue
  <2> QED BY Zenon, <2>2, <2>3, <2>4
      DEF Next, nvme_set_info, SubmitCopy, CtrlPost, ProcessStart, ProcessEntry,
          EntryWith, CtrlFetch, Freeze, nvme_suspend_queue, FreeIrq, DeleteQueues,
          nvme_dev_unmap, UnmapFrom, nvme_clear_queue, ClearWith, nvme_dev_start,
          queue_request_irq, nvme_init_queue, InitQueueWith
<1> QED BY <1>1, InductiveInvariant, PTL DEF Spec, QuietUntilInit
=============================================================================
