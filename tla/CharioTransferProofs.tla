------------------------ MODULE CharioTransferProofs ------------------------
(***************************************************************************)
(* The inductive invariant of CharioTransfer, the proofs that the          *)
(* submitting task, the controller and the completion handlers preserve it,*)
(* for every number of tasks and handlers, every command size and every tag*)
(* array, when transfers do not overlap, and the theorems that follow.     *)
(***************************************************************************)
EXTENDS CharioTransfer, TLAPS

-----------------------------------------------------------------------------
(* The inductive invariant.                                                *)

Issuing(p) == pc[p] \in {"tag", "fill", "submit"}
Waiting(p) == pc[p] \in {"check", "sleep", "reset"}

(* The number of commands the transfer of p has put on the queue.          *)
Issued(p) == IF pc[p] = "submit" THEN tag[p] ELSE next_chario_tag

(* The number of those that have REQ_MAX_BLOCKS blocks for certain.        *)
Full(p) == IF Waiting(p) THEN Issued(p) - 1 ELSE Issued(p)

(* A handler has taken an entry off the queue and not subtracted it yet.   *)
Pending == IF \E h \in Handlers : hpc[h] = "subtract" THEN 1 ELSE 0

(* The number of commands that have been subtracted from remaining.        *)
Counted(p) == Issued(p) - Cardinality(inflight) - Len(cqes) - Pending

(* The number of blocks in the commands put on the queue.                  *)
IssuedBlocks(p) ==
  IF Waiting(p) THEN nblocks[p] + 1 ELSE nblocks[p] - remaining_blocks[p]

Quiet ==
  /\ inflight = {}
  /\ cqes = << >>
  /\ \A h \in Handlers : hpc[h] # "subtract"

NothingIssued ==
  /\ Quiet
  /\ \A p \in Procs : ~Waiting(p) /\ (Live(p) => Issued(p) = 0)

OneActive ==
  \A p, q \in Procs : pc[p] # "idle" /\ pc[q] # "idle" => p = q

LockInv == \A h \in Handlers : hpc[h] # "idle" => q_lock = h

IdleInv == (\A p \in Procs : ~Live(p)) => Quiet /\ next_chario_tag = 0

TagInv ==
  \A p \in Procs :
    /\ pc[p] = "fill" => tag[p] = next_chario_tag
    /\ pc[p] = "submit" =>
         /\ next_chario_tag = tag[p] + 1
         /\ tag[p] \in Tags
         /\ chario_cmds[tag[p]] = [fn |-> "chario_completion", ctx |-> p]
    /\ Waiting(p) => next_chario_tag > 0

CommandInv ==
  \A c \in inflight :
    /\ Live(c.owner)
    /\ c.tag \in Tags
    /\ c.tag < Issued(c.owner)
    /\ chario_cmds[c.tag] = [fn |-> "chario_completion", ctx |-> c.owner]
    /\ \A d \in inflight : d.tag = c.tag => d = c
    /\ \A i \in DOMAIN cqes : cqes[i] # c.tag

EntryInv ==
  \A i \in DOMAIN cqes :
    /\ \E p \in Procs :
         /\ Live(p)
         /\ cqes[i] < Issued(p)
         /\ chario_cmds[cqes[i]] = [fn |-> "chario_completion", ctx |-> p]
    /\ \A j \in DOMAIN cqes : cqes[j] = cqes[i] => i = j

CountInv ==
  \A p \in Procs :
    /\ nblocks[p] \in NBlocks \cup {0}
    /\ Live(p) =>
         /\ remaining[p] = nblocks[p] - R * Counted(p)
         /\ remaining_blocks[p] = nblocks[p] - R * Full(p)
         /\ Waiting(p) => remaining_blocks[p] < R

BlockInv ==
  \A p \in Procs :
    /\ pc[p] = "map" => settled[p] = {}
    /\ Live(p) =>
         \A b \in Nat :
           b < IssuedBlocks(p)
             <=> (b \in settled[p] \/ \E c \in inflight : b \in c.first .. c.last)

HandlerInv ==
  \A h \in Handlers :
    /\ hpc[h] \in {"subtract", "test", "wake"} => hctx[h] \in Procs
    /\ hpc[h] = "subtract" => Live(hctx[h])
    /\ hpc[h] \in {"test", "wake"} =>
         \/ NothingIssued
         \/ Live(hctx[h]) /\ (hpc[h] = "wake" => remaining[hctx[h]] < 0)

SleepInv ==
  \A p \in Procs :
    /\ task_state[p] = "UNINTERRUPTIBLE" =>
         /\ pc[p] = "sleep"
         /\ \/ remaining[p] >= 0
            \/ \E h \in Handlers : hpc[h] \in {"test", "wake"} /\ hctx[h] = p
    /\ pc[p] = "sleep" /\ task_state[p] = "RUNNING" => remaining[p] < 0
    /\ pc[p] = "reset" => remaining[p] < 0

IInv ==
  /\ TypeOK
  /\ IsFiniteSet(inflight)
  /\ OneActive
  /\ LockInv
  /\ IdleInv
  /\ TagInv
  /\ CommandInv
  /\ EntryInv
  /\ CountInv
  /\ BlockInv
  /\ HandlerInv
  /\ SleepInv

(* What the proof uses of finite sets; it is established at the end of     *)
(* this module.                                                            *)
FiniteSetFacts ==
  /\ IsFiniteSet({}) /\ Cardinality({}) = 0
  /\ \A S : IsFiniteSet(S) =>
       /\ Cardinality(S) \in Nat
       /\ Cardinality(S) = 0 => S = {}
       /\ \A x : x \notin S => /\ IsFiniteSet(S \cup {x})
                              /\ Cardinality(S \cup {x}) = Cardinality(S) + 1
       /\ \A x \in S : /\ IsFiniteSet(S \ {x})
                       /\ Cardinality(S \ {x}) = Cardinality(S) - 1

-----------------------------------------------------------------------------
(* Arithmetic: multiplication by the command size is monotone.             *)
LEMMA MulMono ==
  ASSUME NEW a \in Int, NEW b \in Int
  PROVE  /\ R * a \in Int
         /\ a >= 0 => R * a >= 0
         /\ a <= b => R * a <= R * b
         /\ R * (a + 1) = R * a + R
         /\ R * (a - 1) = R * a - R
BY ConstAssumption DEF R

LEMMA OneMoreCounted ==
  ASSUME NEW n \in Int, NEW c \in Int, NEW c1, c1 = c + 1,
         NEW left, left = n - R * c, NEW left1, left1 = left - R
  PROVE  left1 = n - R * c1
BY MulMono, ConstAssumption DEF R

LEMMA EntryType ==
  ASSUME TypeOK, NEW i \in DOMAIN cqes
  PROVE  cqes[i] \in Tags /\ cqes[i] \in Nat
<1>1. cqes[i] \in Tags
  BY DEF TypeOK
<1> QED
  BY <1>1 DEF Tags

LEMMA CommandType ==
  ASSUME TypeOK, NEW c \in inflight
  PROVE  /\ c.owner \in Procs /\ c.tag \in Nat
         /\ c.first \in Nat /\ c.last \in Nat
BY DEF TypeOK, Commands

(* remaining becomes negative only when the last command of the transfer   *)
(* has been issued, completed and counted.                                 *)
LEMMA NegativeIsDone ==
  ASSUME FiniteSetFacts, IInv, NEW p \in Procs, Live(p), remaining[p] < 0
  PROVE  Waiting(p) /\ Quiet
<1> DEFINE n == nblocks[p]  k == Counted(p)  f == Full(p)
<1>1. /\ n \in Nat /\ remaining_blocks[p] \in Nat
      /\ Issued(p) \in Nat
      /\ Cardinality(inflight) \in Nat /\ Len(cqes) \in Nat
      /\ Pending \in {0, 1}
  BY DEF FiniteSetFacts, IInv, TypeOK, Issued, Pending
<1>2. k \in Int /\ f \in Int /\ f <= Issued(p)
  BY <1>1 DEF Counted, Full
<1>3. remaining[p] = n - R * k /\ remaining_blocks[p] = n - R * f
  BY DEF IInv, CountInv
<1>4. ~(k <= f)
  <2> SUFFICES ASSUME k <= f PROVE FALSE
    OBVIOUS
  <2>1. R * k <= R * f /\ R * k \in Int /\ R * f \in Int
    BY <1>2, MulMono
  <2> QED
    BY <1>1, <1>3, <2>1
<1>5. Waiting(p)
  BY <1>1, <1>2, <1>4 DEF Full, Counted
<1>6. Cardinality(inflight) = 0 /\ Len(cqes) = 0 /\ Pending = 0
  BY <1>1, <1>4, <1>5 DEF Full, Counted
<1>7. inflight = {}
  BY <1>6 DEF FiniteSetFacts, IInv
<1>8. cqes = << >>
  BY <1>6 DEF IInv, TypeOK
<1> QED
  BY <1>5, <1>6, <1>7, <1>8 DEF Quiet, Pending

(* The commands and entries of the queue, when a step changes neither them *)
(* nor who owns them; the counters likewise.                               *)
LEMMA QueueFrame ==
  ASSUME FiniteSetFacts, IInv, chario_cmds' = chario_cmds, inflight' = inflight, cqes' = cqes,
         \A q \in Procs : Live(q)' = Live(q) /\ Issued(q)' = Issued(q)
  PROVE  IsFiniteSet(inflight)' /\ CommandInv' /\ EntryInv'
<1>1. CommandInv'
  <2>1. \A c \in inflight : c.owner \in Procs
    BY CommandType DEF IInv
  <2> QED
    BY ZenonT(30), SMTT(20), <2>1 DEF IInv, CommandInv
<1>2. EntryInv'
  <2>1. ASSUME NEW i \in DOMAIN cqes
        PROVE  \E q \in Procs :
                 /\ Live(q)'
                 /\ cqes[i] < Issued(q)'
                 /\ chario_cmds[cqes[i]] = [fn |-> "chario_completion", ctx |-> q]
    BY ZenonT(30), SMTT(20) DEF IInv, EntryInv
  <2> QED
    BY ZenonT(30), SMTT(20), <2>1 DEF IInv, EntryInv
<1> QED
  BY <1>1, <1>2 DEF IInv

LEMMA CountFrame ==
  ASSUME FiniteSetFacts, IInv, nblocks' = nblocks, remaining' = remaining,
         remaining_blocks' = remaining_blocks,
         \A q \in Procs : /\ Live(q)' = Live(q) /\ Waiting(q)' = Waiting(q)
                          /\ Full(q)' = Full(q) /\ Counted(q)' = Counted(q)
  PROVE  CountInv'
BY ZenonT(30), SMTT(20) DEF IInv, CountInv

LEMMA InitIInv ==
  ASSUME FiniteSetFacts, Init
  PROVE  IInv
<1>1. TypeOK /\ cqes = << >> /\ inflight = {}
  BY ConstAssumption DEF Init, TypeOK, Tags, Commands
<1>2. IsFiniteSet(inflight)
  BY <1>1 DEF FiniteSetFacts
<1>3. \A p \in Procs : ~Live(p) /\ ~Waiting(p) /\ pc[p] = "idle"
  BY DEF Init, Live, Waiting
<1>4. Quiet /\ LockInv
  BY <1>1 DEF Init, Quiet, LockInv
<1> QED
  BY <1>1, <1>2, <1>3, <1>4
     DEF Init, IInv, OneActive, IdleInv, TagInv, CommandInv, EntryInv,
         CountInv, BlockInv, HandlerInv, SleepInv

(* With nothing queued and no live transfer, what the invariant says of    *)
(* commands, entries and tags holds because there are none.                *)
LEMMA QuietFrame ==
  ASSUME FiniteSetFacts, Quiet', \A q \in Procs : ~Live(q)' /\ ~Waiting(q)'
  PROVE  IsFiniteSet(inflight)' /\ CommandInv' /\ EntryInv' /\ TagInv'
<1>1. inflight' = {} /\ cqes' = << >>
  BY Zenon DEF Quiet
<1>2. IsFiniteSet(inflight)'
  BY <1>1 DEF FiniteSetFacts
<1>3. CommandInv'
  BY Zenon, <1>1 DEF CommandInv
<1>4. EntryInv'
  <2>1. DOMAIN cqes' = {}
    BY <1>1
  <2> QED
    BY Zenon, <2>1 DEF EntryInv
<1>5. TagInv'
  BY DEF TagInv, Live
<1> QED
  BY <1>2, <1>3, <1>4, <1>5

LEMMA StartStep ==
  ASSUME FiniteSetFacts, IInv, Serialised, NEW p \in Procs, Start(p)
  PROVE  IInv'
<1>1. TypeOK'
  BY ConstAssumption DEF IInv, TypeOK, Start, queueVars, handlerVars
<1>2. /\ \A q \in Procs : ~Live(q) /\ ~Live(q)' /\ ~Waiting(q) /\ ~Waiting(q)'
      /\ \A q \in Procs : pc[q] = "idle" /\ (q # p => pc'[q] = "idle")
  BY DEF IInv, TypeOK, Start, Live, Waiting
<1>3. Quiet /\ Quiet' /\ next_chario_tag' = 0 /\ NothingIssued'
  BY <1>2 DEF IInv, IdleInv, Quiet, Start, queueVars, handlerVars, NothingIssued
<1>4. IsFiniteSet(inflight)' /\ CommandInv' /\ EntryInv' /\ TagInv'
  BY <1>2, <1>3, QuietFrame
<1>5. OneActive' /\ LockInv' /\ IdleInv'
  BY <1>2, <1>3 DEF Start, handlerVars, IInv, OneActive, LockInv, IdleInv
<1>6. CountInv'
  BY <1>2 DEF Start, IInv, TypeOK, CountInv
<1>7. BlockInv'
  BY Zenon, SMTT(40), <1>2 DEF Start, IInv, TypeOK, BlockInv
<1>8. HandlerInv'
  BY <1>2, <1>3 DEF Start, handlerVars, IInv, HandlerInv, Quiet
<1>9. SleepInv'
  BY <1>2 DEF Start, handlerVars, IInv, TypeOK, SleepInv
<1> QED
  BY <1>1, <1>4, <1>5, <1>6, <1>7, <1>8, <1>9 DEF IInv

LEMMA MapFailsStep ==
  ASSUME FiniteSetFacts, IInv, NEW p \in Procs, MapFails(p)
  PROVE  IInv'
<1>1. TypeOK'
  BY DEF IInv, TypeOK, MapFails, queueVars, handlerVars, ghostVars
<1>2. /\ \A q \in Procs : ~Live(q) /\ ~Live(q)' /\ ~Waiting(q) /\ ~Waiting(q)'
      /\ \A q \in Procs : pc'[q] = "idle"
  BY DEF IInv, TypeOK, OneActive, MapFails, Live, Waiting
<1>3. Quiet /\ Quiet' /\ next_chario_tag' = 0 /\ NothingIssued'
  BY <1>2 DEF IInv, IdleInv, Quiet, MapFails, queueVars, handlerVars, NothingIssued
<1>4. IsFiniteSet(inflight)' /\ CommandInv' /\ EntryInv' /\ TagInv'
  BY <1>2, <1>3, QuietFrame
<1>5. OneActive' /\ LockInv' /\ IdleInv'
  BY <1>2, <1>3 DEF MapFails, handlerVars, IInv, OneActive, LockInv, IdleInv
<1>6. CountInv'
  BY <1>2 DEF MapFails, IInv, CountInv
<1>7. BlockInv'
  BY <1>2 DEF BlockInv
<1>8. HandlerInv'
  BY <1>2, <1>3 DEF MapFails, handlerVars, IInv, HandlerInv, Quiet
<1>9. SleepInv'
  BY <1>2 DEF MapFails, handlerVars, IInv, TypeOK, SleepInv
<1> QED
  BY <1>1, <1>4, <1>5, <1>6, <1>7, <1>8, <1>9 DEF IInv

LEMMA InitCmdinfoStep ==
  ASSUME FiniteSetFacts, IInv, NEW p \in Procs, InitCmdinfo(p)
  PROVE  IInv'
<1>1. TypeOK'
  BY DEF IInv, TypeOK, InitCmdinfo, queueVars, handlerVars, ghostVars
<1>2. /\ \A q \in Procs : ~Live(q) /\ ~Waiting(q) /\ ~Waiting(q)'
      /\ \A q \in Procs : q # p => pc'[q] = "idle" /\ ~Live(q)'
      /\ pc'[p] = "tag" /\ Live(p)'
  BY Zenon, SMTT(20) DEF IInv, TypeOK, OneActive, InitCmdinfo, Live, Waiting
<1>3. /\ Quiet /\ Quiet' /\ next_chario_tag' = 0
      /\ inflight' = {} /\ cqes' = << >>
  BY <1>2 DEF IInv, IdleInv, Quiet, InitCmdinfo, queueVars, handlerVars
<1>4. Issued(p)' = 0 /\ Full(p)' = 0 /\ IssuedBlocks(p)' = 0
  BY <1>2, <1>3 DEF Issued, Full, IssuedBlocks, InitCmdinfo, IInv, TypeOK
<1>5. Counted(p)' = 0
  <2>1. Cardinality(inflight') = 0 /\ Len(cqes') = 0 /\ Pending' = 0
    BY <1>3 DEF FiniteSetFacts, Pending, Quiet
  <2> QED
    BY <1>4, <2>1 DEF Counted
<1>6. NothingIssued'
  BY <1>2, <1>3, <1>4 DEF NothingIssued
<1>7. CountInv'
  <2>1. R * 0 = 0
    BY SMTT(40), Zenon, ConstAssumption DEF R
  <2> QED
    BY SMTT(20), <1>2, <1>4, <1>5, <2>1 DEF InitCmdinfo, IInv, CountInv, TypeOK
<1>8. BlockInv'
  BY SMTT(40), Zenon, <1>2, <1>3, <1>4 DEF InitCmdinfo, IInv, BlockInv, ghostVars
<1>9. IsFiniteSet(inflight)' /\ OneActive' /\ LockInv' /\ IdleInv' /\ TagInv'
  BY Zenon, SMTT(40), <1>2, <1>3 DEF InitCmdinfo, queueVars, handlerVars, IInv, OneActive,
     LockInv, IdleInv, TagInv
<1>10. CommandInv' /\ EntryInv' /\ HandlerInv' /\ SleepInv'
  BY <1>2, <1>3, <1>6 DEF InitCmdinfo, queueVars, handlerVars, IInv,
     TypeOK, CommandInv, EntryInv, HandlerInv, SleepInv, Quiet
<1> QED
  BY <1>1, <1>7, <1>8, <1>9, <1>10 DEF IInv

LEMMA ReadTagStep ==
  ASSUME FiniteSetFacts, IInv, NEW p \in Procs, ReadTag(p)
  PROVE  IInv'
<1>1. TypeOK'
  BY DEF IInv, TypeOK, ReadTag, queueVars, handlerVars, ghostVars
<1>2. /\ \A q \in Procs : Live(q)' = Live(q) /\ Waiting(q)' = Waiting(q)
      /\ \A q \in Procs : q # p => pc'[q] = pc[q]
      /\ pc[p] = "tag" /\ pc'[p] = "fill"
  BY DEF IInv, TypeOK, ReadTag, Live, Waiting
<1>3. \A q \in Procs : Issued(q)' = Issued(q)
  BY <1>2 DEF ReadTag, IInv, TypeOK, Issued, queueVars
<1>4. \A q \in Procs : Full(q)' = Full(q) /\ Counted(q)' = Counted(q)
                      /\ IssuedBlocks(q)' = IssuedBlocks(q)
  BY <1>2, <1>3 DEF ReadTag, Full, Counted, IssuedBlocks, Pending, handlerVars
<1>5. NothingIssued => NothingIssued'
  BY <1>2, <1>3 DEF ReadTag, NothingIssued, Quiet, handlerVars
<1>6. IsFiniteSet(inflight)' /\ OneActive' /\ LockInv' /\ IdleInv' /\ TagInv'
  <2>1. IsFiniteSet(inflight)' /\ OneActive' /\ LockInv'
    BY <1>2 DEF ReadTag, queueVars, handlerVars, IInv, OneActive, LockInv
  <2>2. IdleInv'
    BY <1>2 DEF ReadTag, queueVars, handlerVars, IInv, IdleInv, Quiet
  <2>3. TagInv'
    BY Zenon, <1>2 DEF ReadTag, queueVars, IInv, TypeOK, TagInv
  <2> QED
    BY Zenon, <2>1, <2>2, <2>3
<1>7. CommandInv' /\ EntryInv'
  <2>1. chario_cmds' = chario_cmds /\ inflight' = inflight /\ cqes' = cqes
    BY DEF ReadTag, queueVars
  <2> QED
    BY SMTT(40), Zenon, <1>2, <1>3, <2>1, QueueFrame
<1>8. CountInv' /\ BlockInv'
  BY SMTT(40), Zenon, <1>2, <1>4 DEF ReadTag, ghostVars, IInv, CountInv, BlockInv
<1>9. HandlerInv' /\ SleepInv'
  BY SMTT(20), ZenonT(40), <1>2, <1>5 DEF ReadTag, handlerVars, IInv, HandlerInv, SleepInv
<1> QED
  BY <1>1, <1>6, <1>7, <1>8, <1>9 DEF IInv

(* The tag of the next command is inside the array: NTags commands hold    *)
(* every transfer of fewer than R * NTags blocks.                          *)
Fits == \A n \in NBlocks : n < REQ_MAX_BLOCKS * NTags

LEMMA IssuedFits ==
  ASSUME FiniteSetFacts, IInv, Fits, NEW p \in Procs, Issuing(p)
  PROVE  Issued(p) \in Tags
<1>1. Live(p) /\ ~Waiting(p)
  BY DEF Issuing, Live, Waiting
<1>2. Issued(p) \in Nat /\ nblocks[p] \in Nat /\ remaining_blocks[p] \in Nat
  BY DEF IInv, TypeOK, Issued
<1>3. remaining_blocks[p] = nblocks[p] - R * Issued(p)
  BY Zenon, <1>1 DEF IInv, CountInv, Full
<1>4. nblocks[p] < R * NTags
  <2>1. nblocks[p] \in NBlocks \cup {0}
    BY Zenon DEF IInv, CountInv
  <2>2. 0 < REQ_MAX_BLOCKS * NTags
    BY ConstAssumption
  <2> QED
    BY <2>1, <2>2 DEF Fits, R
<1>5. ~(NTags <= Issued(p))
  <2> SUFFICES ASSUME NTags <= Issued(p) PROVE FALSE
    OBVIOUS
  <2>1. R * NTags <= R * Issued(p) /\ R * NTags \in Int /\ R * Issued(p) \in Int
    BY <1>2, MulMono, ConstAssumption
  <2> QED
    BY <1>2, <1>3, <1>4, <2>1
<1> QED
  BY <1>2, <1>5, ConstAssumption DEF Tags

LEMMA FillCmdStep ==
  ASSUME FiniteSetFacts, IInv, NEW p \in Procs, FillCmd(p)
  PROVE  IInv'
<1>1. TypeOK'
  BY SMTT(40), Zenon DEF IInv, TypeOK, FillCmd, handlerVars, ghostVars
<1>2. /\ \A q \in Procs : Live(q)' = Live(q) /\ Waiting(q)' = Waiting(q)
      /\ \A q \in Procs : q # p => pc'[q] = "idle" /\ pc[q] = "idle" /\ ~Live(q)
      /\ pc[p] = "fill" /\ pc'[p] = "submit"
  BY SMTT(40), Zenon DEF IInv, TypeOK, OneActive, FillCmd, Live, Waiting
<1>3. tag[p] = next_chario_tag /\ Issued(p) = tag[p] /\ Issued(p)' = Issued(p)
  BY SMTT(40), Zenon, <1>2 DEF FillCmd, IInv, TagInv, Issued
<1>4. Full(p)' = Full(p) /\ Counted(p)' = Counted(p)
      /\ IssuedBlocks(p)' = IssuedBlocks(p)
  BY <1>2, <1>3 DEF FillCmd, Full, Counted, IssuedBlocks, Pending, handlerVars
<1>5. NothingIssued => NothingIssued'
  BY <1>2, <1>3 DEF FillCmd, NothingIssued, Quiet, handlerVars
<1>6. IsFiniteSet(inflight)' /\ OneActive' /\ LockInv' /\ IdleInv'
  BY Zenon, SMTT(40), <1>2 DEF FillCmd, handlerVars, IInv, TypeOK, OneActive, LockInv,
     IdleInv, Quiet, Live
<1>7. TagInv'
  <2>1. tag[p] \in Tags /\ tag' = tag /\ next_chario_tag' = tag[p] + 1
        /\ chario_cmds'[tag[p]] = [fn |-> "chario_completion", ctx |-> p]
    BY DEF FillCmd, IInv, TypeOK
  <2>2. \A q \in Procs : Waiting(q)' => q # p /\ pc'[q] # "idle"
    BY <1>2 DEF Waiting
  <2> QED
    BY <1>2, <2>1, <2>2 DEF TagInv
<1>8. CommandInv'
  <2> SUFFICES ASSUME NEW c \in inflight
               PROVE  /\ Live(c.owner)'
                      /\ c.tag \in Tags
                      /\ c.tag < Issued(c.owner)'
                      /\ chario_cmds'[c.tag]
                           = [fn |-> "chario_completion", ctx |-> c.owner]
                      /\ \A d \in inflight : d.tag = c.tag => d = c
                      /\ \A i \in DOMAIN cqes : cqes[i] # c.tag
    BY Zenon, SMTT(20) DEF FillCmd, CommandInv
  <2>1. c.owner = p
    BY ZenonT(30), SMTT(20), <1>2 DEF IInv, TypeOK, Commands, CommandInv
  <2>2. c.tag < Issued(p) /\ c.tag \in Tags /\ Issued(p) \in Nat
    BY Zenon, SMTT(20), <2>1, <1>3 DEF IInv, CommandInv, TypeOK
  <2>3. c.tag # tag[p]
    BY <2>2, <1>3 DEF Tags
  <2> QED
    BY SMTT(40), Zenon, <1>2, <1>3, <2>1, <2>2, <2>3 DEF FillCmd, IInv, TypeOK, CommandInv
<1>9. EntryInv'
  <2>1. ASSUME NEW i \in DOMAIN cqes
        PROVE  /\ cqes[i] < Issued(p)
               /\ chario_cmds'[cqes[i]] = [fn |-> "chario_completion", ctx |-> p]
    <3>1. /\ cqes[i] < Issued(p)
          /\ chario_cmds[cqes[i]] = [fn |-> "chario_completion", ctx |-> p]
      BY Zenon, SMTT(20), <1>2 DEF IInv, EntryInv
    <3>2. cqes[i] \in Tags /\ tag[p] \in Tags
      BY SMTT(30), ZenonT(30) DEF FillCmd, IInv, TypeOK
    <3>3. cqes[i] # tag[p]
      BY <3>1, <3>2, <1>3 DEF Tags
    <3>4. chario_cmds'[cqes[i]] = chario_cmds[cqes[i]]
      BY <3>2, <3>3 DEF FillCmd, IInv, TypeOK
    <3> QED
      BY <3>1, <3>4
  <2>2. cqes' = cqes /\ Live(p)'
    BY Zenon, SMTT(40), <1>2 DEF FillCmd, Live
  <2> QED
    BY ZenonT(40), SMTT(20), <1>3, <2>1, <2>2 DEF IInv, EntryInv
<1>10. CountInv' /\ BlockInv'
  BY Zenon, SMTT(40), <1>2, <1>4 DEF FillCmd, ghostVars, IInv, CountInv, BlockInv
<1>11. HandlerInv' /\ SleepInv'
  BY <1>2, <1>5 DEF FillCmd, handlerVars, IInv, HandlerInv, SleepInv
<1> QED
  BY <1>1, <1>6, <1>7, <1>8, <1>9, <1>10, <1>11 DEF IInv

LEMMA SubmitCmdStep ==
  ASSUME FiniteSetFacts, IInv, NEW p \in Procs, SubmitCmd(p)
  PROVE  IInv'
<1> DEFINE c0 == NextCommand(p)
           more == remaining_blocks[p] >= R
           n == nblocks[p]
           rb == remaining_blocks[p]
<1>0. /\ n \in Nat /\ rb \in Nat /\ R \in Nat /\ R > 0 /\ tag[p] \in Nat
      /\ Cardinality(inflight) \in Nat /\ Len(cqes) \in Nat /\ Pending \in {0, 1}
      /\ IsFiniteSet(inflight)
  BY ConstAssumption DEF FiniteSetFacts, IInv, TypeOK, R, Pending
<1>c. tag[p] \in Nat
  BY DEF IInv, TypeOK
<1>a. \/ /\ more
         /\ remaining_blocks' = [remaining_blocks EXCEPT ![p] = rb - R]
         /\ pc' = [pc EXCEPT ![p] = "tag"]
      \/ /\ ~more
         /\ remaining_blocks' = remaining_blocks
         /\ pc' = [pc EXCEPT ![p] = "check"]
  <2>1. rb \in Nat /\ R \in Nat
    BY Zenon, <1>0
  <2>2. rb < R => ~more
    BY SMTT(40), <2>1
  <2> QED
    BY Zenon, SMTT(20), <2>2 DEF SubmitCmd
<1>b. /\ pc \in [Procs -> {"idle", "map", "tag", "fill", "submit", "check",
                          "sleep", "reset"}]
      /\ remaining_blocks \in [Procs -> Nat]
  BY DEF IInv, TypeOK
<1>1. /\ \A q \in Procs : Live(q)' = Live(q)
      /\ \A q \in Procs : q # p => /\ pc'[q] = "idle" /\ pc[q] = "idle" /\ ~Live(q)
                                  /\ ~Waiting(q) /\ ~Waiting(q)'
      /\ pc[p] = "submit" /\ Live(p) /\ ~Waiting(p)
      /\ IF more THEN pc'[p] = "tag" ELSE pc'[p] = "check"
      /\ Waiting(p)' = ~more
  <2>1. pc[p] = "submit" /\ \A q \in Procs : q # p => pc[q] = "idle"
    BY Zenon, SMTT(40) DEF SubmitCmd, IInv, OneActive
  <2> QED
    BY <1>a, <1>b, <2>1 DEF Live, Waiting
<1>2. /\ Issued(p) = tag[p] /\ next_chario_tag = tag[p] + 1
      /\ Issued(p)' = tag[p] + 1 /\ tag[p] \in Tags
      /\ chario_cmds[tag[p]] = [fn |-> "chario_completion", ctx |-> p]
  BY <1>0, <1>1 DEF SubmitCmd, IInv, TagInv, Issued, queueVars
<1>3. rb = n - R * tag[p] /\ R * tag[p] \in Int
  <2>1. Full(p) = tag[p]
    BY Zenon, <1>1, <1>2 DEF Full
  <2>2. rb = n - R * Full(p)
    BY Zenon, <1>1 DEF IInv, CountInv
  <2>3. R * tag[p] \in Int
    BY SMTT(40), Zenon, <1>c, MulMono
  <2> QED
    BY Zenon, <2>1, <2>2, <2>3
<1>4. /\ c0 \in Commands /\ c0.owner = p /\ c0.tag = tag[p]
      /\ c0.first = n - rb /\ n - rb \in Nat
      /\ c0.last = IF more THEN n - rb + R - 1 ELSE n
      /\ inflight' = inflight \cup {c0}
  <2>1. n - rb \in Nat
    BY <1>0, <1>3, MulMono
  <2>2. n - rb + R - 1 \in Nat
    BY <1>0, <2>1
  <2> QED
    BY <1>0, <2>1, <2>2 DEF SubmitCmd, NextCommand, Commands
<1> HIDE DEF c0
<1>5. TypeOK'
  <2>1. inflight' \subseteq Commands
    BY <1>4 DEF IInv, TypeOK
  <2>2. remaining_blocks' \in [Procs -> Nat]
    BY SMTT(20), Zenon, <1>0, <1>a, <1>b
  <2>3. pc' \in [Procs -> {"idle", "map", "tag", "fill", "submit", "check",
                          "sleep", "reset"}]
    BY <1>a, <1>b
  <2> QED
    BY <2>1, <2>2, <2>3
       DEF IInv, TypeOK, SubmitCmd, queueVars, handlerVars, ghostVars
<1>6. c0 \notin inflight /\ \A c \in inflight : c.owner = p /\ c.tag < tag[p]
  <2>1. \A c \in inflight : c.owner \in Procs /\ Live(c.owner)
                           /\ c.tag < Issued(c.owner) /\ c.tag \in Nat
    BY Zenon, SMTT(20) DEF IInv, TypeOK, Commands, CommandInv
  <2>2. \A c \in inflight : c.owner = p
    BY <1>1, <2>1
  <2>3. \A c \in inflight : c.tag < tag[p] /\ c.tag \in Nat
    BY <1>2, <2>1, <2>2
  <2> QED
    BY <1>0, <1>4, <2>2, <2>3
<1>7. IsFiniteSet(inflight') /\ Cardinality(inflight') = Cardinality(inflight) + 1
  BY Zenon, <1>0, <1>4, <1>6 DEF FiniteSetFacts
<1>8. Pending' = Pending /\ cqes' = cqes /\ Counted(p)' = Counted(p)
  <2>1. cqes' = cqes /\ hpc' = hpc
    BY DEF SubmitCmd, handlerVars
  <2>2. Pending' = Pending
    BY <2>1 DEF Pending
  <2>3. Len(cqes)' = Len(cqes) /\ Cardinality(inflight)' = Cardinality(inflight) + 1
    BY <2>1, <1>7
  <2> QED
    <3> DEFINE t == tag[p]  b == Cardinality(inflight)  b1 == Cardinality(inflight)'
               l == Len(cqes)  d == Pending
    <3>1. t \in Nat /\ b \in Nat /\ l \in Nat /\ d \in {0, 1} /\ b1 = b + 1
      BY Zenon, <1>0, <1>c, <2>3
    <3>2. Counted(p) = t - b - l - d
      BY Zenon, <1>2 DEF Counted
    <3>3. Counted(p)' = (t + 1) - b1 - l - d
      BY Zenon, <1>2, <2>2, <2>3 DEF Counted
    <3>4. t - b - l - d = (t + 1) - b1 - l - d
      <4> HIDE DEF t, b, b1, l, d
      <4> QED
        BY <3>1
    <3> QED
      BY Zenon, <2>1, <2>2, <3>2, <3>3, <3>4
<1>9. OneActive' /\ LockInv' /\ IdleInv'
  BY SMTT(20), Zenon, <1>1 DEF SubmitCmd, handlerVars, IInv, OneActive, LockInv, IdleInv
<1>10. TagInv'
  <2>1. next_chario_tag' = next_chario_tag
    BY DEF SubmitCmd, queueVars
  <2>2. \A q \in Procs : pc'[q] \notin {"fill", "submit"}
    BY SMTT(40), Zenon, <1>1
  <2>3. next_chario_tag' > 0
    BY <1>0, <1>2, <2>1
  <2> QED
    BY SMTT(40), Zenon, <2>2, <2>3 DEF TagInv
<1>11. \A i \in DOMAIN cqes :
         /\ cqes[i] < tag[p] /\ cqes[i] \in Nat
         /\ chario_cmds[cqes[i]] = [fn |-> "chario_completion", ctx |-> p]
  <2>1. \A i \in DOMAIN cqes : cqes[i] \in Nat
    BY EntryType DEF IInv
  <2>2. \A i \in DOMAIN cqes :
          /\ cqes[i] < Issued(p)
          /\ chario_cmds[cqes[i]] = [fn |-> "chario_completion", ctx |-> p]
    BY Zenon, SMTT(20), <1>1 DEF IInv, EntryInv
  <2> QED
    BY <1>2, <2>1, <2>2
<1>12. CommandInv'
  <2> SUFFICES ASSUME NEW c \in inflight'
               PROVE  /\ Live(c.owner)'
                      /\ c.tag \in Tags
                      /\ c.tag < Issued(c.owner)'
                      /\ chario_cmds'[c.tag]
                           = [fn |-> "chario_completion", ctx |-> c.owner]
                      /\ \A d \in inflight' : d.tag = c.tag => d = c
                      /\ \A i \in DOMAIN cqes : cqes[i] # c.tag
    BY Zenon, SMTT(20), <1>8 DEF CommandInv
  <2>1. chario_cmds' = chario_cmds
    BY DEF SubmitCmd, queueVars
  <2>0. \A q \in Procs : q = p => Live(q)' /\ Issued(q)' = tag[p] + 1
    BY ZenonT(40), SMTT(20), <1>1, <1>2
  <2>2. CASE c = c0
    <3>1. \A d \in inflight' : d.tag = c.tag => d = c
      BY SMTT(20), Zenon, <1>c, <1>4, <1>6, <2>2
    <3>2. c.owner = p /\ c.tag = tag[p]
      BY <1>4, <2>2
    <3>3. Live(c.owner)' /\ c.tag < Issued(c.owner)'
      <4>1. Live(c.owner)' /\ Issued(c.owner)' = tag[p] + 1
        BY Zenon, SMTT(20), <2>0, <3>2
      <4>2. tag[p] < tag[p] + 1
        BY SMTT(40), Zenon, <1>c
      <4> QED
        BY Zenon, SMTT(20), <3>2, <4>1, <4>2
    <3>4. /\ c.tag \in Tags
          /\ chario_cmds'[c.tag] = [fn |-> "chario_completion", ctx |-> c.owner]
      BY <1>2, <2>1, <3>2
    <3>5. \A i \in DOMAIN cqes : cqes[i] # c.tag
      BY SMTT(40), Zenon, <1>0, <1>11, <3>2
    <3> QED
      BY <3>1, <3>3, <3>4, <3>5
  <2>3. CASE c \in inflight
    <3>1. c.owner = p /\ c.tag < tag[p] /\ c.tag \in Tags /\ c.tag \in Nat
      <4>1. c.tag \in Tags
        BY Zenon, SMTT(20), <2>3 DEF IInv, CommandInv
      <4> QED
        BY <1>6, <2>3, <4>1 DEF Tags
    <3>2. /\ chario_cmds[c.tag] = [fn |-> "chario_completion", ctx |-> c.owner]
          /\ \A d \in inflight : d.tag = c.tag => d = c
          /\ \A i \in DOMAIN cqes : cqes[i] # c.tag
      BY <2>3 DEF IInv, CommandInv
    <3>3. c0.tag # c.tag
      BY <1>0, <1>4, <3>1
    <3>4. Live(c.owner)' /\ c.tag < Issued(c.owner)'
      <4>1. Live(c.owner)' /\ Issued(c.owner)' = tag[p] + 1
        BY Zenon, SMTT(20), <2>0, <3>1
      <4>2. c.tag < tag[p] + 1
        BY SMTT(40), Zenon, <1>c, <3>1
      <4> QED
        BY Zenon, SMTT(20), <4>1, <4>2
    <3>5. \A d \in inflight' : d.tag = c.tag => d = c
      BY Zenon, SMTT(40), <1>4, <3>2, <3>3
    <3> QED
      BY Zenon, <2>1, <3>1, <3>2, <3>4, <3>5
  <2> QED
    BY SMTT(40), Zenon, <1>4, <2>2, <2>3
<1>17. EntryInv'
  <2>1. \A i \in DOMAIN cqes : cqes[i] < Issued(p)'
    BY SMTT(40), Zenon, <1>c, <1>2, <1>11
  <2>2. chario_cmds' = chario_cmds /\ Live(p)'
    BY SMTT(20), Zenon, <1>1 DEF SubmitCmd, queueVars
  <2> QED
    BY Zenon, SMTT(40), <1>8, <1>11, <2>1, <2>2 DEF IInv, EntryInv
<1>13. CountInv'
  <2>1. Full(p)' = IF more THEN tag[p] + 1 ELSE tag[p]
    <3>1. CASE more
      BY Zenon, SMTT(20), <1>1, <1>2, <3>1 DEF Full
    <3>2. CASE ~more
      <4>1. Full(p)' = Issued(p)' - 1
        BY Zenon, SMTT(20), <1>1, <3>2 DEF Full
      <4> QED
        <5>1. (tag[p] + 1) - 1 = tag[p]
          BY <1>c
        <5> QED
          BY Zenon, <1>2, <3>2, <4>1, <5>1
    <3> QED
      BY <3>1, <3>2
  <2>2. R * (tag[p] + 1) = R * tag[p] + R
    BY SMTT(30), ZenonT(30), <1>0, MulMono
  <2>3. remaining_blocks'[p] = n - R * Full(p)'
    <3>1. CASE more
      BY SMTT(40), Zenon, <1>0, <1>3, <2>1, <2>2, <3>1 DEF SubmitCmd, IInv, TypeOK
    <3>2. CASE ~more
      BY SMTT(40), Zenon, <1>0, <1>3, <2>1, <3>2 DEF SubmitCmd
    <3> QED
      BY <3>1, <3>2
  <2>4. Waiting(p)' => remaining_blocks'[p] < R
    BY Zenon, SMTT(20), <1>0, <1>1 DEF SubmitCmd
  <2> QED
    BY Zenon, SMTT(20), <1>1, <1>8, <2>3, <2>4 DEF SubmitCmd, IInv, CountInv
<1>14. BlockInv'
  <2>1. IssuedBlocks(p) = n - rb
    BY SMTT(40), Zenon, <1>1 DEF IssuedBlocks
  <2>2. IssuedBlocks(p)' = IF more THEN n - rb + R ELSE n + 1
    <3>1. nblocks' = nblocks
      BY DEF SubmitCmd
    <3>2. CASE more
      <4>1. IssuedBlocks(p)' = nblocks'[p] - remaining_blocks'[p]
        BY Zenon, SMTT(20), <1>1, <3>2 DEF IssuedBlocks
      <4>2. remaining_blocks'[p] = rb - R
        BY <1>a, <1>b, <3>2
      <4> QED
        BY <1>0, <3>1, <3>2, <4>1, <4>2
    <3>3. CASE ~more
      BY Zenon, SMTT(20), <1>0, <1>1, <3>1, <3>3 DEF IssuedBlocks
    <3> QED
      BY <3>2, <3>3
  <2>3. ASSUME NEW b \in Nat
        PROVE  b < IssuedBlocks(p)' <=> (b < IssuedBlocks(p) \/ b \in c0.first .. c0.last)
    <3>1. CASE more
      BY SMTT(40), Zenon, <1>0, <1>4, <2>1, <2>2, <3>1
    <3>2. CASE ~more
      BY SMTT(40), Zenon, <1>0, <1>4, <2>1, <2>2, <3>2
    <3> QED
      BY <3>1, <3>2
  <2>4. ASSUME NEW b \in Nat
        PROVE  b < IssuedBlocks(p)
                 <=> (b \in settled[p] \/ \E c \in inflight : b \in c.first .. c.last)
    BY SMTT(40), Zenon, <1>1 DEF IInv, BlockInv
  <2>5. settled' = settled
    BY DEF SubmitCmd, ghostVars
  <2>6. ASSUME NEW b \in Nat
        PROVE  b < IssuedBlocks(p)'
                 <=> (b \in settled'[p] \/ \E c \in inflight' : b \in c.first .. c.last)
    BY <1>4, <2>3, <2>4, <2>5
  <2> QED
    BY SMTT(40), Zenon, <1>1, <2>6 DEF BlockInv
<1>15. HandlerInv'
  BY SMTT(40), Zenon, ConstAssumption DEF SubmitCmd, handlerVars, IInv, LockInv, HandlerInv
<1>16. SleepInv'
  BY ZenonT(40), SMTT(20), <1>1 DEF SubmitCmd, handlerVars, IInv, SleepInv
<1> QED
  BY Zenon, <1>5, <1>7, <1>9, <1>10, <1>12, <1>13, <1>14, <1>15, <1>16, <1>17 DEF IInv

LEMMA PrepareToSleepStep ==
  ASSUME FiniteSetFacts, IInv, NEW p \in Procs, PrepareToSleep(p)
  PROVE  IInv'
<1>1. TypeOK'
  BY Zenon DEF IInv, TypeOK, PrepareToSleep, queueVars, handlerVars, ghostVars
<1>2. /\ \A q \in Procs : Live(q)' = Live(q) /\ Waiting(q)' = Waiting(q)
      /\ \A q \in Procs : q # p => pc'[q] = pc[q] /\ pc[q] = "idle"
      /\ pc[p] = "check" /\ pc'[p] = "sleep" /\ Waiting(p)
  BY DEF IInv, TypeOK, OneActive, PrepareToSleep, Live, Waiting
<1>3. \A q \in Procs : Issued(q)' = Issued(q)
  BY Zenon, SMTT(40), <1>2 DEF PrepareToSleep, Issued, queueVars
<1>4. \A q \in Procs : Full(q)' = Full(q) /\ Counted(q)' = Counted(q)
                      /\ IssuedBlocks(q)' = IssuedBlocks(q)
  BY Zenon, <1>2, <1>3 DEF PrepareToSleep, Full, Counted, IssuedBlocks, Pending, handlerVars
<1>5. ~NothingIssued
  BY Zenon, SMTT(40), <1>2 DEF NothingIssued
<1>6. IsFiniteSet(inflight)' /\ OneActive' /\ LockInv' /\ IdleInv'
  BY Zenon, <1>2 DEF PrepareToSleep, queueVars, handlerVars, IInv, OneActive, LockInv,
     IdleInv, Quiet
<1>7. TagInv'
  BY Zenon, SMTT(20), <1>2 DEF PrepareToSleep, queueVars, IInv, TagInv
<1>8. CommandInv' /\ EntryInv'
  <2>1. chario_cmds' = chario_cmds /\ inflight' = inflight /\ cqes' = cqes
    BY Zenon, SMTT(40) DEF PrepareToSleep, queueVars
  <2> QED
    BY ZenonT(40), SMTT(20), <1>2, <1>3, <2>1, QueueFrame
<1>9. CountInv' /\ BlockInv'
  BY ZenonT(30), SMTT(40), <1>2, <1>4 DEF PrepareToSleep, ghostVars, IInv, CountInv, BlockInv
<1>10. HandlerInv'
  BY <1>2, <1>5 DEF PrepareToSleep, handlerVars, IInv, HandlerInv
<1>11. SleepInv'
  <2>1. /\ task_state[p] = "RUNNING" /\ remaining[p] \in Int
        /\ \A q \in Procs : q # p => task_state'[q] = task_state[q]
        /\ task_state'[p] = IF remaining[p] >= 0 THEN "UNINTERRUPTIBLE"
                                                 ELSE "RUNNING"
    BY SMTT(40), Zenon, <1>2 DEF IInv, TypeOK, SleepInv, PrepareToSleep
  <2>2. remaining' = remaining /\ hpc' = hpc /\ hctx' = hctx
    BY DEF PrepareToSleep, handlerVars
  <2>3. CASE remaining[p] >= 0
    BY ZenonT(40), SMTT(20), <1>2, <2>1, <2>2, <2>3 DEF IInv, SleepInv
  <2>4. CASE remaining[p] < 0
    BY SMTT(40), Zenon, <1>2, <2>1, <2>2, <2>4 DEF IInv, SleepInv
  <2> QED
    BY SMTT(40), Zenon, <2>1, <2>3, <2>4
<1> QED
  BY <1>1, <1>6, <1>7, <1>8, <1>9, <1>10, <1>11 DEF IInv

LEMMA ScheduleStep ==
  ASSUME FiniteSetFacts, IInv, NEW p \in Procs, Schedule(p)
  PROVE  IInv'
<1>1. TypeOK'
  BY Zenon, SMTT(40) DEF IInv, TypeOK, Schedule, queueVars, handlerVars, ghostVars
<1>2. /\ \A q \in Procs : Live(q)' = Live(q) /\ Waiting(q)' = Waiting(q)
      /\ \A q \in Procs : q # p => pc'[q] = pc[q] /\ pc[q] = "idle"
      /\ pc[p] = "sleep" /\ pc'[p] = "reset" /\ Waiting(p)
  BY SMTT(40), Zenon DEF IInv, TypeOK, OneActive, Schedule, Live, Waiting
<1>3. \A q \in Procs : Issued(q)' = Issued(q)
  BY Zenon, SMTT(40), <1>2 DEF Schedule, Issued, queueVars
<1>4. \A q \in Procs : Full(q)' = Full(q) /\ Counted(q)' = Counted(q)
                      /\ IssuedBlocks(q)' = IssuedBlocks(q)
  BY SMTT(20), Zenon, <1>2, <1>3 DEF Schedule, Full, Counted, IssuedBlocks, Pending, handlerVars
<1>5. ~NothingIssued
  BY ZenonT(30), SMTT(20), <1>2 DEF NothingIssued
<1>6. IsFiniteSet(inflight)' /\ OneActive' /\ LockInv' /\ IdleInv'
  BY Zenon, SMTT(20), <1>2 DEF Schedule, queueVars, handlerVars, IInv, OneActive, LockInv,
     IdleInv, Quiet
<1>7. TagInv'
  BY Zenon, SMTT(20), <1>2 DEF Schedule, queueVars, IInv, TagInv
<1>8. CommandInv' /\ EntryInv'
  <2>1. chario_cmds' = chario_cmds /\ inflight' = inflight /\ cqes' = cqes
    BY Zenon, SMTT(20) DEF Schedule, queueVars
  <2> QED
    BY ZenonT(40), SMTT(20), <1>2, <1>3, <2>1, QueueFrame
<1>9. CountInv' /\ BlockInv'
  BY ZenonT(30), SMTT(20), <1>2, <1>4 DEF Schedule, ghostVars, IInv, CountInv, BlockInv
<1>10. HandlerInv'
  BY ZenonT(30), SMTT(20), <1>2, <1>5 DEF Schedule, handlerVars, IInv, HandlerInv
<1>11. SleepInv'
  <2>1. /\ task_state[p] = "RUNNING" /\ task_state' = task_state
        /\ remaining' = remaining /\ hpc' = hpc /\ hctx' = hctx
    BY DEF Schedule, handlerVars
  <2> QED
    BY Zenon, SMTT(20), <1>2, <2>1 DEF IInv, SleepInv
<1> QED
  BY <1>1, <1>6, <1>7, <1>8, <1>9, <1>10, <1>11 DEF IInv

LEMMA ReturnStep ==
  ASSUME FiniteSetFacts, IInv, NEW p \in Procs, Return(p)
  PROVE  IInv'
<1>1. TypeOK'
  BY Zenon DEF IInv, TypeOK, Return, handlerVars, ghostVars
<1>2. /\ \A q \in Procs : ~Live(q)' /\ ~Waiting(q)' /\ pc'[q] = "idle"
      /\ pc[p] = "reset" /\ Live(p)
  BY DEF IInv, TypeOK, OneActive, Return, Live, Waiting
<1>3. Quiet /\ Quiet' /\ next_chario_tag' = 0 /\ NothingIssued'
  <2>1. remaining[p] < 0
    BY Zenon, SMTT(40), <1>2 DEF IInv, SleepInv
  <2>2. Quiet
    BY <1>2, <2>1, NegativeIsDone
  <2> QED
    BY Zenon, <1>2, <2>2 DEF Quiet, Return, handlerVars, NothingIssued
<1>4. \A q \in Procs : task_state'[q] = "RUNNING"
  BY ZenonT(30), SMTT(20), <1>2 DEF IInv, TypeOK, SleepInv, Return, OneActive
<1>6. OneActive' /\ IdleInv' /\ LockInv'
  BY <1>2, <1>3 DEF Return, handlerVars, IInv, OneActive, IdleInv, LockInv
<1>7. TagInv' /\ BlockInv'
  BY Zenon, SMTT(40), <1>2 DEF TagInv, BlockInv
<1>8. CommandInv' /\ EntryInv' /\ IsFiniteSet(inflight)'
  BY <1>2, <1>3, QuietFrame
<1>9. CountInv'
  BY ZenonT(30), SMTT(20), <1>2 DEF Return, IInv, CountInv
<1>10. HandlerInv'
  <2>1. hpc' = hpc /\ hctx' = hctx /\ \A h \in Handlers : hpc[h] # "subtract"
    BY SMTT(20), Zenon, <1>3 DEF Return, handlerVars, Quiet
  <2> QED
    BY Zenon, SMTT(20), <1>3, <2>1 DEF IInv, HandlerInv
<1>11. SleepInv'
  BY Zenon, SMTT(20), <1>2, <1>4 DEF SleepInv
<1> QED
  BY Zenon, SMTT(40), <1>1, <1>6, <1>7, <1>8, <1>9, <1>10, <1>11 DEF IInv

-----------------------------------------------------------------------------
LEMMA CompleteStep ==
  ASSUME FiniteSetFacts, IInv, NEW c0 \in inflight, Complete(c0)
  PROVE  IInv'
<1> DEFINE p == c0.owner  t == c0.tag
<1>1. /\ p \in Procs /\ t \in Nat /\ t \in Tags /\ Live(p)
      /\ c0.first \in Nat /\ c0.last \in Nat /\ t < Issued(p)
      /\ chario_cmds[t] = [fn |-> "chario_completion", ctx |-> p]
      /\ \A d \in inflight : d.tag = t => d = c0
      /\ \A i \in DOMAIN cqes : cqes[i] # t
  BY CommandType DEF IInv, CommandInv
<1>2. /\ inflight' = inflight \ {c0} /\ cqes' = Append(cqes, t)
      /\ pc' = pc /\ nblocks' = nblocks /\ remaining_blocks' = remaining_blocks
      /\ tag' = tag /\ ret' = ret /\ task_state' = task_state
      /\ remaining' = remaining /\ next_chario_tag' = next_chario_tag
      /\ chario_cmds' = chario_cmds /\ q_lock' = q_lock /\ hpc' = hpc /\ hctx' = hctx
      /\ settled' = [settled EXCEPT ![p] = @ \cup (c0.first .. c0.last)]
  BY DEF Complete, queueVars, handlerVars
<1> HIDE DEF p, t
<1>3. cqes \in Seq(Tags) /\ settled \in [Procs -> SUBSET Nat]
      /\ failed \in [Procs -> BOOLEAN]
  BY Zenon DEF IInv, TypeOK
<1>4. TypeOK'
  <2>1. failed' \in [Procs -> BOOLEAN]
    BY Zenon, <1>1, <1>3 DEF Complete, p
  <2>2. settled' \in [Procs -> SUBSET Nat]
    <3> DEFINE new == settled[p] \cup (c0.first .. c0.last)
    <3>1. c0.first .. c0.last \subseteq Nat
      BY SMTT(30), ZenonT(30), <1>1
    <3>2. new \in SUBSET Nat
      BY <1>1, <1>3, <3>1
    <3>3. settled' = [settled EXCEPT ![p] = new]
      BY Zenon, <1>2
    <3> HIDE DEF new
    <3> QED
      BY Zenon, <1>1, <1>3, <3>2, <3>3
  <2>3. cqes' \in Seq(Tags) /\ inflight' \subseteq Commands
    BY SMTT(30), ZenonT(30), <1>1, <1>2, <1>3 DEF IInv, TypeOK
  <2> QED
    BY Zenon, <1>2, <2>1, <2>2, <2>3 DEF IInv, TypeOK
<1>5. /\ Len(cqes) \in Nat /\ DOMAIN cqes = 1 .. Len(cqes)
      /\ Len(cqes') = Len(cqes) + 1 /\ DOMAIN cqes' = 1 .. Len(cqes) + 1
      /\ cqes'[Len(cqes) + 1] = t
      /\ \A i \in DOMAIN cqes : cqes'[i] = cqes[i]
  <2>1. cqes \in Seq(Tags) /\ t \in Tags /\ cqes' = Append(cqes, t)
    BY Zenon, <1>1, <1>2, <1>3
  <2> QED
    BY <2>1
<1>6. /\ Cardinality(inflight) \in Nat /\ IsFiniteSet(inflight')
      /\ Cardinality(inflight') = Cardinality(inflight) - 1
  BY Zenon, <1>2 DEF FiniteSetFacts, IInv
<1>7. \A q \in Procs : /\ Live(q)' = Live(q) /\ Waiting(q)' = Waiting(q)
                       /\ Issued(q)' = Issued(q) /\ Full(q)' = Full(q)
                       /\ IssuedBlocks(q)' = IssuedBlocks(q)
  BY <1>2 DEF Live, Waiting, Issued, Full, IssuedBlocks
<1>8. Pending' = Pending /\ Pending \in Int
  BY <1>2 DEF Pending
<1>9. ASSUME NEW q \in Procs PROVE Counted(q)' = Counted(q)
  <2> DEFINE a == Issued(q)  b == Cardinality(inflight)
             l == Len(cqes)  d == Pending
             a1 == Issued(q)'  b1 == Cardinality(inflight)'
             l1 == Len(cqes)'  d1 == Pending'
  <2>1. /\ a \in Int /\ b \in Int /\ l \in Int /\ d \in Int
        /\ a1 = a /\ b1 = b - 1 /\ l1 = l + 1 /\ d1 = d
    <3>1. a \in Int
      BY DEF Issued, IInv, TypeOK
    <3> QED
      BY SMTT(30), ZenonT(30), <1>5, <1>6, <1>7, <1>8, <3>1
  <2>2. Counted(q) = a - b - l - d /\ Counted(q)' = a1 - b1 - l1 - d1
    BY DEF Counted
  <2> HIDE DEF a, b, l, d, a1, b1, l1, d1
  <2> QED
    BY <2>1, <2>2
<1>10. NothingIssued => inflight = {}
  BY Zenon DEF NothingIssued, Quiet
<1>11. OneActive' /\ LockInv' /\ TagInv'
  BY Zenon, <1>2, <1>7 DEF IInv, OneActive, LockInv, TagInv
<1>12. IdleInv'
  BY Zenon, <1>1, <1>7 DEF IdleInv
<1>13. CommandInv'
  <2> SUFFICES ASSUME NEW c \in inflight'
               PROVE  /\ Live(c.owner)'
                      /\ c.tag \in Tags
                      /\ c.tag < Issued(c.owner)'
                      /\ chario_cmds'[c.tag]
                           = [fn |-> "chario_completion", ctx |-> c.owner]
                      /\ \A d \in inflight' : d.tag = c.tag => d = c
                      /\ \A i \in DOMAIN cqes' : cqes'[i] # c.tag
    BY Zenon, SMTT(20) DEF CommandInv
  <2>1. c \in inflight /\ c # c0 /\ c.owner \in Procs
    BY Zenon, <1>2, CommandType DEF IInv
  <2>2. c.tag # t
    BY <1>1, <2>1
  <2>3. \A i \in DOMAIN cqes' : cqes'[i] # c.tag
    <3>1. \A i \in DOMAIN cqes : cqes[i] # c.tag
      BY Zenon, SMTT(20), <2>1 DEF IInv, CommandInv
    <3> QED
      BY <1>5, <2>2, <3>1
  <2> QED
    BY Zenon, <1>2, <1>7, <2>1, <2>3 DEF IInv, CommandInv
<1>14. EntryInv'
  <2>1. ASSUME NEW i \in DOMAIN cqes'
        PROVE  \E q \in Procs :
                 /\ Live(q)'
                 /\ cqes'[i] < Issued(q)'
                 /\ chario_cmds'[cqes'[i]] = [fn |-> "chario_completion", ctx |-> q]
    <3>1. CASE i = Len(cqes) + 1
      BY Zenon, <1>1, <1>2, <1>5, <1>7, <3>1
    <3>2. CASE i \in DOMAIN cqes
      <4>1. PICK q \in Procs :
              /\ Live(q)
              /\ cqes[i] < Issued(q)
              /\ chario_cmds[cqes[i]] = [fn |-> "chario_completion", ctx |-> q]
        BY Zenon, <3>2 DEF IInv, EntryInv
      <4> QED
        BY Zenon, <1>2, <1>5, <1>7, <3>2, <4>1
    <3>3. i = Len(cqes) + 1 \/ i \in DOMAIN cqes
      BY <1>5
    <3> QED
      BY Zenon, SMTT(20), <3>1, <3>2, <3>3
  <2>2. ASSUME NEW i \in DOMAIN cqes', NEW j \in DOMAIN cqes', cqes'[j] = cqes'[i]
        PROVE  i = j
    BY SMTT(30), ZenonT(30), <1>1, <1>5, <2>2 DEF IInv, EntryInv
  <2> QED
    BY <2>1, <2>2 DEF EntryInv
<1>15. CountInv'
  BY Zenon, <1>2, <1>7, <1>9 DEF IInv, CountInv
<1>16. BlockInv'
  <2>1. ASSUME NEW q \in Procs, Live(q) PROVE q = p
    BY Zenon, <1>1, <2>1 DEF IInv, OneActive, Live
  <2>2. settled'[p] = settled[p] \cup (c0.first .. c0.last)
    BY Zenon, <1>1, <1>2, <1>3
  <2>3. ASSUME NEW b \in Nat
        PROVE  b < IssuedBlocks(p)'
                 <=> (b \in settled'[p] \/ \E c \in inflight' : b \in c.first .. c.last)
    <3>1. b < IssuedBlocks(p)
                 <=> (b \in settled[p] \/ \E c \in inflight : b \in c.first .. c.last)
      BY <1>1 DEF IInv, BlockInv
    <3> QED
      BY Zenon, <1>1, <1>2, <1>7, <2>2, <3>1
  <2>4. ASSUME NEW q \in Procs, pc'[q] = "map" PROVE settled'[q] = {}
    <3>1. q # p
      BY Zenon, <1>1, <1>2, <2>4 DEF Live
    <3> QED
      BY Zenon, <1>2, <1>3, <2>4, <3>1 DEF IInv, BlockInv
  <2> QED
    BY Zenon, <1>7, <2>1, <2>3, <2>4 DEF BlockInv
<1>17. HandlerInv'
  BY Zenon, <1>2, <1>7, <1>10 DEF IInv, HandlerInv
<1>18. SleepInv'
  BY Zenon, <1>2 DEF IInv, SleepInv
<1> QED
  BY Zenon, <1>4, <1>6, <1>11, <1>12, <1>13, <1>14, <1>15, <1>16, <1>17, <1>18 DEF IInv

(* Taking and dropping q_lock touches nothing the other conjuncts mention. *)
LEMMA LockQueueStep ==
  ASSUME FiniteSetFacts, IInv, NEW h \in Handlers, LockQueue(h) \/ UnlockQueue(h)
  PROVE  IInv'
<1>1. /\ pc' = pc /\ nblocks' = nblocks /\ remaining_blocks' = remaining_blocks
      /\ tag' = tag /\ ret' = ret /\ task_state' = task_state
      /\ remaining' = remaining /\ next_chario_tag' = next_chario_tag
      /\ chario_cmds' = chario_cmds /\ inflight' = inflight /\ cqes' = cqes
      /\ hctx' = hctx /\ settled' = settled /\ failed' = failed
  BY DEF LockQueue, UnlockQueue, queueVars, ghostVars
<1>2. /\ hpc[h] \in {"idle", "loop"}
      /\ \/ hpc' = [hpc EXCEPT ![h] = "loop"] /\ q_lock' = h /\ q_lock = None
         \/ hpc' = [hpc EXCEPT ![h] = "idle"] /\ q_lock' = None /\ hpc[h] = "loop"
  BY DEF LockQueue, UnlockQueue
<1>3. hpc \in [Handlers -> {"idle", "loop", "subtract", "test", "wake"}]
  BY DEF IInv, TypeOK
<1>4. /\ hpc' \in [Handlers -> {"idle", "loop", "subtract", "test", "wake"}]
      /\ q_lock' \in Handlers \cup {None}
      /\ hpc'[h] \in {"idle", "loop"}
      /\ \A g \in Handlers : g # h => hpc'[g] = hpc[g]
  BY Zenon, <1>2, <1>3
<1>5. TypeOK'
  BY <1>1, <1>4 DEF IInv, TypeOK
<1>6. LockInv'
  <2>1. ASSUME NEW g \in Handlers, hpc'[g] # "idle" PROVE q_lock' = g
    <3>1. CASE g = h
      BY <1>2, <1>3, <2>1, <3>1
    <3>2. CASE g # h
      <4>1. q_lock = g
        BY Zenon, <1>4, <2>1, <3>2 DEF IInv, LockInv
      <4> QED
        BY <1>2, <3>2, <4>1, ConstAssumption DEF IInv, LockInv
    <3> QED
      BY <3>1, <3>2
  <2> QED
    BY <2>1 DEF LockInv
<1>7. /\ \A p \in Procs : /\ Live(p)' = Live(p) /\ Waiting(p)' = Waiting(p)
                          /\ Issued(p)' = Issued(p) /\ Full(p)' = Full(p)
                          /\ IssuedBlocks(p)' = IssuedBlocks(p)
      /\ \A g \in Handlers : \A s \in {"subtract", "test", "wake"} :
           (hpc'[g] = s) <=> (hpc[g] = s)
  <2>1. \A g \in Handlers : \A s \in {"subtract", "test", "wake"} :
          (hpc'[g] = s) <=> (hpc[g] = s)
    BY Zenon, <1>2, <1>4
  <2> QED
    BY Zenon, <1>1, <2>1 DEF Live, Waiting, Issued, Full, IssuedBlocks
<1>8. Pending' = Pending /\ Quiet' = Quiet
  BY Zenon, <1>1, <1>7 DEF Pending, Quiet
<1>9. \A p \in Procs : Counted(p)' = Counted(p)
  BY Zenon, <1>1, <1>7, <1>8 DEF Counted
<1>10. NothingIssued' <=> NothingIssued
  BY Zenon, <1>7, <1>8 DEF NothingIssued
<1>11. OneActive' /\ TagInv' /\ IdleInv'
  BY Zenon, SMTT(20), <1>1, <1>7, <1>8 DEF IInv, OneActive, TagInv, IdleInv
<1>12. CommandInv' /\ EntryInv'
  BY Zenon, <1>1, <1>7, QueueFrame
<1>14. CountInv' /\ BlockInv'
  <2>1. CountInv'
    BY Zenon, <1>1, <1>7, <1>9, CountFrame
  <2>2. BlockInv'
    BY Zenon, SMTT(40), <1>1, <1>7 DEF IInv, BlockInv
  <2> QED
    BY Zenon, <2>1, <2>2
<1>15. HandlerInv'
  BY Zenon, <1>1, <1>7, <1>10 DEF IInv, HandlerInv
<1>16. SleepInv'
  BY ZenonT(40), SMTT(20), <1>1, <1>7 DEF IInv, SleepInv
<1> QED
  BY <1>1, <1>5, <1>6, <1>11, <1>12, <1>14, <1>15, <1>16 DEF IInv

(* The handler that is not idle holds the lock, so that it is the only one.*)
LEMMA OneHandler ==
  ASSUME LockInv, NEW g \in Handlers, NEW h \in Handlers,
         hpc[g] # "idle", hpc[h] # "idle"
  PROVE  g = h
BY DEF LockInv

LEMMA FinishCmdStep ==
  ASSUME FiniteSetFacts, IInv, NEW h \in Handlers, FinishCmd(h)
  PROVE  IInv'
<1> DEFINE t == cqes[1]
<1>1. /\ cqes \in Seq(Tags) /\ cqes # << >> /\ Len(cqes) \in Nat /\ Len(cqes) > 0
      /\ DOMAIN cqes = 1 .. Len(cqes) /\ Head(cqes) = t
      /\ cqes' = Tail(cqes) /\ Len(cqes') = Len(cqes) - 1
      /\ cqes' \in Seq(Tags) /\ 1 \in DOMAIN cqes
      /\ DOMAIN cqes' = 1 .. Len(cqes) - 1
      /\ \A i \in DOMAIN cqes' : cqes'[i] = cqes[i + 1] /\ i + 1 \in DOMAIN cqes
  BY SMTT(30), ZenonT(30) DEF FinishCmd, IInv, TypeOK
<1>2. t \in Tags /\ t \in Nat
  BY <1>1, EntryType DEF IInv
<1>3. PICK p \in Procs : /\ Live(p) /\ t < Issued(p)
                        /\ chario_cmds[t] = [fn |-> "chario_completion", ctx |-> p]
  BY Zenon, SMTT(20), <1>1 DEF IInv, EntryInv
<1>4. /\ hpc[h] = "loop"
      /\ chario_cmds' = [chario_cmds EXCEPT ![t] =
                           [fn |-> "special_completion", ctx |-> None]]
      /\ hpc' = [hpc EXCEPT ![h] = "subtract"]
      /\ hctx' = [hctx EXCEPT ![h] = p]
  <2>1. chario_cmds[t].fn = "chario_completion" /\ chario_cmds[t].ctx = p
    <3> DEFINE r == [fn |-> "chario_completion", ctx |-> p]
    <3>1. r.fn = "chario_completion" /\ r.ctx = p
      BY Zenon
    <3>2. chario_cmds[t] = r
      BY Zenon, <1>3
    <3> HIDE DEF r, t
    <3> QED
      BY Zenon, <3>1, <3>2
  <2>2. Head(cqes) = t
    BY Zenon, <1>1
  <2> HIDE DEF t
  <2> QED
    BY Zenon, SMTT(20), <2>1, <2>2 DEF FinishCmd
<1>5. /\ pc' = pc /\ nblocks' = nblocks /\ remaining_blocks' = remaining_blocks
      /\ tag' = tag /\ ret' = ret /\ task_state' = task_state
      /\ remaining' = remaining /\ next_chario_tag' = next_chario_tag
      /\ inflight' = inflight /\ q_lock' = q_lock
      /\ settled' = settled /\ failed' = failed
  BY Zenon DEF FinishCmd, ghostVars
<1> HIDE DEF t
<1>6. /\ hpc \in [Handlers -> {"idle", "loop", "subtract", "test", "wake"}]
      /\ hctx \in [Handlers -> Procs \cup {None}]
      /\ chario_cmds \in [Tags -> [fn : {"NULL", "chario_completion",
                                         "special_completion"},
                                   ctx : Procs \cup {None}]]
  BY Zenon DEF IInv, TypeOK
<1>7. /\ hpc'[h] = "subtract" /\ hctx'[h] = p
      /\ \A g \in Handlers : g # h => hpc'[g] = hpc[g] /\ hctx'[g] = hctx[g]
      /\ \A u \in Tags : u # t => chario_cmds'[u] = chario_cmds[u]
  BY <1>4, <1>6
<1>8. \A g \in Handlers : g # h => hpc[g] = "idle"
  BY Zenon, <1>4, OneHandler DEF IInv
<1>9. TypeOK'
  <2>1. /\ hpc' \in [Handlers -> {"idle", "loop", "subtract", "test", "wake"}]
        /\ hctx' \in [Handlers -> Procs \cup {None}]
    BY <1>4, <1>6
  <2>2. chario_cmds' \in [Tags -> [fn : {"NULL", "chario_completion",
                                         "special_completion"},
                                   ctx : Procs \cup {None}]]
    BY Zenon, SMTT(20), <1>4, <1>6
  <2> QED
    BY Zenon, <1>1, <1>5, <2>1, <2>2 DEF IInv, TypeOK
<1>10. \A q \in Procs : /\ Live(q)' = Live(q) /\ Waiting(q)' = Waiting(q)
                        /\ Issued(q)' = Issued(q) /\ Full(q)' = Full(q)
                        /\ IssuedBlocks(q)' = IssuedBlocks(q)
  BY Zenon, <1>5 DEF Live, Waiting, Issued, Full, IssuedBlocks
<1>11. Pending = 0 /\ Pending' = 1
  BY <1>4, <1>7, <1>8 DEF Pending
<1>12. ASSUME NEW q \in Procs PROVE Counted(q)' = Counted(q)
  <2> DEFINE a == Issued(q)  b == Cardinality(inflight)
             l == Len(cqes)  d == Pending
             a1 == Issued(q)'  b1 == Cardinality(inflight)'
             l1 == Len(cqes)'  d1 == Pending'
  <2>1. /\ a \in Int /\ b \in Int /\ l \in Int
        /\ a1 = a /\ b1 = b /\ l1 = l - 1 /\ d = 0 /\ d1 = 1
    <3>1. a \in Int
      BY DEF Issued, IInv, TypeOK
    <3>2. b \in Int
      BY DEF FiniteSetFacts, IInv
    <3> QED
      BY <1>1, <1>5, <1>10, <1>11, <3>1, <3>2
  <2>2. Counted(q) = a - b - l - d /\ Counted(q)' = a1 - b1 - l1 - d1
    BY Zenon DEF Counted
  <2> HIDE DEF a, b, l, d, a1, b1, l1, d1
  <2> QED
    BY <2>1, <2>2
<1>13. OneActive' /\ IdleInv'
  BY Zenon, <1>3, <1>5, <1>10 DEF IInv, OneActive, IdleInv
<1>14. LockInv'
  BY SMTT(20), Zenon, <1>4, <1>5, <1>7, <1>8 DEF IInv, LockInv
<1>15. TagInv'
  <2>1. ASSUME NEW q \in Procs, pc[q] = "submit" PROVE tag[q] # t
    <3>1. q = p
      BY Zenon, <1>3, <2>1 DEF IInv, OneActive, Live
    <3>2. Issued(q) = tag[q] /\ tag[q] \in Nat
      BY Zenon, <2>1 DEF Issued, IInv, TypeOK
    <3>3. t \in Nat /\ t < tag[q]
      BY Zenon, <1>2, <1>3, <3>1, <3>2
    <3> QED
      BY <3>2, <3>3
  <2> QED
    BY ZenonT(30), SMTT(20), <1>5, <1>7, <1>10, <2>1 DEF IInv, TagInv
<1>16. CommandInv'
  <2> SUFFICES ASSUME NEW c \in inflight'
               PROVE  /\ Live(c.owner)'
                      /\ c.tag \in Tags
                      /\ c.tag < Issued(c.owner)'
                      /\ chario_cmds'[c.tag]
                           = [fn |-> "chario_completion", ctx |-> c.owner]
                      /\ \A d \in inflight' : d.tag = c.tag => d = c
                      /\ \A i \in DOMAIN cqes' : cqes'[i] # c.tag
    BY Zenon, SMTT(20) DEF CommandInv
  <2>1. c \in inflight /\ c.owner \in Procs
    BY SMTT(40), Zenon, <1>5, CommandType DEF IInv
  <2>2. /\ Live(c.owner)
        /\ c.tag \in Tags
        /\ c.tag < Issued(c.owner)
        /\ chario_cmds[c.tag] = [fn |-> "chario_completion", ctx |-> c.owner]
        /\ \A d \in inflight : d.tag = c.tag => d = c
        /\ \A i \in DOMAIN cqes : cqes[i] # c.tag
    BY Zenon, <2>1 DEF IInv, CommandInv
  <2>3. c.tag # t
    BY Zenon, SMTT(40), <1>1, <2>2 DEF t
  <2> QED
    BY Zenon, <1>1, <1>5, <1>7, <1>10, <2>1, <2>2, <2>3
<1>17. EntryInv'
  <2>1. ASSUME NEW i \in DOMAIN cqes'
        PROVE  \E q \in Procs :
                 /\ Live(q)'
                 /\ cqes'[i] < Issued(q)'
                 /\ chario_cmds'[cqes'[i]] = [fn |-> "chario_completion", ctx |-> q]
    <3>1. i + 1 \in DOMAIN cqes /\ cqes'[i] = cqes[i + 1] /\ i + 1 # 1
      BY <1>1
    <3>2. cqes[i + 1] # t
      BY <1>1, <3>1 DEF IInv, EntryInv, t
    <3>3. cqes[i + 1] \in Tags
      BY Zenon, <3>1, EntryType DEF IInv
    <3>4. PICK q \in Procs :
            /\ Live(q)
            /\ cqes[i + 1] < Issued(q)
            /\ chario_cmds[cqes[i + 1]] = [fn |-> "chario_completion", ctx |-> q]
      BY Zenon, SMTT(40), <3>1 DEF IInv, EntryInv
    <3> QED
      BY ZenonT(40), SMTT(20), <1>7, <1>10, <3>1, <3>2, <3>3, <3>4
  <2>2. ASSUME NEW i \in DOMAIN cqes', NEW j \in DOMAIN cqes', cqes'[j] = cqes'[i]
        PROVE  i = j
    <3>1. /\ i + 1 \in DOMAIN cqes /\ j + 1 \in DOMAIN cqes
          /\ cqes[j + 1] = cqes[i + 1]
      BY Zenon, <1>1, <2>2
    <3>2. i + 1 = j + 1
      BY Zenon, <3>1 DEF IInv, EntryInv
    <3> QED
      BY <1>1, <3>2
  <2> QED
    BY Zenon, SMTT(20), <2>1, <2>2 DEF EntryInv
<1>18. CountInv' /\ BlockInv'
  BY Zenon, <1>5, <1>10, <1>12 DEF IInv, CountInv, BlockInv
<1>19. HandlerInv'
  BY Zenon, SMTT(20), <1>3, <1>7, <1>8, <1>10 DEF HandlerInv
<1>20. SleepInv'
  <2>1. \A g \in Handlers : hpc[g] \notin {"test", "wake"}
    BY Zenon, <1>4, <1>8
  <2> QED
    BY Zenon, SMTT(20), <1>5, <2>1 DEF IInv, SleepInv
<1> QED
  BY <1>5, <1>9, <1>13, <1>14, <1>15, <1>16, <1>17, <1>18, <1>19, <1>20 DEF IInv

LEMMA SubtractStep ==
  ASSUME FiniteSetFacts, IInv, NEW h \in Handlers, Subtract(h)
  PROVE  IInv'
<1> DEFINE p == hctx[h]
<1>1. /\ hpc[h] = "subtract"
      /\ hpc' = [hpc EXCEPT ![h] = "test"]
      /\ remaining' = [remaining EXCEPT ![p] = @ - R]
      /\ pc' = pc /\ nblocks' = nblocks /\ remaining_blocks' = remaining_blocks
      /\ tag' = tag /\ ret' = ret /\ task_state' = task_state
      /\ next_chario_tag' = next_chario_tag /\ chario_cmds' = chario_cmds
      /\ inflight' = inflight /\ cqes' = cqes
      /\ q_lock' = q_lock /\ hctx' = hctx
      /\ settled' = settled /\ failed' = failed
  BY Zenon DEF Subtract, queueVars, ghostVars
<1>2. p \in Procs /\ Live(p)
  BY Zenon, <1>1 DEF IInv, HandlerInv
<1>3. /\ hpc \in [Handlers -> {"idle", "loop", "subtract", "test", "wake"}]
      /\ remaining \in [Procs -> Int] /\ R \in Nat /\ R > 0
  BY ConstAssumption DEF IInv, TypeOK, R
<1>4. \A g \in Handlers : g # h => hpc[g] = "idle"
  BY Zenon, <1>1, OneHandler DEF IInv
<1>5. /\ hpc'[h] = "test" /\ \A g \in Handlers : g # h => hpc'[g] = "idle"
      /\ remaining'[p] = remaining[p] - R
      /\ \A q \in Procs : q # p => remaining'[q] = remaining[q]
  BY Zenon, <1>1, <1>2, <1>3, <1>4
<1>6. \A q \in Procs : Live(q) => q = p
  BY Zenon, <1>2 DEF IInv, OneActive, Live
<1>7. TypeOK'
  <2>1. /\ hpc' \in [Handlers -> {"idle", "loop", "subtract", "test", "wake"}]
        /\ remaining' \in [Procs -> Int]
    BY <1>1, <1>2, <1>3
  <2> QED
    BY SMTT(20), <1>1, <2>1 DEF IInv, TypeOK
<1>8. \A q \in Procs : /\ Live(q)' = Live(q) /\ Waiting(q)' = Waiting(q)
                       /\ Issued(q)' = Issued(q) /\ Full(q)' = Full(q)
                       /\ IssuedBlocks(q)' = IssuedBlocks(q)
  BY <1>1 DEF Live, Waiting, Issued, Full, IssuedBlocks
<1>9. Pending = 1 /\ Pending' = 0
  BY <1>1, <1>5 DEF Pending
<1>10. ASSUME NEW q \in Procs
       PROVE  Counted(q)' = Counted(q) + 1 /\ Counted(q) \in Int
  <2> DEFINE a == Issued(q)  b == Cardinality(inflight)
             l == Len(cqes)  d == Pending
             a1 == Issued(q)'  b1 == Cardinality(inflight)'
             l1 == Len(cqes)'  d1 == Pending'
  <2>1. /\ a \in Int /\ b \in Int /\ l \in Int
        /\ a1 = a /\ b1 = b /\ l1 = l /\ d = 1 /\ d1 = 0
    <3>1. a \in Int
      BY DEF Issued, IInv, TypeOK
    <3>2. b \in Int
      BY DEF FiniteSetFacts, IInv
    <3>3. l \in Int
      BY DEF IInv, TypeOK
    <3> QED
      BY Zenon, <1>1, <1>8, <1>9, <3>1, <3>2, <3>3
  <2>2. Counted(q) = a - b - l - d /\ Counted(q)' = a1 - b1 - l1 - d1
    BY SMTT(20), Zenon DEF Counted
  <2> HIDE DEF a, b, l, d, a1, b1, l1, d1
  <2> QED
    BY <2>1, <2>2
<1> HIDE DEF p
<1>11. OneActive' /\ IdleInv' /\ TagInv'
  BY Zenon, SMTT(20), <1>1, <1>2, <1>8 DEF IInv, OneActive, IdleInv, TagInv
<1>12. LockInv'
  BY Zenon, SMTT(20), <1>1, <1>5 DEF IInv, LockInv
<1>13. CommandInv' /\ EntryInv'
  BY <1>1, <1>8, QueueFrame
<1>15. CountInv'
  <2> SUFFICES ASSUME NEW q \in Procs
               PROVE  /\ nblocks'[q] \in NBlocks \cup {0}
                      /\ Live(q)' =>
                           /\ remaining'[q] = nblocks'[q] - R * Counted(q)'
                           /\ remaining_blocks'[q] = nblocks'[q] - R * Full(q)'
                           /\ Waiting(q)' => remaining_blocks'[q] < R
    BY Zenon DEF CountInv
  <2>1. nblocks'[q] \in NBlocks \cup {0}
    BY SMTT(20), Zenon, <1>1 DEF IInv, CountInv
  <2>2. CASE Live(q)
    <3>1. /\ remaining[q] = nblocks[q] - R * Counted(q) /\ nblocks[q] \in Int
          /\ remaining_blocks[q] = nblocks[q] - R * Full(q)
          /\ Waiting(q) => remaining_blocks[q] < R
      BY SMTT(30), ZenonT(30), <2>2 DEF IInv, CountInv, TypeOK
    <3>2. R * (Counted(q) + 1) = R * Counted(q) + R /\ R * Counted(q) \in Int
      BY Zenon, SMTT(40), <1>10, MulMono
    <3>3. remaining'[q] = remaining[q] - R
      BY Zenon, <1>5, <1>6, <2>2
    <3>4. remaining'[q] = nblocks[q] - R * Counted(q)'
      <4> DEFINE n == nblocks[q]    c == Counted(q)    c1 == Counted(q)'
                 left == remaining[q]    left1 == remaining'[q]
      <4>1. n \in Int /\ c \in Int /\ left = n - R * c
        BY Zenon, <1>10, <3>1
      <4>2. c1 = c + 1 /\ left1 = left - R
        BY Zenon, <1>10, <3>3
      <4> HIDE DEF n, c, c1, left, left1
      <4>3. left1 = n - R * c1
        BY <4>1, <4>2, OneMoreCounted
      <4> QED
        BY Zenon, <4>3 DEF n, c1, left1
    <3> QED
      BY ZenonT(40), SMTT(20), <1>1, <1>8, <2>1, <3>1, <3>4
  <2> QED
    BY Zenon, SMTT(20), <1>8, <2>1, <2>2
<1>16. BlockInv'
  BY Zenon, SMTT(20), <1>1, <1>8 DEF IInv, BlockInv
<1>17. HandlerInv'
  BY Zenon, SMTT(40), <1>1, <1>2, <1>5, <1>8 DEF HandlerInv, p
<1>18. SleepInv'
  <2>1. ASSUME NEW q \in Procs, task_state'[q] = "UNINTERRUPTIBLE"
        PROVE  /\ pc'[q] = "sleep"
               /\ \E g \in Handlers : hpc'[g] \in {"test", "wake"} /\ hctx'[g] = q
    <3>1. pc[q] = "sleep"
      BY Zenon, <1>1, <2>1 DEF IInv, SleepInv
    <3>2. q = p
      BY Zenon, <1>6, <3>1 DEF Live
    <3> QED
      BY ZenonT(30), <1>1, <1>5, <3>1, <3>2 DEF p
  <2>2. ASSUME NEW q \in Procs, remaining[q] < 0 PROVE remaining'[q] < 0
    <3>1. CASE q = p
      BY <1>2, <1>3, <1>5, <2>2, <3>1
    <3> QED
      BY <1>5, <2>2, <3>1
  <2> QED
    BY Zenon, <1>1, <2>1, <2>2 DEF IInv, SleepInv
<1> QED
  BY Zenon, <1>1, <1>7, <1>11, <1>12, <1>13, <1>15, <1>16, <1>17, <1>18 DEF IInv

LEMMA TestRemainingStep ==
  ASSUME FiniteSetFacts, IInv, NEW h \in Handlers, TestRemaining(h)
  PROVE  IInv'
<1> DEFINE p == hctx[h]
<1>1. /\ hpc[h] = "test"
      /\ pc' = pc /\ nblocks' = nblocks /\ remaining_blocks' = remaining_blocks
      /\ tag' = tag /\ ret' = ret /\ task_state' = task_state
      /\ remaining' = remaining
      /\ next_chario_tag' = next_chario_tag /\ chario_cmds' = chario_cmds
      /\ inflight' = inflight /\ cqes' = cqes /\ q_lock' = q_lock
      /\ settled' = settled /\ failed' = failed
  BY Zenon DEF TestRemaining, queueVars, ghostVars
<1>2. \/ /\ Live(p) => remaining[p] < 0
         /\ hpc' = [hpc EXCEPT ![h] = "wake"] /\ hctx' = hctx
      \/ /\ Live(p) => remaining[p] >= 0
         /\ hpc' = [hpc EXCEPT ![h] = "loop"]
         /\ hctx' = [hctx EXCEPT ![h] = None]
  BY Zenon DEF TestRemaining
<1>3. p \in Procs /\ (NothingIssued \/ Live(p))
  BY Zenon, <1>1 DEF IInv, HandlerInv
<1>4. /\ hpc \in [Handlers -> {"idle", "loop", "subtract", "test", "wake"}]
      /\ hctx \in [Handlers -> Procs \cup {None}]
      /\ remaining \in [Procs -> Int]
  BY DEF IInv, TypeOK
<1>5. \A g \in Handlers : g # h => hpc[g] = "idle"
  BY Zenon, <1>1, OneHandler DEF IInv
<1> HIDE DEF p
<1>6. /\ hpc' \in [Handlers -> {"idle", "loop", "subtract", "test", "wake"}]
      /\ hctx' \in [Handlers -> Procs \cup {None}]
      /\ hpc'[h] \in {"wake", "loop"}
      /\ hpc'[h] = "wake" => hctx'[h] = p /\ (Live(p) => remaining[p] < 0)
      /\ hpc'[h] = "loop" => (Live(p) => remaining[p] >= 0)
      /\ \A g \in Handlers : g # h => hpc'[g] = "idle"
  BY Zenon, SMTT(40), <1>2, <1>4, <1>5 DEF p
<1>7. TypeOK'
  BY Zenon, <1>1, <1>6 DEF IInv, TypeOK
<1>8. \A q \in Procs : /\ Live(q)' = Live(q) /\ Waiting(q)' = Waiting(q)
                       /\ Issued(q)' = Issued(q) /\ Full(q)' = Full(q)
                       /\ IssuedBlocks(q)' = IssuedBlocks(q)
  BY Zenon, <1>1 DEF Live, Waiting, Issued, Full, IssuedBlocks
<1>9. \A g \in Handlers : hpc[g] # "subtract" /\ hpc'[g] # "subtract"
  BY Zenon, SMTT(40), <1>1, <1>5, <1>6
<1>10. Pending' = Pending /\ Quiet' = Quiet
  BY Zenon, <1>1, <1>9 DEF Pending, Quiet
<1>11. \A q \in Procs : Counted(q)' = Counted(q)
  BY <1>1, <1>8, <1>10 DEF Counted
<1>12. NothingIssued' <=> NothingIssued
  BY Zenon, SMTT(40), <1>8, <1>10 DEF NothingIssued
<1>13. OneActive' /\ TagInv' /\ IdleInv'
  BY Zenon, <1>1, <1>8, <1>10 DEF IInv, OneActive, TagInv, IdleInv
<1>14. LockInv'
  BY Zenon, SMTT(20), <1>1, <1>6 DEF IInv, LockInv
<1>15. CommandInv' /\ EntryInv'
  BY <1>1, <1>8, QueueFrame
<1>17. CountInv' /\ BlockInv'
  <2>1. CountInv'
    BY Zenon, SMTT(40), <1>1, <1>8, <1>11, CountFrame
  <2>2. BlockInv'
    BY Zenon, <1>1, <1>8 DEF IInv, BlockInv
  <2> QED
    BY Zenon, <2>1, <2>2
<1>18. HandlerInv'
  BY Zenon, SMTT(40), <1>1, <1>3, <1>6, <1>8, <1>12 DEF HandlerInv
<1>19. SleepInv'
  <2>1. ASSUME NEW q \in Procs, task_state[q] = "UNINTERRUPTIBLE"
        PROVE  \/ remaining[q] >= 0
               \/ \E g \in Handlers : hpc'[g] \in {"test", "wake"} /\ hctx'[g] = q
    <3>1. pc[q] = "sleep" /\ Live(q) /\ Waiting(q)
      BY <2>1 DEF IInv, SleepInv, Live, Waiting
    <3>2. Live(p)
      BY <1>3, <3>1 DEF NothingIssued
    <3>3. q = p
      BY Zenon, <1>3, <3>1, <3>2 DEF IInv, OneActive, Live
    <3> QED
      BY Zenon, <1>6, <3>2, <3>3
  <2> QED
    BY Zenon, <1>1, <2>1 DEF IInv, SleepInv
<1> QED
  BY Zenon, <1>1, <1>7, <1>13, <1>14, <1>15, <1>17, <1>18, <1>19 DEF IInv

LEMMA WakeUpStep ==
  ASSUME FiniteSetFacts, IInv, NEW h \in Handlers, WakeUp(h)
  PROVE  IInv'
<1> DEFINE p == hctx[h]
<1>1. /\ hpc[h] = "wake"
      /\ hpc' = [hpc EXCEPT ![h] = "loop"] /\ hctx' = [hctx EXCEPT ![h] = None]
      /\ pc' = pc /\ nblocks' = nblocks /\ remaining_blocks' = remaining_blocks
      /\ tag' = tag /\ ret' = ret /\ remaining' = remaining
      /\ next_chario_tag' = next_chario_tag /\ chario_cmds' = chario_cmds
      /\ inflight' = inflight /\ cqes' = cqes /\ q_lock' = q_lock
      /\ settled' = settled /\ failed' = failed
  BY DEF WakeUp, queueVars, ghostVars
<1>2. PICK w \in Procs : /\ Live(p) => w = p
                        /\ task_state' = [task_state EXCEPT ![w] = "RUNNING"]
  BY Zenon, SMTT(20) DEF WakeUp
<1>3. p \in Procs /\ (NothingIssued \/ (Live(p) /\ remaining[p] < 0))
  BY Zenon, <1>1 DEF IInv, HandlerInv
<1>4. /\ hpc \in [Handlers -> {"idle", "loop", "subtract", "test", "wake"}]
      /\ hctx \in [Handlers -> Procs \cup {None}]
      /\ task_state \in [Procs -> {"RUNNING", "UNINTERRUPTIBLE"}]
      /\ remaining \in [Procs -> Int]
  BY Zenon DEF IInv, TypeOK
<1>5. \A g \in Handlers : g # h => hpc[g] = "idle"
  BY Zenon, <1>1, OneHandler DEF IInv
<1>6. \A g \in Handlers : g # h => hctx'[g] = hctx[g]
  BY Zenon, <1>1, <1>4
<1> HIDE DEF p
<1>7. /\ hpc' \in [Handlers -> {"idle", "loop", "subtract", "test", "wake"}]
      /\ hctx' \in [Handlers -> Procs \cup {None}]
      /\ task_state' \in [Procs -> {"RUNNING", "UNINTERRUPTIBLE"}]
      /\ \A g \in Handlers : hpc'[g] \in {"idle", "loop"}
  BY Zenon, SMTT(40), <1>1, <1>2, <1>4, <1>5
<1>8. TypeOK'
  BY Zenon, SMTT(20), <1>1, <1>7 DEF IInv, TypeOK
<1>9. \A q \in Procs : /\ Live(q)' = Live(q) /\ Waiting(q)' = Waiting(q)
                       /\ Issued(q)' = Issued(q) /\ Full(q)' = Full(q)
                       /\ IssuedBlocks(q)' = IssuedBlocks(q)
  BY Zenon, SMTT(20), <1>1 DEF Live, Waiting, Issued, Full, IssuedBlocks
<1>10. \A g \in Handlers : hpc[g] # "subtract" /\ hpc'[g] # "subtract"
  BY Zenon, <1>1, <1>5, <1>7
<1>11. Pending' = Pending /\ Quiet' = Quiet
  BY Zenon, <1>1, <1>10 DEF Pending, Quiet
<1>12. \A q \in Procs : Counted(q)' = Counted(q)
  BY Zenon, SMTT(40), <1>1, <1>9, <1>11 DEF Counted
<1>13. OneActive' /\ TagInv' /\ IdleInv'
  BY Zenon, <1>1, <1>9, <1>11 DEF IInv, OneActive, TagInv, IdleInv
<1>14. LockInv'
  <2>1. \A g \in Handlers : hpc'[g] # "idle" => g = h
    BY Zenon, SMTT(20), <1>1, <1>4, <1>5
  <2> QED
    BY Zenon, <1>1, <2>1 DEF IInv, LockInv
<1>15. CommandInv' /\ EntryInv'
  BY <1>1, <1>9, QueueFrame
<1>17. CountInv' /\ BlockInv'
  <2>1. CountInv'
    BY Zenon, SMTT(40), <1>1, <1>9, <1>12, CountFrame
  <2>2. BlockInv'
    BY ZenonT(30), <1>1, <1>9 DEF IInv, BlockInv
  <2> QED
    BY Zenon, <2>1, <2>2
<1>18. HandlerInv'
  BY Zenon, SMTT(20), <1>7 DEF HandlerInv
<1>19. SleepInv'
  <2>1. ASSUME NEW q \in Procs, pc[q] = "sleep"
        PROVE  q = p /\ w = p /\ remaining[p] < 0
    <3>1. Live(q) /\ Waiting(q)
      BY <2>1 DEF Live, Waiting
    <3>2. Live(p) /\ remaining[p] < 0
      BY SMTT(20), <1>3, <3>1 DEF NothingIssued
    <3> QED
      BY Zenon, SMTT(20), <1>2, <1>3, <3>1, <3>2 DEF IInv, OneActive, Live
  <2>2. ASSUME NEW q \in Procs, task_state'[q] = "UNINTERRUPTIBLE" PROVE FALSE
    <3>1. task_state[q] = "UNINTERRUPTIBLE" /\ q # w
      BY Zenon, <1>2, <1>4, <2>2
    <3>2. pc[q] = "sleep"
      BY Zenon, <3>1 DEF IInv, SleepInv
    <3> QED
      BY <2>1, <3>1, <3>2
  <2>3. ASSUME NEW q \in Procs, pc'[q] = "sleep" PROVE remaining'[q] < 0
    BY Zenon, SMTT(20), <1>1, <2>1, <2>3
  <2>4. ASSUME NEW q \in Procs, pc'[q] = "reset" PROVE remaining'[q] < 0
    BY Zenon, <1>1, <2>4 DEF IInv, SleepInv
  <2> QED
    BY SMTT(20), Zenon, <2>2, <2>3, <2>4 DEF SleepInv
<1> QED
  BY Zenon, <1>1, <1>8, <1>13, <1>14, <1>15, <1>17, <1>18, <1>19 DEF IInv

-----------------------------------------------------------------------------
(* A step that changes no variable.                                        *)
LEMMA StutterStep ==
  ASSUME FiniteSetFacts, IInv, UNCHANGED vars
  PROVE  IInv'
<1>1. /\ pc' = pc /\ nblocks' = nblocks /\ remaining_blocks' = remaining_blocks
      /\ tag' = tag /\ ret' = ret /\ task_state' = task_state
      /\ remaining' = remaining /\ next_chario_tag' = next_chario_tag
      /\ chario_cmds' = chario_cmds /\ q_lock' = q_lock
      /\ inflight' = inflight /\ cqes' = cqes /\ hpc' = hpc /\ hctx' = hctx
      /\ settled' = settled /\ failed' = failed
  BY Zenon DEF vars
<1>2. /\ \A p \in Procs : /\ Live(p)' = Live(p) /\ Waiting(p)' = Waiting(p)
                          /\ Issued(p)' = Issued(p) /\ Full(p)' = Full(p)
                          /\ IssuedBlocks(p)' = IssuedBlocks(p)
      /\ Pending' = Pending /\ Quiet' = Quiet
  BY Zenon, <1>1 DEF Live, Waiting, Issued, Full, IssuedBlocks, Pending, Quiet
<1>3. \A p \in Procs : Counted(p)' = Counted(p)
  BY Zenon, <1>1, <1>2 DEF Counted
<1>4. NothingIssued' <=> NothingIssued
  BY Zenon, <1>2 DEF NothingIssued
<1>5. TypeOK' /\ OneActive' /\ LockInv' /\ IdleInv' /\ TagInv'
  BY Zenon, <1>1, <1>2 DEF IInv, TypeOK, OneActive, LockInv, IdleInv, TagInv
<1>6. CommandInv' /\ EntryInv' /\ CountInv'
  BY Zenon, <1>1, <1>2, <1>3, QueueFrame, CountFrame
<1>7. BlockInv'
  BY Zenon, <1>1, <1>2 DEF IInv, BlockInv
<1>8. HandlerInv' /\ SleepInv'
  BY Zenon, <1>1, <1>2, <1>4 DEF IInv, HandlerInv, SleepInv
<1> QED
  BY Zenon, <1>1, <1>5, <1>6, <1>7, <1>8 DEF IInv

-----------------------------------------------------------------------------
(* The invariant is inductive when callers do not overlap their transfers. *)
LEMMA NextStep ==
  ASSUME FiniteSetFacts, Serialised, IInv, [Next]_vars
  PROVE  IInv'
<1>1. ASSUME NEW p \in Procs, Submitter(p) PROVE IInv'
  BY <1>1, StartStep, MapFailsStep, InitCmdinfoStep, ReadTagStep, FillCmdStep,
     SubmitCmdStep, PrepareToSleepStep, ScheduleStep, ReturnStep DEF Submitter
<1>2. ASSUME NEW c \in inflight, Complete(c) PROVE IInv'
  BY <1>2, CompleteStep
<1>3. ASSUME NEW h \in Handlers, Handler(h) PROVE IInv'
  BY <1>3, LockQueueStep, FinishCmdStep, SubtractStep, TestRemainingStep,
     WakeUpStep DEF Handler
<1>4. CASE UNCHANGED vars
  BY Zenon, <1>4, StutterStep
<1> QED
  BY Zenon, <1>1, <1>2, <1>3, <1>4 DEF Next

-----------------------------------------------------------------------------
(* Finite sets.                                                            *)

Fin == INSTANCE FiniteSetTheorems

LEMMA Facts == FiniteSetFacts
<1>1. \A S : IsFiniteSet(S) <=> Fin!IsFiniteSet(S)
  BY Zenon DEF IsFiniteSet, Fin!IsFiniteSet
<1>2. \A S : Cardinality(S) = Fin!Cardinality(S)
  BY DEF Cardinality, Fin!Cardinality
<1>3. IsFiniteSet({}) /\ Cardinality({}) = 0
  BY Zenon, <1>1, <1>2, Fin!FS_EmptySet
<1>4. ASSUME NEW S, IsFiniteSet(S)
      PROVE  /\ Cardinality(S) \in Nat
             /\ Cardinality(S) = 0 => S = {}
  BY Zenon, <1>1, <1>2, <1>4, Fin!FS_CardinalityType, Fin!FS_EmptySet
<1>5. ASSUME NEW S, IsFiniteSet(S), NEW x, x \notin S
      PROVE  /\ IsFiniteSet(S \cup {x})
             /\ Cardinality(S \cup {x}) = Cardinality(S) + 1
  BY Zenon, <1>1, <1>2, <1>5, Fin!FS_AddElement
<1>6. ASSUME NEW S, IsFiniteSet(S), NEW x \in S
      PROVE  /\ IsFiniteSet(S \ {x})
             /\ Cardinality(S \ {x}) = Cardinality(S) - 1
  BY <1>1, <1>2, <1>6, Fin!FS_RemoveElement
<1> QED
  BY Zenon, <1>3, <1>4, <1>5, <1>6 DEF FiniteSetFacts

LEMMA Inductive == Serialised => (Spec => []IInv)
<1> SUFFICES ASSUME Serialised PROVE Spec => []IInv
  OBVIOUS
<1>1. Init => IInv
  BY InitIInv, Facts
<1>2. IInv /\ [Next]_vars => IInv'
  BY NextStep, Facts
<1> QED
  BY <1>1, <1>2, PTL DEF Spec

(* The variables of nvme_submit_io_chario, of the queue and of the         *)
(* handlers keep their types: in particular every entry on the completion  *)
(* queue carries a tag of chario_cmds.                                     *)
THEOREM TypeCorrect == Serialised => (Spec => []TypeOK)
<1>1. IInv => TypeOK
  BY DEF IInv
<1> QED
  BY <1>1, Inductive, PTL

(* nvme_submit_io_chario unmaps the pages and frees the PRP lists only     *)
(* when the controller is done with every block of the transfer, although  *)
(* chario_completion subtracts REQ_MAX_BLOCKS for a shorter last command   *)
(* and reads remaining again after it has dropped cmdinfo->lock.           *)
THEOREM NoEarlyReturnHolds == Serialised => (Spec => []NoEarlyReturn)
<1>1. IInv => NoEarlyReturn
  <2> SUFFICES ASSUME IInv, NEW p \in Procs, pc[p] = "reset"
               PROVE  settled[p] = 0 .. nblocks[p]
    BY Zenon DEF NoEarlyReturn
  <2>1. Live(p) /\ Waiting(p) /\ remaining[p] < 0
    BY Zenon DEF IInv, SleepInv, Live, Waiting
  <2>2. inflight = {}
    BY Zenon, <2>1, NegativeIsDone, Facts DEF Quiet
  <2>3. IssuedBlocks(p) = nblocks[p] + 1 /\ nblocks[p] \in Nat
    BY Zenon, <2>1 DEF IssuedBlocks, IInv, TypeOK
  <2>4. \A b \in Nat : b < IssuedBlocks(p) <=> b \in settled[p]
    BY Zenon, <2>1, <2>2 DEF IInv, BlockInv
  <2>5. settled[p] \subseteq Nat
    BY Zenon DEF IInv, TypeOK
  <2>6. \A b \in Nat : b \in settled[p] <=> b \in 0 .. nblocks[p]
    BY SMTT(30), ZenonT(30), <2>3, <2>4
  <2>7. 0 .. nblocks[p] \subseteq Nat
    BY SMTT(20), <2>3
  <2> QED
    BY Zenon, SMTT(20), <2>5, <2>6, <2>7
<1> QED
  BY <1>1, Inductive, PTL

(* A completion is never counted for another transfer and never dropped as *)
(* a duplicate: nvme_finish_cmd finds under every tag on the queue the     *)
(* function and context that nvme_submit_chario_cmd stored for it.         *)
THEOREM TagOwnershipHolds == Serialised => (Spec => []TagOwnership)
<1>1. IInv => TagOwnership
  <2> SUFFICES ASSUME IInv PROVE TagOwnership
    BY Zenon
  <2>1. ASSUME NEW i \in DOMAIN cqes
        PROVE  chario_cmds[cqes[i]].fn = "chario_completion"
    <3>1. PICK p \in Procs :
            chario_cmds[cqes[i]] = [fn |-> "chario_completion", ctx |-> p]
      BY Zenon, SMTT(20) DEF IInv, EntryInv
    <3> QED
      BY SMTT(30), ZenonT(30), <3>1
  <2> QED
    BY <2>1 DEF IInv, CommandInv, TagOwnership
<1> QED
  BY <1>1, Inductive, PTL

(* next_chario_tag++ stays inside chario_cmds when no transfer has more    *)
(* than REQ_MAX_BLOCKS * NTags blocks.                                     *)
THEOREM TagInRangeHolds == Serialised /\ Fits => (Spec => []TagInRange)
<1> SUFFICES ASSUME Serialised, Fits PROVE Spec => []TagInRange
  BY Zenon
<1>1. IInv => TagInRange
  <2> SUFFICES ASSUME IInv, NEW p \in Procs, pc[p] \in {"fill", "submit"}
               PROVE  tag[p] \in Tags
    BY DEF TagInRange
  <2>1. Issued(p) = tag[p]
    BY Zenon, SMTT(20) DEF Issued, IInv, TagInv
  <2> QED
    BY Zenon, <2>1, IssuedFits, Facts DEF Issuing
<1> QED
  BY <1>1, Inductive, PTL

(* The wake-up is never lost: while the submitter sleeps, something that   *)
(* leads to its wake_up_process is still outstanding.                      *)
THEOREM NoLostWakeupHolds == Serialised => (Spec => []NoLostWakeup)
<1>1. IInv => NoLostWakeup
  <2> SUFFICES ASSUME IInv, NEW p \in Procs,
                      pc[p] = "sleep", task_state[p] = "UNINTERRUPTIBLE"
               PROVE  \/ \E c \in inflight : c.owner = p
                      \/ \E i \in DOMAIN cqes : chario_cmds[cqes[i]].ctx = p
                      \/ \E h \in Handlers : hpc[h] # "idle" /\ hctx[h] = p
    BY Zenon DEF NoLostWakeup
  <2>1. Live(p) /\ Waiting(p) /\ \A q \in Procs : Live(q) => q = p
    BY Zenon DEF IInv, OneActive, Live, Waiting
  <2>2. CASE remaining[p] >= 0
    <3>1. ~Quiet
      <4> SUFFICES ASSUME Quiet PROVE FALSE
        BY Zenon
      <4> DEFINE f == Full(p)  k == Counted(p)  n == nblocks[p]
      <4>1. /\ Cardinality(inflight) = 0 /\ Len(cqes) = 0 /\ Pending = 0
        BY Zenon, Facts DEF FiniteSetFacts, Quiet, Pending
      <4>2. Issued(p) \in Int
        BY SMTT(30), ZenonT(30) DEF Issued, IInv, TypeOK
      <4>3. k = f + 1 /\ f \in Int
        <5> DEFINE i == Issued(p)
        <5>1. f = i - 1
          BY Zenon, <2>1 DEF Full
        <5>2. k = i - 0 - 0 - 0
          BY Zenon, <4>1 DEF Counted
        <5> HIDE DEF i, f, k
        <5> QED
          BY <4>2, <5>1, <5>2 DEF i
      <4>4. /\ remaining[p] = n - R * k /\ remaining_blocks[p] = n - R * f
            /\ remaining_blocks[p] < R /\ n \in Int
        BY SMTT(30), ZenonT(30), <2>1 DEF IInv, CountInv, TypeOK
      <4>5. R * (f + 1) = R * f + R /\ R * f \in Int /\ R \in Nat
        BY <4>3, MulMono, ConstAssumption DEF R
      <4> HIDE DEF f, k, n
      <4> QED
        BY <2>2, <4>3, <4>4, <4>5
    <3>2. CASE inflight # {}
      BY Zenon, SMTT(20), <2>1, <3>2, CommandType DEF IInv, CommandInv
    <3>3. CASE cqes # << >>
      <4>1. 1 \in DOMAIN cqes
        BY SMTT(30), ZenonT(30), <3>3 DEF IInv, TypeOK
      <4>2. PICK q \in Procs :
              /\ Live(q)
              /\ chario_cmds[cqes[1]] = [fn |-> "chario_completion", ctx |-> q]
        BY Zenon, <4>1 DEF IInv, EntryInv
      <4>3. q = p
        BY Zenon, <2>1, <4>2
      <4>4. chario_cmds[cqes[1]].ctx = p
        BY <4>2, <4>3
      <4> QED
        BY Zenon, <4>1, <4>4
    <3>4. CASE \E h \in Handlers : hpc[h] = "subtract"
      BY Zenon, <2>1, <3>4 DEF IInv, HandlerInv
    <3> QED
      BY Zenon, <3>1, <3>2, <3>3, <3>4 DEF Quiet
  <2>3. CASE \E h \in Handlers : hpc[h] \in {"test", "wake"} /\ hctx[h] = p
    BY <2>3
  <2> QED
    BY Zenon, <2>2, <2>3 DEF IInv, SleepInv
<1> QED
  BY <1>1, Inductive, PTL
=============================================================================
