------------------------------ MODULE QueuePair ------------------------------
(***************************************************************************)
(* What a pair of NVMe queues promises its users, without rings, doorbells *)
(* or phase bits: commands are fetched in the order they were submitted,   *)
(* executed in any order, and their completions delivered in the order the *)
(* controller finished them, each exactly once.  When the queue pair is    *)
(* torn down the controller forgets what it holds, and what was finished   *)
(* but not yet delivered may be discarded.                                 *)
(***************************************************************************)
EXTENDS Sequences, FiniteSets

CONSTANT Tags    \* the identifiers of commands

VARIABLES todo,      \* submitted and not yet fetched, oldest first
          working,   \* being executed
          finished   \* finished and not yet delivered, oldest first

vars == <<todo, working, finished>>

Elements(s) == {s[i] : i \in DOMAIN s}

Outstanding == Elements(todo) \cup working \cup Elements(finished)

Init == todo = <<>> /\ working = {} /\ finished = <<>>

Submit(t) ==
    /\ t \notin Outstanding
    /\ todo' = Append(todo, t)
    /\ UNCHANGED <<working, finished>>

Fetch ==
    /\ todo # <<>>
    /\ working' = working \cup {Head(todo)}
    /\ todo' = Tail(todo)
    /\ UNCHANGED finished

Finish(t) ==
    /\ t \in working
    /\ working' = working \ {t}
    /\ finished' = Append(finished, t)
    /\ UNCHANGED todo

Deliver ==
    /\ finished # <<>>
    /\ finished' = Tail(finished)
    /\ UNCHANGED <<todo, working>>

Stop ==
    /\ todo' = <<>> /\ working' = {}
    /\ UNCHANGED finished

Discard ==
    /\ finished' = <<>>
    /\ UNCHANGED <<todo, working>>

Next ==
    \/ \E t \in Tags : Submit(t) \/ Finish(t)
    \/ Fetch \/ Deliver \/ Stop \/ Discard

Spec == Init /\ [][Next]_vars
=============================================================================
