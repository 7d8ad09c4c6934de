------------------------------- MODULE JobPool ------------------------------
(***************************************************************************)
(* The engine's task pool (external), as TaskPool.cpp and                  *)
(* TaskPoolBaseline.h walk it: Singleton-B -> sub_array -> one entry per   *)
(* queue -> its handle table.  Main waits for a handle, and parts of the   *)
(* pool come and go meanwhile.                                             *)
(***************************************************************************)
EXTENDS Naturals

CONSTANTS
    Queues,       \* indices of the sub-array, 0..n
    Entries,      \* addresses of dispatch structs
    Handles,      \* event handles
    None,         \* a null pointer, no handle
    MaxPoolMoves  \* bound: changes of the pool

ASSUME JobPoolAssumption ==
    /\ Queues \subseteq Nat /\ MaxPoolMoves \in Nat
    /\ None \notin Entries \cup Handles

VARIABLES
    single,   \* the global slot: address of the instance, 0 when null
    sub,      \* its sub_array is there
    queue,    \* [Queues -> entry or None]
    table,    \* [Entries -> the handle of its table, or None]
    far,      \* handles that live past the captured part of a table
    mainWait, \* the handle main waits for, None while it runs
    poolMoves

pool == <<single, sub, queue, table, far, mainWait, poolMoves>>

JobPoolTypeOK ==
    /\ single \in 0..2 /\ sub \in BOOLEAN
    /\ queue \in [Queues -> Entries \cup {None}]
    /\ table \in [Entries -> Handles \cup {None}]
    /\ far \subseteq Handles
    /\ mainWait \in Handles \cup {None}
    /\ poolMoves \in 0..MaxPoolMoves

Alive == single # 0 /\ sub

Moved == poolMoves < MaxPoolMoves /\ poolMoves' = poolMoves + 1 /\ UNCHANGED far

\* A job is queued: its entry, with a handle of its own.
AddEntry(q, e, h) ==
    /\ Moved /\ Alive /\ queue[q] = None
    /\ \A p \in Queues : queue[p] # e
    /\ \A d \in Entries \ {e} : table[d] # h
    /\ queue' = [queue EXCEPT ![q] = e] /\ table' = [table EXCEPT ![e] = h]
    /\ UNCHANGED <<single, sub, mainWait>>

DropEntry(q) ==
    /\ Moved /\ queue[q] # None
    /\ queue' = [queue EXCEPT ![q] = None]
    /\ UNCHANGED <<single, sub, table, mainWait>>

TearDown ==
    /\ Moved /\ Alive
    /\ \/ sub' = FALSE /\ UNCHANGED single
       \/ single' = 0 /\ sub' = FALSE
    /\ UNCHANGED <<queue, table, mainWait>>

\* A new instance, perhaps at the old address.
Recreate ==
    /\ Moved /\ ~Alive
    /\ single' \in 1..2 /\ sub' = TRUE /\ queue' = [q \in Queues |-> None]
    /\ UNCHANGED <<table, mainWait>>

MainWaits(q) ==
    /\ Moved /\ mainWait = None /\ Alive /\ queue[q] # None
    /\ table[queue[q]] # None /\ mainWait' = table[queue[q]]
    /\ UNCHANGED <<single, sub, queue, table>>

Signal ==
    /\ Moved /\ mainWait # None /\ mainWait' = None
    /\ UNCHANGED <<single, sub, queue, table>>

PoolMove ==
    \/ \E q \in Queues : DropEntry(q) \/ MainWaits(q)
    \/ \E q \in Queues, e \in Entries, h \in Handles : AddEntry(q, e, h)
    \/ TearDown \/ Recreate \/ Signal
=============================================================================
