------------------------------ MODULE SpinLocks -----------------------------
(***************************************************************************)
(* The engine's BSSpinLocks and the threads that use them, as the probes   *)
(* and breakers of both plugins see them from outside: a lock is an owner  *)
(* word, a thread runs, spins on one lock (with a saved return address of  *)
(* the retry site on its stack) or is parked in a kernel wait (with its    *)
(* RIP inside a system module).  A thread may park or exit with a lock in  *)
(* its hands: that is the leak the breaker is for.                         *)
(*                                                                         *)
(* The engine is external; this module is what MainWaitProbe.cpp and       *)
(* LeakedSpinLockBreaker.cpp assume of it.                                 *)
(***************************************************************************)
EXTENDS Naturals, FiniteSets

CONSTANTS
    Threads,    \* threads of the game
    Locks,      \* BSSpinLocks
    Sites,      \* addresses in system modules at which threads park
    NoThread,   \* the owner word of a free lock
    NoLock      \* wanted by a thread that does not spin

ASSUME LockNullsAssumption == NoThread \notin Threads /\ NoLock \notin Locks
ASSUME ThreadsAssumption == IsFiniteSet(Threads)
ASSUME SitesAssumption == Sites # {} /\ Sites \cap {"run", "spin", "gone"} = {}

VARIABLES
    owner,   \* owner[l]: the thread id in the lock word
    doing,   \* doing[t]: "run", "spin", "gone", or the site it is parked at
    want     \* want[t]: the lock a spinning thread retries

lockVars == <<owner, doing, want>>

LockTypeOK ==
    /\ owner \in [Locks -> Threads \cup {NoThread}]
    /\ doing \in [Threads -> {"run", "spin", "gone"} \cup Sites]
    /\ want \in [Threads -> Locks \cup {NoLock}]

LockInit ==
    /\ owner = [l \in Locks |-> NoThread]
    /\ doing = [t \in Threads |-> "run"]
    /\ want = [t \in Threads |-> NoLock]

Live     == {t \in Threads : doing[t] # "gone"}
Spinning(t) == doing[t] = "spin"
Parked(t)   == doing[t] \in Sites

Acquire(t, l) ==
    /\ doing[t] = "run" /\ owner[l] = NoThread
    /\ owner' = [owner EXCEPT ![l] = t]
    /\ UNCHANGED <<doing, want>>

Contend(t, l) ==
    /\ doing[t] = "run" /\ owner[l] \notin {NoThread, t}
    /\ doing' = [doing EXCEPT ![t] = "spin"]
    /\ want' = [want EXCEPT ![t] = l]
    /\ UNCHANGED owner

Obtain(t) ==
    /\ Spinning(t) /\ owner[want[t]] = NoThread
    /\ owner' = [owner EXCEPT ![want[t]] = t]
    /\ doing' = [doing EXCEPT ![t] = "run"]
    /\ want' = [want EXCEPT ![t] = NoLock]

Release(t, l) ==
    /\ doing[t] = "run" /\ owner[l] = t
    /\ owner' = [owner EXCEPT ![l] = NoThread]
    /\ UNCHANGED <<doing, want>>

Park(t, s) ==
    /\ doing[t] = "run"
    /\ doing' = [doing EXCEPT ![t] = s]
    /\ UNCHANGED <<owner, want>>

Wake(t) ==
    /\ Parked(t)
    /\ doing' = [doing EXCEPT ![t] = "run"]
    /\ UNCHANGED <<owner, want>>

Exit(t) ==
    /\ doing[t] = "run"
    /\ doing' = [doing EXCEPT ![t] = "gone"]
    /\ UNCHANGED <<owner, want>>

ThreadStep(t) ==
    \/ \E l \in Locks : Acquire(t, l) \/ Contend(t, l) \/ Release(t, l)
    \/ Obtain(t)
    \/ \E s \in Sites : Park(t, s)
    \/ Wake(t)

\* A set of spinning threads each of which waits for another member.
Deadlocked(S) ==
    /\ S # {}
    /\ \A t \in S : Spinning(t) /\ owner[want[t]] \in S
=============================================================================
