---------------------------- MODULE Phase4Defer -----------------------------
(***************************************************************************)
(* The structural fix of WorkerSpinLockFix (Phase4Defer.cpp): engine       *)
(* threads that take two recursive spin locks in both orders, a wrap of    *)
(* the function that holds LockA (id 19369), two call-site gates that      *)
(* defer LockB-taking calls made while LockA is held, and the drain that   *)
(* replays them on the same thread once LockA is released.                 *)
(*                                                                         *)
(* The engine is modelled from the way Phase4Defer.cpp hooks it:           *)
(*   - id 19369 holds LockA from entry to return and may call itself;      *)
(*   - inside it, and elsewhere, a thread reaches the two gated call sites;*)
(*   - id 40333 (Add) and id 40334 (Remove) run under LockB;               *)
(*   - id 40285 (Transfer) holds LockB, calls out to id 19369 and, by the  *)
(*     case study, clears the flag of the actors it takes off the list;    *)
(*     here a call takes off one, or none.                                 *)
(***************************************************************************)
EXTENDS Naturals, Sequences, SequencesExt

CONSTANTS
    Threads,      \* engine threads
    Actors,       \* actors that are added to and removed from the list
    NoProcess,    \* actors without an AI process, which Add leaves alone
    NoThread,     \* the owner of a free spin lock
    NoActor,      \* the actor of a call that names none
    MaxDepth,     \* bound: open id 19369 frames of one thread
    MaxQueued,    \* bound: calls one thread defers in a behaviour
    Reentrant     \* may a replayed Add call out to id 19369 before inserting?

ASSUME NullsAssumption   == NoThread \notin Threads /\ NoActor \notin Actors
ASSUME ActorsAssumption  == NoProcess \subseteq Actors
ASSUME BoundsAssumption  == MaxDepth \in Nat /\ MaxQueued \in Nat
ASSUME ReentrantAssumption == Reentrant \in BOOLEAN

VARIABLES
    pc,        \* where each thread is, see Pcs
    depth,     \* tl_lockA_depth
    deferred,  \* tl_deferred
    local,     \* the vector the active drain iterates over
    cur,       \* the call a thread is executing in id 40333, 40334 or 40285
    outer,     \* LockB frames that called out to id 19369: their call and drain
    lockA,     \* owner and recursion count of LockA
    lockB,     \* the same for LockB
    bit,       \* Actor::boolBits & kInTempChangeList
    list,      \* the bucket array at [pl+0x158], as a set
    queued,    \* calls deferred so far by each thread (Stats::OnPhase4Queued)
    replayed   \* replays begun by each thread (Stats::OnPhase4Drained)

locks  == <<lockA, lockB>>
engine == <<bit, list>>
counts == <<queued, replayed>>
vars   == <<pc, depth, deferred, local, cur, outer, locks, engine, counts>>

Pcs == {"run",     \* engine code, inside id 19369 when depth > 0
        "wantA",   \* entered the wrap, spinning for LockA
        "ret",     \* id 19369 returned to the wrap
        "drain",   \* in DrainDeferredOnExit
        "wantB",   \* entered an original, spinning for LockB
        "inB",     \* in an original, LockB held
        "wrote"}   \* the list is written, the flag not yet

Kinds  == {"Add", "Remove"}

\* ticket is the position among the calls its thread deferred, 0 for a call
\* that was not deferred; out says that the call has called out to id 19369.
DeferredCall == [kind : Kinds, actor : Actors, ticket : Nat, out : BOOLEAN]
OtherCall    == [kind : {"Transfer"}, actor : Actors \cup {NoActor}, ticket : {0},
                 out : BOOLEAN]
Call   == DeferredCall \cup OtherCall
NoCall == [kind |-> "Transfer", actor |-> NoActor, ticket |-> 0, out |-> FALSE]
Frame  == [cur : Call, local : Seq(DeferredCall)]
Lock   == [owner : Threads \cup {NoThread}, count : Nat]
Free   == [owner |-> NoThread, count |-> 0]

TypeOK == /\ pc       \in [Threads -> Pcs]
          /\ depth    \in [Threads -> Nat]
          /\ deferred \in [Threads -> Seq(DeferredCall)]
          /\ local    \in [Threads -> Seq(DeferredCall)]
          /\ cur      \in [Threads -> Call]
          /\ outer    \in [Threads -> Seq(Frame)]
          /\ lockA    \in Lock
          /\ lockB    \in Lock
          /\ bit      \in [Actors -> BOOLEAN]
          /\ list     \subseteq Actors
          /\ queued   \in [Threads -> Nat]
          /\ replayed \in [Threads -> Nat]

Init == /\ pc       = [t \in Threads |-> "run"]
        /\ depth    = [t \in Threads |-> 0]
        /\ deferred = [t \in Threads |-> <<>>]
        /\ local    = [t \in Threads |-> <<>>]
        /\ cur      = [t \in Threads |-> NoCall]
        /\ outer    = [t \in Threads |-> <<>>]
        /\ lockA = Free /\ lockB = Free
        /\ bit      = [a \in Actors |-> FALSE]
        /\ list     = {}
        /\ queued   = [t \in Threads |-> 0]
        /\ replayed = [t \in Threads |-> 0]

Goto(t, l) == pc' = [pc EXCEPT ![t] = l]

(***************************************************************************)
(* BSSpinLock: { owner thread, count }, recursive for its owner.           *)
(***************************************************************************)
CanAcquire(lock, t) == lock.owner \in {NoThread, t}
Acquired(lock, t)   == [owner |-> t, count |-> lock.count + 1]
Released(lock)      == IF lock.count = 1 THEN Free
                       ELSE [lock EXCEPT !.count = @ - 1]

(***************************************************************************)
(* HookedLockAAcquirer: count the frame, run id 19369, uncount it, drain   *)
(* when the last frame is gone.  EnterWrap is a call from engine code      *)
(* (recursive when depth > 0); CallOut is one made by LockB-holding code.  *)
(***************************************************************************)
EnterWrap(t) ==
    /\ pc[t] = "run" /\ depth[t] < MaxDepth
    /\ depth' = [depth EXCEPT ![t] = @ + 1]
    /\ Goto(t, "wantA")
    /\ UNCHANGED <<deferred, local, cur, outer, locks, engine, counts>>

\* Add finds the actor absent and insertable before it calls out.
Inserts(call) == call.actor \notin list /\ call.actor \notin NoProcess

MayCallOut(call) ==
    /\ ~call.out
    /\ \/ call.kind = "Transfer"
       \/ Reentrant /\ call.kind = "Add" /\ Inserts(call)

CallOut(t) ==
    /\ pc[t] = "inB" /\ MayCallOut(cur[t]) /\ depth[t] < MaxDepth
    /\ outer' = [outer EXCEPT ![t] =
                    Append(@, [cur |-> [cur[t] EXCEPT !.out = TRUE],
                               local |-> local[t]])]
    /\ cur'   = [cur EXCEPT ![t] = NoCall]
    /\ local' = [local EXCEPT ![t] = <<>>]
    /\ depth' = [depth EXCEPT ![t] = @ + 1]
    /\ Goto(t, "wantA")
    /\ UNCHANGED <<deferred, locks, engine, counts>>

AcquireA(t) ==
    /\ pc[t] = "wantA" /\ CanAcquire(lockA, t)
    /\ lockA' = Acquired(lockA, t)
    /\ Goto(t, "run")
    /\ UNCHANGED <<depth, deferred, local, cur, outer, lockB, engine, counts>>

LeaveA(t) ==
    /\ pc[t] = "run" /\ depth[t] > 0
    /\ lockA' = Released(lockA)
    /\ Goto(t, "ret")
    /\ UNCHANGED <<depth, deferred, local, cur, outer, lockB, engine, counts>>

\* Deviation: the queue is cleared where it should be moved out.
WrapEpilogueClears(t) ==
    /\ pc[t] = "ret"
    /\ depth' = [depth EXCEPT ![t] = @ - 1]
    /\ deferred' = [deferred EXCEPT ![t] = IF depth[t] = 1 THEN <<>> ELSE @]
    /\ Goto(t, IF depth[t] = 1 THEN "drain" ELSE "run")
    /\ UNCHANGED <<local, cur, outer, locks, engine, counts>>

WrapEpilogue(t) ==
    /\ pc[t] = "ret"
    /\ depth' = [depth EXCEPT ![t] = @ - 1]
    /\ IF depth[t] = 1
       THEN /\ local'    = [local EXCEPT ![t] = deferred[t]]
            /\ deferred' = [deferred EXCEPT ![t] = <<>>]
            /\ Goto(t, "drain")
       ELSE Goto(t, "run") /\ UNCHANGED <<deferred, local>>
    /\ UNCHANGED <<cur, outer, locks, engine, counts>>

(***************************************************************************)
(* The gates.  Under LockA the flag is written at once and the call queued;*)
(* the queue is the thread's own, so nobody sees the two writes apart.     *)
(***************************************************************************)
Defer(t, kind, a) ==
    /\ depth[t] > 0 /\ queued[t] < MaxQueued
    /\ bit'      = [bit EXCEPT ![a] = (kind = "Add")]
    /\ queued'   = [queued EXCEPT ![t] = @ + 1]
    /\ deferred' = [deferred EXCEPT ![t] =
                      Append(@, [kind |-> kind, actor |-> a,
                                 ticket |-> queued[t] + 1, out |-> FALSE])]
    /\ UNCHANGED <<pc, depth, local, cur, outer, locks, list, replayed>>

CallOriginal(t, kind, a) ==
    /\ cur' = [cur EXCEPT ![t] = [kind |-> kind, actor |-> a,
                                  ticket |-> 0, out |-> FALSE]]
    /\ Goto(t, "wantB")
    /\ UNCHANGED <<depth, deferred, local, outer, locks, engine, counts>>

\* Deviation: the gate does not look at the depth.
PassThroughAnyDepth(t, kind, a) == CallOriginal(t, kind, a)

PassThrough(t, kind, a) == depth[t] = 0 /\ CallOriginal(t, kind, a)

HookedRemoveAtCycleHub(t, a) ==
    /\ pc[t] = "run"
    /\ Defer(t, "Remove", a) \/ PassThrough(t, "Remove", a)

HookedAddInsideAddWrapper(t, a) ==
    /\ pc[t] = "run"
    /\ Defer(t, "Add", a) \/ PassThrough(t, "Add", a)

(***************************************************************************)
(* DrainDeferredOnExit: replay the moved-out queue from its head.          *)
(***************************************************************************)
\* Deviation: the vector is replayed from its newest call.
DrainNextNewest(t) ==
    /\ pc[t] = "drain" /\ local[t] # <<>>
    /\ cur'      = [cur EXCEPT ![t] = Last(local[t])]
    /\ local'    = [local EXCEPT ![t] = Front(@)]
    /\ replayed' = [replayed EXCEPT ![t] = @ + 1]
    /\ Goto(t, "wantB")
    /\ UNCHANGED <<depth, deferred, outer, locks, engine, queued>>

DrainNext(t) ==
    /\ pc[t] = "drain" /\ local[t] # <<>>
    /\ cur'      = [cur EXCEPT ![t] = Head(local[t])]
    /\ local'    = [local EXCEPT ![t] = Tail(@)]
    /\ replayed' = [replayed EXCEPT ![t] = @ + 1]
    /\ Goto(t, "wantB")
    /\ UNCHANGED <<depth, deferred, outer, locks, engine, queued>>

\* Deviation: the frame is uncounted once more after its drain.
DrainDoneUncounts(t) ==
    /\ pc[t] = "drain" /\ local[t] = <<>> /\ outer[t] = <<>>
    /\ depth' = [depth EXCEPT ![t] = @ - 1]
    /\ Goto(t, "run")
    /\ UNCHANGED <<deferred, local, cur, outer, locks, engine, counts>>

\* Deviation: nested drains share one vector.
DrainDoneSharedLocal(t) ==
    /\ pc[t] = "drain" /\ local[t] = <<>>
    /\ IF outer[t] = <<>>
       THEN Goto(t, "run") /\ UNCHANGED <<local, cur, outer>>
       ELSE /\ cur'   = [cur EXCEPT ![t] = Last(outer[t]).cur]
            /\ UNCHANGED local
            /\ outer' = [outer EXCEPT ![t] = Front(@)]
            /\ Goto(t, "inB")
    /\ UNCHANGED <<depth, deferred, locks, engine, counts>>

\* The wrap returns: to engine code, or into the LockB frame that called out.
DrainDone(t) ==
    /\ pc[t] = "drain" /\ local[t] = <<>>
    /\ IF outer[t] = <<>>
       THEN Goto(t, "run") /\ UNCHANGED <<local, cur, outer>>
       ELSE /\ cur'   = [cur EXCEPT ![t] = Last(outer[t]).cur]
            /\ local' = [local EXCEPT ![t] = Last(outer[t]).local]
            /\ outer' = [outer EXCEPT ![t] = Front(@)]
            /\ Goto(t, "inB")
    /\ UNCHANGED <<depth, deferred, locks, engine, counts>>

(***************************************************************************)
(* The originals (id 40333, 40334, 40285), each a LockB critical section.  *)
(***************************************************************************)
Transfer(t) ==
    /\ pc[t] = "run" /\ depth[t] = 0
    /\ \E a \in Actors \cup {NoActor} : CallOriginal(t, "Transfer", a)

AcquireB(t) ==
    /\ pc[t] = "wantB" /\ CanAcquire(lockB, t)
    /\ lockB' = Acquired(lockB, t)
    /\ Goto(t, "inB")
    /\ UNCHANGED <<depth, deferred, local, cur, outer, lockA, engine, counts>>

Writes(call) == \/ call.kind = "Add"    /\ (call.out \/ Inserts(call))
                \/ call.kind \in {"Remove", "Transfer"} /\ call.actor \in list

\* The gates of other threads may write the flag between the two writes.
WriteList(t) ==
    /\ pc[t] = "inB" /\ Writes(cur[t])
    /\ list' = IF cur[t].kind = "Add" THEN list \cup {cur[t].actor}
                                     ELSE list \ {cur[t].actor}
    /\ Goto(t, "wrote")
    /\ UNCHANGED <<depth, deferred, local, cur, outer, locks, bit, counts>>

ReturnFromB(t) ==
    /\ \/ pc[t] = "inB"   /\ ~Writes(cur[t]) /\ UNCHANGED bit
       \/ pc[t] = "wrote" /\ bit' = [bit EXCEPT ![cur[t].actor] = (cur[t].kind = "Add")]
    /\ lockB' = Released(lockB)
    /\ cur'   = [cur EXCEPT ![t] = NoCall]
    /\ Goto(t, IF cur[t].ticket > 0 THEN "drain" ELSE "run")
    /\ UNCHANGED <<depth, deferred, local, outer, lockA, list, counts>>

Gates(t) == \E a \in Actors :
               HookedRemoveAtCycleHub(t, a) \/ HookedAddInsideAddWrapper(t, a)
Wrap(t)  == \/ EnterWrap(t) \/ CallOut(t) \/ AcquireA(t) \/ LeaveA(t)
            \/ WrapEpilogue(t) \/ DrainNext(t) \/ DrainDone(t)
Originals(t) == Transfer(t) \/ AcquireB(t) \/ WriteList(t) \/ ReturnFromB(t)

Next == \E t \in Threads : Gates(t) \/ Wrap(t) \/ Originals(t)

(***************************************************************************)
(* A thread that has entered the wrap or an original goes on; id 19369     *)
(* recurses finitely, so that each of its frames is left, the outermost    *)
(* one included (hence strong fairness per depth); a thread that spins on a*)
(* lock that keeps being released wins it eventually.  No thread is obliged*)
(* to call anything.                                                       *)
(***************************************************************************)
Fairness == \A t \in Threads :
    /\ WF_vars(WrapEpilogue(t) \/ DrainNext(t) \/ DrainDone(t))
    /\ WF_vars(WriteList(t) \/ ReturnFromB(t))
    /\ SF_vars(AcquireA(t)) /\ SF_vars(AcquireB(t))
    /\ \A d \in 1..MaxDepth : SF_vars(LeaveA(t) /\ depth[t] = d)

Spec == Init /\ [][Next]_vars /\ Fairness
-----------------------------------------------------------------------------
\* No thread spins for LockB while it holds LockA: the LockA -> LockB edge of
\* the deadlock is gone whatever the interleaving (Phase4Defer.h, "Strategy").
NoLockBUnderLockA ==
    \A t \in Threads : pc[t] = "wantB" => lockA.owner # t

\* A thread that is outside id 19369 and outside a drain has nothing left in
\* its queue and every call it deferred has been replayed: none is stranded
\* by recursion or by a drain that runs inside another.
NothingStranded ==
    \A t \in Threads : pc[t] = "run" /\ depth[t] = 0 =>
        deferred[t] = <<>> /\ queued[t] = replayed[t]

Pending(t) == {cur[t]} \cup ToSet(local[t]) \cup ToSet(deferred[t])
              \cup UNION {{frame.cur} \cup ToSet(frame.local) :
                              frame \in ToSet(outer[t])}

\* The flag the gates write early and the list the drain writes late disagree
\* on an actor only while a call is pending that makes them agree: a deferred
\* one whose list half is to come, or one between its two writes ("both writes
\* converge to the same final value", Phase4Defer.cpp:140-145).  Add ignores an
\* actor without an AI process, so nothing is said of those.
FlagFollowsList ==
    \A a \in Actors \ NoProcess : bit[a] # (a \in list) =>
        \E t \in Threads :
           \/ pc[t] = "wrote" /\ cur[t].actor = a
           \/ \E call \in Pending(t) :
                 /\ call.actor = a /\ call.ticket > 0
                 /\ call.kind = (IF bit[a] THEN "Add" ELSE "Remove")

\* The n-th replay of a thread is the n-th call it deferred: once each, in the
\* order it made them ("per-thread call ordering is preserved",
\* Phase4Defer.cpp:200-204).
ReplayOrder ==
    [][\A t \in Threads : replayed'[t] # replayed[t]
          => cur'[t].ticket = replayed'[t]]_vars

\* Every thread that spins on one of the two locks eventually gets it.
EveryWaiterProceeds ==
    \A t \in Threads : /\ pc[t] = "wantA" ~> pc[t] # "wantA"
                       /\ pc[t] = "wantB" ~> pc[t] # "wantB"

(***************************************************************************)
(* The deferral implements TempChangeList: a call joins its thread's queue *)
(* at the gate and takes effect when the original has written the list, or *)
(* returns without writing it.                                             *)
(***************************************************************************)
AbstractQueue(t) ==
    LET inCall == IF cur[t].kind \in Kinds /\ pc[t] # "wrote" THEN <<cur[t]>> ELSE <<>>
        calls  == inCall \o local[t] \o deferred[t]
    IN  [i \in 1..Len(calls) |-> [kind |-> calls[i].kind, actor |-> calls[i].actor]]

Abstract == INSTANCE TempChangeList WITH
               queue <- [t \in Threads |-> AbstractQueue(t)]

\* Every behaviour of the hooks is a behaviour of TempChangeList: no call is
\* lost, doubled or moved before an earlier one of its thread, and each takes
\* effect.
ImplementsTempChangeList == Abstract!Spec
=============================================================================
