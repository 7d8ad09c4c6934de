------------------------- MODULE Phase4DeferProofs --------------------------
(***************************************************************************)
(* Proofs about Phase4Defer for any number of threads and actors, any      *)
(* recursion depth and any number of deferred calls.                       *)
(***************************************************************************)
EXTENDS Phase4Defer, SequenceTheorems, TLAPS

(***************************************************************************)
(* The inductive invariant.  tl_lockA_depth counts the frames of a thread, *)
(* one more than those that hold LockA while the thread is on its way in   *)
(* or out of the wrap; LockB is held by the frames that called out and by  *)
(* the original the thread is in.  Both locks agree with these counts.     *)
(***************************************************************************)
InB == {"inB", "wrote"}

HeldA(t) == IF pc[t] \in {"wantA", "ret"} THEN depth[t] - 1 ELSE depth[t]
HeldB(t) == IF pc[t] \in InB THEN Len(outer[t]) + 1 ELSE Len(outer[t])

DepthInv == \A t \in Threads :
    /\ pc[t] \in {"wantA", "ret"} => depth[t] > 0
    /\ pc[t] \in {"drain", "wantB", "inB", "wrote"} => depth[t] = 0

LockAInv == /\ \A t \in Threads : HeldA(t) = IF lockA.owner = t THEN lockA.count ELSE 0
            /\ lockA.count = 0 <=> lockA.owner = NoThread

LockBInv == /\ \A t \in Threads : HeldB(t) = IF lockB.owner = t THEN lockB.count ELSE 0
            /\ lockB.count = 0 <=> lockB.owner = NoThread

Inv == TypeOK /\ DepthInv /\ LockAInv /\ LockBInv

\* In the initial state no frame is open and both locks are free.
LEMMA InitInv == Init => Inv
<1> SUFFICES ASSUME Init PROVE Inv
    OBVIOUS
<1>1. TypeOK
  BY DEF Init, TypeOK, Pcs, Call, OtherCall, NoCall, Lock, Free
<1>2. \A t \in Threads : HeldA(t) = 0 /\ HeldB(t) = 0 /\ pc[t] = "run"
  BY DEF Init, HeldA, HeldB, InB
<1>3. LockAInv /\ LockBInv
  BY <1>2, NullsAssumption DEF Init, Free, LockAInv, LockBInv
<1> QED
  BY <1>1, <1>2, <1>3 DEF Inv, DepthInv

(***************************************************************************)
(* What a step that keeps a count keeps of the invariant.                  *)
(***************************************************************************)

\* Goto moves one thread.
LEMMA GotoPc ==
  ASSUME TypeOK, NEW t \in Threads, NEW l \in Pcs, Goto(t, l)
  PROVE  /\ pc' \in [Threads -> Pcs]
         /\ \A u \in Threads : pc'[u] = IF u = t THEN l ELSE pc[u]
  BY DEF TypeOK, Goto

\* The frame counts are numbers.
LEMMA CountsNat ==
  ASSUME Inv, NEW t \in Threads
  PROVE  depth[t] \in Nat /\ HeldA(t) \in Nat /\ Len(outer[t]) \in Nat /\ HeldB(t) \in Nat
<1>1. depth[t] \in Nat /\ Len(outer[t]) \in Nat
  BY DEF Inv, TypeOK
<1>2. HeldA(t) \in Nat
  BY <1>1 DEF Inv, DepthInv, HeldA
<1> QED
  BY <1>1, <1>2 DEF HeldB

\* A thread that holds a lock in the sense of its frames owns the lock.
LEMMA Owns ==
  ASSUME Inv, NEW t \in Threads
  PROVE  /\ HeldA(t) > 0 => lockA.owner = t /\ lockA.count = HeldA(t)
         /\ HeldB(t) > 0 => lockB.owner = t /\ lockB.count = HeldB(t)
  BY DEF Inv, LockAInv, LockBInv

\* A release by the owner keeps the lock well formed and frees it at the last.
LEMMA Release ==
  ASSUME NEW lock \in Lock, lock.count > 0
  PROVE  /\ Released(lock) \in Lock
         /\ Released(lock).count = lock.count - 1
         /\ Released(lock).owner = IF lock.count = 1 THEN NoThread ELSE lock.owner
<1>1. lock.count \in Nat /\ lock.owner \in Threads \cup {NoThread}
  BY DEF Lock
<1>2. CASE lock.count = 1
  BY <1>2 DEF Released, Free, Lock
<1>3. CASE lock.count # 1
  <2>1. Released(lock) = [lock EXCEPT !.count = @ - 1] /\ lock.count - 1 \in Nat
    BY <1>1, <1>3 DEF Released
  <2> QED
    BY <1>3, <2>1 DEF Lock
<1> QED
  BY <1>2, <1>3

\* A move of one thread that neither enters nor leaves LockB.
LEMMA KeepsB ==
  ASSUME Inv, NEW t \in Threads, NEW l \in Pcs, Goto(t, l),
         UNCHANGED <<outer, lockB>>, pc[t] \in InB <=> l \in InB
  PROVE  LockBInv'
<1>1. \A u \in Threads : HeldB(u)' = HeldB(u)
  BY GotoPc DEF Inv, HeldB
<1> QED
  BY <1>1 DEF Inv, LockBInv

\* A move of one thread outside the wrap, at depth 0 if it is into LockB code.
LEMMA KeepsA ==
  ASSUME Inv, NEW t \in Threads, NEW l \in Pcs, Goto(t, l),
         UNCHANGED <<depth, lockA>>,
         pc[t] \notin {"wantA", "ret"}, l \notin {"wantA", "ret"},
         depth[t] = 0
  PROVE  LockAInv' /\ DepthInv'
<1>1. \A u \in Threads : HeldA(u)' = HeldA(u)
  BY GotoPc DEF Inv, HeldA
<1>2. LockAInv'
  BY <1>1 DEF Inv, LockAInv
<1>3. DepthInv'
  BY GotoPc DEF Inv, DepthInv
<1> QED
  BY <1>2, <1>3

\* The prologue of the wrap: one more frame, not yet one that holds LockA.
LEMMA Prologue ==
  ASSUME Inv, NEW t \in Threads, pc[t] \notin {"wantA", "ret"}, Goto(t, "wantA"),
         depth' = [depth EXCEPT ![t] = @ + 1], UNCHANGED lockA
  PROVE  depth' \in [Threads -> Nat] /\ LockAInv' /\ DepthInv'
<1>1. /\ depth' \in [Threads -> Nat]
      /\ \A u \in Threads : depth'[u] = IF u = t THEN depth[u] + 1 ELSE depth[u]
  BY DEF Inv, TypeOK
<1>2. \A u \in Threads : pc'[u] = IF u = t THEN "wantA" ELSE pc[u]
  BY GotoPc DEF Inv, Pcs
<1>3. \A u \in Threads : HeldA(u)' = HeldA(u)
  BY <1>1, <1>2, CountsNat DEF HeldA
<1>4. LockAInv'
  BY <1>3 DEF Inv, LockAInv
<1>5. DepthInv'
  BY <1>1, <1>2, CountsNat DEF Inv, DepthInv
<1> QED
  BY <1>1, <1>4, <1>5

(***************************************************************************)
(* The wrap of id 19369.                                                   *)
(***************************************************************************)

\* EnterWrap preserves the invariant.
LEMMA EnterWrapInv == ASSUME Inv, NEW t \in Threads, EnterWrap(t) PROVE Inv'
<1>1. pc[t] = "run" /\ Goto(t, "wantA") /\ depth' = [depth EXCEPT ![t] = @ + 1]
  BY DEF EnterWrap
<1>2. UNCHANGED <<deferred, local, cur, outer, lockA, lockB, bit, list, queued, replayed>>
  BY DEF EnterWrap, locks, engine, counts
<1>3. depth' \in [Threads -> Nat] /\ LockAInv' /\ DepthInv'
  BY <1>1, <1>2, Prologue
<1>4. LockBInv'
  BY <1>1, <1>2, KeepsB DEF Pcs, InB
<1>5. pc' \in [Threads -> Pcs]
  BY <1>1, GotoPc DEF Inv, Pcs
<1>6. TypeOK'
  BY <1>2, <1>3, <1>5 DEF Inv, TypeOK
<1> QED
  BY <1>3, <1>4, <1>6 DEF Inv

\* CallOut preserves the invariant: the frame it leaves still holds LockB.
LEMMA CallOutInv == ASSUME Inv, NEW t \in Threads, CallOut(t) PROVE Inv'
<1> DEFINE frame == [cur |-> [cur[t] EXCEPT !.out = TRUE], local |-> local[t]]
<1>1. /\ pc[t] = "inB" /\ Goto(t, "wantA") /\ depth' = [depth EXCEPT ![t] = @ + 1]
      /\ outer' = [outer EXCEPT ![t] = Append(@, frame)]
      /\ cur'   = [cur EXCEPT ![t] = NoCall]
      /\ local' = [local EXCEPT ![t] = <<>>]
  BY DEF CallOut
<1>2. UNCHANGED <<deferred, lockA, lockB, bit, list, queued, replayed>>
  BY DEF CallOut, locks, engine, counts
<1>3. depth' \in [Threads -> Nat] /\ LockAInv' /\ DepthInv'
  BY <1>1, <1>2, Prologue
<1>4. /\ pc' \in [Threads -> Pcs]
      /\ \A u \in Threads : pc'[u] = IF u = t THEN "wantA" ELSE pc[u]
  BY <1>1, GotoPc DEF Inv, Pcs
<1>5. frame \in Frame
  <2>1. cur[t] \in Call /\ local[t] \in Seq(DeferredCall)
    BY DEF Inv, TypeOK
  <2>2. [cur[t] EXCEPT !.out = TRUE] \in Call
    BY <2>1 DEF Call, DeferredCall, OtherCall
  <2> QED
    BY <2>1, <2>2 DEF Frame
<1> HIDE DEF frame
<1>6. outer' \in [Threads -> Seq(Frame)]
  BY <1>1, <1>5 DEF Inv, TypeOK
<1>7. cur' \in [Threads -> Call] /\ local' \in [Threads -> Seq(DeferredCall)]
  <2>1. NoCall \in Call
    BY DEF NoCall, Call, OtherCall
  <2> QED
    BY <1>1, <2>1 DEF Inv, TypeOK
<1>8. TypeOK'
  BY <1>2, <1>3, <1>4, <1>6, <1>7 DEF Inv, TypeOK
<1>9. \A u \in Threads : Len(outer'[u]) = IF u = t THEN Len(outer[u]) + 1 ELSE Len(outer[u])
  BY <1>1, <1>5 DEF Inv, TypeOK
<1>10. \A u \in Threads : HeldB(u)' = HeldB(u)
  BY <1>1, <1>4, <1>9, CountsNat DEF Inv, HeldB, InB
<1>11. LockBInv'
  BY <1>2, <1>10 DEF Inv, LockBInv
<1> QED
  BY <1>3, <1>8, <1>11 DEF Inv

\* AcquireA preserves the invariant: LockA was free or the thread's own.
LEMMA AcquireAInv == ASSUME Inv, NEW t \in Threads, AcquireA(t) PROVE Inv'
<1>1. /\ pc[t] = "wantA" /\ Goto(t, "run") /\ lockA.owner \in {NoThread, t}
      /\ lockA' = [owner |-> t, count |-> lockA.count + 1]
  BY DEF AcquireA, CanAcquire, Acquired
<1>2. UNCHANGED <<depth, deferred, local, cur, outer, lockB, bit, list, queued, replayed>>
  BY DEF AcquireA, engine, counts
<1>3. /\ pc' \in [Threads -> Pcs]
      /\ \A u \in Threads : pc'[u] = IF u = t THEN "run" ELSE pc[u]
  BY <1>1, GotoPc DEF Inv, Pcs
<1>4. lockA.count \in Nat /\ lockA' \in Lock
  BY <1>1 DEF Inv, TypeOK, Lock
<1>5. TypeOK'
  BY <1>2, <1>3, <1>4 DEF Inv, TypeOK
<1>6. DepthInv'
  BY <1>2, <1>3 DEF Inv, DepthInv
<1>7. \A u \in Threads : HeldA(u)' = IF u = t THEN HeldA(u) + 1 ELSE HeldA(u)
  BY <1>1, <1>2, <1>3, CountsNat DEF HeldA
<1>8. HeldA(t) = lockA.count /\ \A u \in Threads : u # t => HeldA(u) = 0
  BY <1>1, NullsAssumption DEF Inv, LockAInv
<1>9. LockAInv'
  BY <1>1, <1>4, <1>7, <1>8, NullsAssumption DEF LockAInv
<1>10. LockBInv'
  BY <1>1, <1>2, KeepsB DEF Pcs, InB
<1> QED
  BY <1>5, <1>6, <1>9, <1>10 DEF Inv

\* LeaveA preserves the invariant: the frame held LockA.
LEMMA LeaveAInv == ASSUME Inv, NEW t \in Threads, LeaveA(t) PROVE Inv'
<1>1. pc[t] = "run" /\ depth[t] > 0 /\ Goto(t, "ret") /\ lockA' = Released(lockA)
  BY DEF LeaveA
<1>2. UNCHANGED <<depth, deferred, local, cur, outer, lockB, bit, list, queued, replayed>>
  BY DEF LeaveA, engine, counts
<1>3. /\ pc' \in [Threads -> Pcs]
      /\ \A u \in Threads : pc'[u] = IF u = t THEN "ret" ELSE pc[u]
  BY <1>1, GotoPc DEF Inv, Pcs
<1>4. lockA.owner = t /\ lockA.count = depth[t] /\ HeldA(t) = depth[t]
  BY <1>1, Owns DEF HeldA
<1>5. /\ lockA' \in Lock /\ lockA'.count = depth[t] - 1
      /\ lockA'.owner = IF depth[t] = 1 THEN NoThread ELSE t
  <2>1. lockA \in Lock /\ lockA.count > 0
    BY <1>1, <1>4 DEF Inv, TypeOK
  <2> QED
    BY <1>1, <1>4, <2>1, Release
<1>6. TypeOK'
  BY <1>2, <1>3, <1>5 DEF Inv, TypeOK
<1>7. DepthInv'
  BY <1>1, <1>2, <1>3 DEF Inv, DepthInv
<1>8. \A u \in Threads : HeldA(u)' = IF u = t THEN depth[t] - 1 ELSE HeldA(u)
  BY <1>1, <1>2, <1>3 DEF HeldA
<1>9. \A u \in Threads : u # t => HeldA(u) = 0
  BY <1>4 DEF Inv, LockAInv
<1>10. LockAInv'
  BY <1>1, <1>5, <1>8, <1>9, CountsNat, NullsAssumption DEF LockAInv
<1>11. LockBInv'
  BY <1>1, <1>2, KeepsB DEF Pcs, InB
<1> QED
  BY <1>6, <1>7, <1>10, <1>11 DEF Inv

\* WrapEpilogue preserves the invariant: the frame had already left LockA.
LEMMA WrapEpilogueInv == ASSUME Inv, NEW t \in Threads, WrapEpilogue(t) PROVE Inv'
<1>1. /\ pc[t] = "ret" /\ depth' = [depth EXCEPT ![t] = @ - 1]
      /\ Goto(t, IF depth[t] = 1 THEN "drain" ELSE "run")
  BY DEF WrapEpilogue
<1>2. UNCHANGED <<cur, outer, lockA, lockB, bit, list, queued, replayed>>
  BY DEF WrapEpilogue, locks, engine, counts
<1>3. /\ local' \in [Threads -> Seq(DeferredCall)]
      /\ deferred' \in [Threads -> Seq(DeferredCall)]
  <2>1. \/ UNCHANGED <<local, deferred>>
        \/ /\ local'    = [local EXCEPT ![t] = deferred[t]]
           /\ deferred' = [deferred EXCEPT ![t] = <<>>]
    BY DEF WrapEpilogue
  <2>2. /\ deferred \in [Threads -> Seq(DeferredCall)]
        /\ local \in [Threads -> Seq(DeferredCall)]
    BY DEF Inv, TypeOK
  <2>3. << >> \in Seq(DeferredCall) /\ deferred[t] \in Seq(DeferredCall)
    BY <2>2
  <2> QED
    BY <2>1, <2>2, <2>3
<1>4. /\ pc' \in [Threads -> Pcs]
      /\ \A u \in Threads : pc'[u] = IF u # t THEN pc[u]
                                     ELSE IF depth[t] = 1 THEN "drain" ELSE "run"
  BY <1>1, GotoPc DEF Inv, Pcs
<1>5. depth[t] > 0
  BY <1>1 DEF Inv, DepthInv
<1>6. /\ depth' \in [Threads -> Nat]
      /\ \A u \in Threads : depth'[u] = IF u = t THEN depth[u] - 1 ELSE depth[u]
  BY <1>1, <1>5 DEF Inv, TypeOK
<1>7. TypeOK'
  BY <1>2, <1>3, <1>4, <1>6 DEF Inv, TypeOK
<1>8. DepthInv'
  BY <1>4, <1>6, CountsNat DEF Inv, DepthInv
<1>9. \A u \in Threads : HeldA(u)' = HeldA(u)
  BY <1>1, <1>4, <1>6 DEF HeldA
<1>10. LockAInv'
  BY <1>2, <1>9 DEF Inv, LockAInv
<1>11. LockBInv'
  BY <1>1, <1>2, KeepsB DEF Pcs, InB
<1> QED
  BY <1>7, <1>8, <1>10, <1>11 DEF Inv

(***************************************************************************)
(* The gates and the drain.                                                *)
(***************************************************************************)

\* Defer preserves the invariant: it touches the thread's queue and a flag.
LEMMA DeferInv ==
  ASSUME Inv, NEW t \in Threads, NEW k \in Kinds, NEW a \in Actors, Defer(t, k, a)
  PROVE  Inv'
<1> DEFINE call == [kind |-> k, actor |-> a, ticket |-> queued[t] + 1, out |-> FALSE]
<1>1. /\ deferred' = [deferred EXCEPT ![t] = Append(@, call)]
      /\ queued'   = [queued EXCEPT ![t] = @ + 1]
      /\ bit'      = [bit EXCEPT ![a] = (k = "Add")]
  BY DEF Defer
<1>2. UNCHANGED <<pc, depth, local, cur, outer, lockA, lockB, list, replayed>>
  BY DEF Defer, locks
<1>3. call \in DeferredCall
  BY DEF Inv, TypeOK, DeferredCall
<1> HIDE DEF call
<1>4. deferred' \in [Threads -> Seq(DeferredCall)] /\ queued' \in [Threads -> Nat]
  BY <1>1, <1>3 DEF Inv, TypeOK
<1>5. bit' \in [Actors -> BOOLEAN]
  BY <1>1 DEF Inv, TypeOK
<1>6. TypeOK'
  BY <1>2, <1>4, <1>5 DEF Inv, TypeOK
<1>7. DepthInv' /\ LockAInv' /\ LockBInv'
  BY <1>2 DEF Inv, DepthInv, LockAInv, LockBInv, HeldA, HeldB
<1> QED
  BY <1>6, <1>7 DEF Inv

\* A call of an original outside LockA preserves the invariant.
LEMMA CallOriginalInv ==
  ASSUME Inv, NEW t \in Threads, pc[t] = "run", depth[t] = 0,
         NEW k, NEW a, \/ k \in Kinds /\ a \in Actors
                       \/ k = "Transfer" /\ a \in Actors \cup {NoActor},
         CallOriginal(t, k, a)
  PROVE  Inv'
<1> DEFINE call == [kind |-> k, actor |-> a, ticket |-> 0, out |-> FALSE]
<1>1. cur' = [cur EXCEPT ![t] = call] /\ Goto(t, "wantB")
  BY DEF CallOriginal
<1>2. UNCHANGED <<depth, deferred, local, outer, lockA, lockB, bit, list, queued, replayed>>
  BY DEF CallOriginal, locks, engine, counts
<1>3. call \in Call
  BY DEF Call, DeferredCall, OtherCall
<1> HIDE DEF call
<1>4. pc' \in [Threads -> Pcs] /\ cur' \in [Threads -> Call]
  BY <1>1, <1>3, GotoPc DEF Inv, TypeOK, Pcs
<1>5. TypeOK'
  BY <1>2, <1>4 DEF Inv, TypeOK
<1>6. LockAInv' /\ DepthInv'
  BY <1>1, <1>2, KeepsA DEF Pcs
<1>7. LockBInv'
  BY <1>1, <1>2, KeepsB DEF Pcs, InB
<1> QED
  BY <1>5, <1>6, <1>7 DEF Inv

\* DrainNext preserves the invariant.
LEMMA DrainNextInv == ASSUME Inv, NEW t \in Threads, DrainNext(t) PROVE Inv'
<1>1. /\ pc[t] = "drain" /\ local[t] # <<>> /\ Goto(t, "wantB")
      /\ cur'      = [cur EXCEPT ![t] = Head(local[t])]
      /\ local'    = [local EXCEPT ![t] = Tail(@)]
      /\ replayed' = [replayed EXCEPT ![t] = @ + 1]
  BY DEF DrainNext
<1>2. UNCHANGED <<depth, deferred, outer, lockA, lockB, bit, list, queued>>
  BY DEF DrainNext, locks, engine
<1>3. pc' \in [Threads -> Pcs]
  BY <1>1, GotoPc DEF Inv, Pcs
<1>4. Head(local[t]) \in Call /\ Tail(local[t]) \in Seq(DeferredCall)
  BY <1>1 DEF Inv, TypeOK, Call
<1>5. /\ cur' \in [Threads -> Call] /\ local' \in [Threads -> Seq(DeferredCall)]
      /\ replayed' \in [Threads -> Nat]
  BY <1>1, <1>4 DEF Inv, TypeOK
<1>6. TypeOK'
  BY <1>2, <1>3, <1>5 DEF Inv, TypeOK
<1>7. depth[t] = 0
  BY <1>1 DEF Inv, DepthInv
<1>8. LockAInv' /\ DepthInv'
  BY <1>1, <1>2, <1>7, KeepsA DEF Pcs
<1>9. LockBInv'
  BY <1>1, <1>2, KeepsB DEF Pcs, InB
<1> QED
  BY <1>6, <1>8, <1>9 DEF Inv

\* The last element of a sequence and the rest of it.
LEMMA LastFront ==
  ASSUME NEW S, NEW s \in Seq(S), s # <<>>
  PROVE  Last(s) \in S /\ Front(s) \in Seq(S) /\ Len(Front(s)) = Len(s) - 1
<1>1. Len(s) \in Nat \ {0} /\ \A i \in 1..Len(s) : s[i] \in S
  OBVIOUS
<1>2. Last(s) \in S
  BY <1>1 DEF Last
<1>3. Front(s) \in Seq(S) /\ Len(Front(s)) = Len(s) - 1
  BY <1>1, SubSeqProperties DEF Front
<1> QED
  BY <1>2, <1>3

\* DrainDone preserves the invariant: the frame it returns to holds LockB.
LEMMA DrainDoneInv == ASSUME Inv, NEW t \in Threads, DrainDone(t) PROVE Inv'
<1>1. pc[t] = "drain" /\ UNCHANGED <<depth, deferred, lockA, lockB, bit, list, queued, replayed>>
  BY DEF DrainDone, locks, engine, counts
<1>2. depth[t] = 0
  BY <1>1 DEF Inv, DepthInv
<1>3. CASE outer[t] = <<>>
  <2>1. Goto(t, "run") /\ UNCHANGED <<local, cur, outer>>
    BY <1>3 DEF DrainDone
  <2>2. pc' \in [Threads -> Pcs]
    BY <2>1, GotoPc DEF Inv, Pcs
  <2>3. TypeOK'
    BY <1>1, <2>1, <2>2 DEF Inv, TypeOK
  <2>4. LockAInv' /\ DepthInv'
    BY <1>1, <1>2, <2>1, KeepsA DEF Pcs
  <2>5. LockBInv'
    BY <1>1, <2>1, KeepsB DEF Pcs, InB
  <2> QED
    BY <2>3, <2>4, <2>5 DEF Inv
<1>4. CASE outer[t] # <<>>
  <2>1. /\ Goto(t, "inB")
        /\ cur'   = [cur EXCEPT ![t] = Last(outer[t]).cur]
        /\ local' = [local EXCEPT ![t] = Last(outer[t]).local]
        /\ outer' = [outer EXCEPT ![t] = Front(@)]
    BY <1>4 DEF DrainDone
  <2>2. /\ Last(outer[t]) \in Frame /\ Front(outer[t]) \in Seq(Frame)
        /\ Len(Front(outer[t])) = Len(outer[t]) - 1
    <3>1. outer[t] \in Seq(Frame)
      BY DEF Inv, TypeOK
    <3> QED
      BY <1>4, <3>1, LastFront
  <2>3. /\ pc' \in [Threads -> Pcs]
        /\ \A u \in Threads : pc'[u] = IF u = t THEN "inB" ELSE pc[u]
    BY <2>1, GotoPc DEF Inv, Pcs
  <2>4. Last(outer[t]).cur \in Call /\ Last(outer[t]).local \in Seq(DeferredCall)
    BY <2>2 DEF Frame
  <2>5. /\ cur' \in [Threads -> Call] /\ local' \in [Threads -> Seq(DeferredCall)]
        /\ outer' \in [Threads -> Seq(Frame)]
    BY <2>1, <2>2, <2>4 DEF Inv, TypeOK
  <2>6. TypeOK'
    BY <1>1, <2>3, <2>5 DEF Inv, TypeOK
  <2>7. LockAInv' /\ DepthInv'
    BY <1>1, <1>2, <2>1, KeepsA DEF Pcs
  <2>8. \A u \in Threads : Len(outer'[u]) = IF u = t THEN Len(outer[u]) - 1 ELSE Len(outer[u])
    BY <2>1, <2>2 DEF Inv, TypeOK
  <2>9. \A u \in Threads : HeldB(u)' = HeldB(u)
    BY <1>1, <2>3, <2>8, CountsNat DEF HeldB, InB
  <2>10. LockBInv'
    BY <1>1, <2>9 DEF Inv, LockBInv
  <2> QED
    BY <2>6, <2>7, <2>10 DEF Inv
<1> QED
  BY <1>3, <1>4

(***************************************************************************)
(* The originals.                                                          *)
(***************************************************************************)

\* AcquireB preserves the invariant: LockB was free or the thread's own.
LEMMA AcquireBInv == ASSUME Inv, NEW t \in Threads, AcquireB(t) PROVE Inv'
<1>1. /\ pc[t] = "wantB" /\ Goto(t, "inB") /\ lockB.owner \in {NoThread, t}
      /\ lockB' = [owner |-> t, count |-> lockB.count + 1]
  BY DEF AcquireB, CanAcquire, Acquired
<1>2. UNCHANGED <<depth, deferred, local, cur, outer, lockA, bit, list, queued, replayed>>
  BY DEF AcquireB, engine, counts
<1>3. /\ pc' \in [Threads -> Pcs]
      /\ \A u \in Threads : pc'[u] = IF u = t THEN "inB" ELSE pc[u]
  BY <1>1, GotoPc DEF Inv, Pcs
<1>4. lockB.count \in Nat /\ lockB' \in Lock
  BY <1>1 DEF Inv, TypeOK, Lock
<1>5. TypeOK'
  BY <1>2, <1>3, <1>4 DEF Inv, TypeOK
<1>6. depth[t] = 0
  BY <1>1 DEF Inv, DepthInv
<1>7. LockAInv' /\ DepthInv'
  BY <1>1, <1>2, <1>6, KeepsA DEF Pcs
<1>8. \A u \in Threads : HeldB(u)' = IF u = t THEN HeldB(u) + 1 ELSE HeldB(u)
  BY <1>1, <1>2, <1>3, CountsNat DEF HeldB, InB
<1>9. HeldB(t) = lockB.count /\ \A u \in Threads : u # t => HeldB(u) = 0
  BY <1>1, NullsAssumption DEF Inv, LockBInv
<1>10. LockBInv'
  BY <1>1, <1>4, <1>8, <1>9, NullsAssumption DEF LockBInv
<1> QED
  BY <1>5, <1>7, <1>10 DEF Inv

\* WriteList preserves the invariant: it writes actors that exist.
LEMMA WriteListInv == ASSUME Inv, NEW t \in Threads, WriteList(t) PROVE Inv'
<1>1. /\ pc[t] = "inB" /\ Goto(t, "wrote") /\ Writes(cur[t])
      /\ list' = list \cup {cur[t].actor} \/ list' = list \ {cur[t].actor}
  BY DEF WriteList
<1>2. UNCHANGED <<depth, deferred, local, cur, outer, lockA, lockB, bit, queued, replayed>>
  BY DEF WriteList, locks, counts
<1>3. cur[t].actor \in Actors
  <2>1. cur[t] \in Call /\ list \subseteq Actors
    BY DEF Inv, TypeOK
  <2>2. CASE cur[t].kind \in Kinds
    BY <2>1, <2>2 DEF Call, DeferredCall, OtherCall, Kinds
  <2>3. CASE cur[t].kind \notin Kinds
    BY <1>1, <2>1, <2>3 DEF Writes, Kinds
  <2> QED
    BY <2>2, <2>3
<1>4. list' \subseteq Actors
  BY <1>1, <1>3 DEF Inv, TypeOK
<1>5. pc' \in [Threads -> Pcs]
  BY <1>1, GotoPc DEF Inv, Pcs
<1>6. TypeOK'
  BY <1>2, <1>4, <1>5 DEF Inv, TypeOK
<1>7. depth[t] = 0
  BY <1>1 DEF Inv, DepthInv
<1>8. LockAInv' /\ DepthInv'
  BY <1>1, <1>2, <1>7, KeepsA DEF Pcs
<1>9. LockBInv'
  BY <1>1, <1>2, KeepsB DEF Pcs, InB
<1> QED
  BY <1>6, <1>8, <1>9 DEF Inv

\* ReturnFromB preserves the invariant: the original held LockB.
LEMMA ReturnFromBInv == ASSUME Inv, NEW t \in Threads, ReturnFromB(t) PROVE Inv'
<1>1. /\ pc[t] \in InB /\ lockB' = Released(lockB)
      /\ cur' = [cur EXCEPT ![t] = NoCall]
      /\ bit' = bit \/ bit' = [bit EXCEPT ![cur[t].actor] = (cur[t].kind = "Add")]
  BY Zenon DEF ReturnFromB, InB
<1>2. UNCHANGED <<depth, deferred, local, outer, lockA, list, queued, replayed>>
  BY DEF ReturnFromB, counts
<1>3. PICK l \in {"drain", "run"} : Goto(t, l)
  BY DEF ReturnFromB
<1>4. /\ pc' \in [Threads -> Pcs]
      /\ \A u \in Threads : pc'[u] = IF u = t THEN l ELSE pc[u]
  BY <1>3, GotoPc DEF Inv, Pcs
<1>5. cur' \in [Threads -> Call]
  <2>1. NoCall \in Call
    BY DEF NoCall, Call, OtherCall
  <2> QED
    BY <1>1, <2>1 DEF Inv, TypeOK
<1>6. bit' \in [Actors -> BOOLEAN]
  <2>1. bit \in [Actors -> BOOLEAN] /\ (cur[t].kind = "Add") \in BOOLEAN
    BY DEF Inv, TypeOK
  <2> QED
    BY <1>1, <2>1
<1>7. lockB.owner = t /\ lockB.count = HeldB(t) /\ HeldB(t) = Len(outer[t]) + 1
  BY <1>1, CountsNat, Owns DEF HeldB
<1>8. /\ lockB' \in Lock /\ lockB'.count = Len(outer[t])
      /\ lockB'.owner = IF Len(outer[t]) = 0 THEN NoThread ELSE t
  <2>1. lockB \in Lock /\ lockB.count = Len(outer[t]) + 1 /\ Len(outer[t]) \in Nat
    BY <1>7, CountsNat DEF Inv, TypeOK
  <2> QED
    BY <1>1, <1>7, <2>1, Release
<1>9. TypeOK'
  BY <1>2, <1>4, <1>5, <1>6, <1>8 DEF Inv, TypeOK
<1>10. depth[t] = 0
  BY <1>1 DEF Inv, DepthInv, InB
<1>11. LockAInv' /\ DepthInv'
  BY <1>1, <1>2, <1>3, <1>10, KeepsA DEF Pcs, InB
<1>12. \A u \in Threads : HeldB(u)' = IF u = t THEN Len(outer[t]) ELSE HeldB(u)
  BY <1>2, <1>4 DEF HeldB, InB
<1>13. \A u \in Threads : u # t => HeldB(u) = 0
  BY <1>7 DEF Inv, LockBInv
<1>14. LockBInv'
  BY <1>8, <1>12, <1>13, CountsNat, NullsAssumption DEF LockBInv
<1> QED
  BY <1>9, <1>11, <1>14 DEF Inv

(***************************************************************************)
(* The invariant and what follows from it.                                 *)
(***************************************************************************)

\* Every step preserves the invariant.
LEMMA StepInv == Inv /\ [Next]_vars => Inv'
<1> SUFFICES ASSUME Inv, [Next]_vars PROVE Inv'
    OBVIOUS
<1>1. ASSUME NEW t \in Threads, Gates(t) PROVE Inv'
  <2> PICK a \in Actors : \E k \in Kinds : pc[t] = "run" /\ (Defer(t, k, a) \/ PassThrough(t, k, a))
    BY <1>1 DEF Gates, HookedRemoveAtCycleHub, HookedAddInsideAddWrapper, Kinds
  <2> QED
    BY DeferInv, CallOriginalInv DEF PassThrough
<1>2. ASSUME NEW t \in Threads, Wrap(t) PROVE Inv'
  BY <1>2, EnterWrapInv, CallOutInv, AcquireAInv, LeaveAInv, WrapEpilogueInv,
     DrainNextInv, DrainDoneInv DEF Wrap
<1>3. ASSUME NEW t \in Threads, Originals(t) PROVE Inv'
  BY <1>3, CallOriginalInv, AcquireBInv, WriteListInv, ReturnFromBInv DEF Originals, Transfer
<1>4. CASE UNCHANGED vars
  <2>1. UNCHANGED <<pc, depth, deferred, local, cur, outer, lockA, lockB, bit, list, queued, replayed>>
    BY <1>4 DEF vars, locks, engine, counts
  <2>2. TypeOK'
    BY <2>1 DEF Inv, TypeOK
  <2>3. DepthInv' /\ LockAInv' /\ LockBInv'
    BY <2>1 DEF Inv, DepthInv, LockAInv, LockBInv, HeldA, HeldB
  <2> QED
    BY <2>2, <2>3 DEF Inv
<1> QED
  BY <1>1, <1>2, <1>3, <1>4 DEF Next

\* The invariant holds throughout.
THEOREM Invariance == Spec => []Inv
  BY InitInv, StepInv, PTL DEF Spec

\* Every variable keeps its type, the recursion counts of the two spin locks
\* included: no frame releases a lock it does not hold.
THEOREM TypeCorrect == Spec => []TypeOK
<1>1. Inv => TypeOK
  BY DEF Inv
<1> QED
  BY <1>1, Invariance, PTL

\* The LockA -> LockB edge never forms: a thread that spins for LockB does not
\* own LockA, whatever the other threads do and however deep id 19369 recurses.
THEOREM EdgeBroken == Spec => []NoLockBUnderLockA
<1>1. Inv => NoLockBUnderLockA
  <2> SUFFICES ASSUME Inv, NEW t \in Threads, pc[t] = "wantB" PROVE lockA.owner # t
    BY DEF NoLockBUnderLockA
  <2>1. HeldA(t) = 0
    BY DEF Inv, DepthInv, HeldA
  <2> QED
    BY <2>1, NullsAssumption DEF Inv, LockAInv
<1> QED
  BY <1>1, Invariance, PTL

(***************************************************************************)
(* The queues, when a replayed Add does not call out to id 19369.  The     *)
(* vector being drained, then the queue, hold exactly the calls that were  *)
(* deferred and not yet replayed, with consecutive tickets.                *)
(***************************************************************************)
QueueOf(t) ==
    /\ depth[t] = 0 => deferred[t] = <<>>
    /\ pc[t] \in {"run", "wantA", "ret"} => local[t] = <<>>
    /\ pc[t] \in {"wantB", "inB", "wrote"} /\ cur[t].ticket = 0 => local[t] = <<>>
    /\ \A i \in 1..Len(outer[t]) : outer[t][i].local = <<>>
    /\ queued[t] = replayed[t] + Len(local[t]) + Len(deferred[t])
    /\ \A i \in 1..Len(local[t]) : local[t][i].ticket = replayed[t] + i
    /\ \A i \in 1..Len(deferred[t]) :
          deferred[t][i].ticket = replayed[t] + Len(local[t]) + i

QueueInv == \A t \in Threads : QueueOf(t)

ThreadStep(t) == Gates(t) \/ Wrap(t) \/ Originals(t)

\* A step of one thread leaves the thread-local state of the others alone.
LEMMA OtherThreads ==
  ASSUME TypeOK, NEW t \in Threads, ThreadStep(t), NEW u \in Threads, u # t
  PROVE  /\ pc'[u] = pc[u] /\ depth'[u] = depth[u] /\ deferred'[u] = deferred[u]
         /\ local'[u] = local[u] /\ cur'[u] = cur[u] /\ outer'[u] = outer[u]
         /\ queued'[u] = queued[u] /\ replayed'[u] = replayed[u]
<1> USE DEF TypeOK, Goto, locks, engine, counts
<1>1. CASE EnterWrap(t)
  BY <1>1 DEF EnterWrap
<1>2. CASE CallOut(t)
  BY <1>2 DEF CallOut
<1>3. CASE AcquireA(t)
  BY <1>3 DEF AcquireA
<1>4. CASE LeaveA(t)
  BY <1>4 DEF LeaveA
<1>5. CASE WrapEpilogue(t)
  BY <1>5 DEF WrapEpilogue
<1>6. CASE DrainNext(t)
  BY <1>6 DEF DrainNext
<1>7. CASE DrainDone(t)
  BY <1>7 DEF DrainDone
<1>8. ASSUME NEW k, NEW a, Defer(t, k, a)
      PROVE  /\ pc'[u] = pc[u] /\ depth'[u] = depth[u] /\ deferred'[u] = deferred[u]
             /\ local'[u] = local[u] /\ cur'[u] = cur[u] /\ outer'[u] = outer[u]
             /\ queued'[u] = queued[u] /\ replayed'[u] = replayed[u]
  BY <1>8 DEF Defer
<1>9. ASSUME NEW k, NEW a, CallOriginal(t, k, a)
      PROVE  /\ pc'[u] = pc[u] /\ depth'[u] = depth[u] /\ deferred'[u] = deferred[u]
             /\ local'[u] = local[u] /\ cur'[u] = cur[u] /\ outer'[u] = outer[u]
             /\ queued'[u] = queued[u] /\ replayed'[u] = replayed[u]
  BY <1>9 DEF CallOriginal
<1>10. CASE AcquireB(t)
  BY <1>10 DEF AcquireB
<1>11. CASE WriteList(t)
  BY <1>11 DEF WriteList
<1>12. CASE ReturnFromB(t)
  BY <1>12 DEF ReturnFromB
<1> QED
  BY <1>1, <1>2, <1>3, <1>4, <1>5, <1>6, <1>7, <1>8, <1>9, <1>10, <1>11, <1>12
     DEF ThreadStep, Gates, Wrap, Originals, HookedRemoveAtCycleHub,
         HookedAddInsideAddWrapper, PassThrough, Transfer

\* Entering the wrap keeps the queue of the thread as it was.
LEMMA QEnterWrap == ASSUME Inv, QueueInv, NEW t \in Threads, EnterWrap(t) PROVE QueueOf(t)'
<1>1. /\ pc[t] = "run" /\ pc'[t] = "wantA" /\ depth'[t] = depth[t] + 1
      /\ UNCHANGED <<deferred, local, cur, outer, queued, replayed>>
  BY DEF EnterWrap, Goto, counts, Inv, TypeOK
<1>2. depth'[t] # 0
  BY <1>1, CountsNat
<1> QED
  BY <1>1, <1>2 DEF QueueInv, QueueOf
\* Only Transfer calls out, and it is not called from a drain.
LEMMA QCallOut == ASSUME Inv, QueueInv, ~Reentrant, NEW t \in Threads, CallOut(t) PROVE QueueOf(t)'
<1>1. /\ pc[t] = "inB" /\ pc'[t] = "wantA" /\ depth'[t] = depth[t] + 1
      /\ outer'[t] = Append(outer[t], [cur |-> [cur[t] EXCEPT !.out = TRUE], local |-> local[t]])
      /\ local'[t] = <<>>
      /\ UNCHANGED <<deferred, queued, replayed>>
  BY DEF CallOut, Goto, counts, Inv, TypeOK
<1>2. depth'[t] # 0
  BY <1>1, CountsNat
<1>3. cur[t].kind = "Transfer"
  BY DEF CallOut, MayCallOut
<1>4. cur[t].ticket = 0
  BY <1>3 DEF Inv, TypeOK, Call, DeferredCall, OtherCall, Kinds
<1>5. local[t] = <<>>
  BY <1>1, <1>4 DEF QueueInv, QueueOf
<1>6. \A i \in 1..Len(outer'[t]) : outer'[t][i].local = <<>>
  <2>1. outer[t] \in Seq(Frame) /\ \A i \in 1..Len(outer[t]) : outer[t][i].local = <<>>
    BY DEF Inv, TypeOK, QueueInv, QueueOf
  <2> QED
    BY <1>1, <1>5, <2>1
<1>7. /\ deferred'[t] = deferred[t] /\ local'[t] = local[t]
      /\ queued'[t] = queued[t] /\ replayed'[t] = replayed[t]
  BY <1>1, <1>5
<1>8. /\ queued[t] = replayed[t] + Len(local[t]) + Len(deferred[t])
      /\ \A i \in 1..Len(local[t]) : local[t][i].ticket = replayed[t] + i
      /\ \A i \in 1..Len(deferred[t]) :
            deferred[t][i].ticket = replayed[t] + Len(local[t]) + i
  BY DEF QueueInv, QueueOf
<1>9. (/\ queued[t] = replayed[t] + Len(local[t]) + Len(deferred[t])
       /\ \A i \in 1..Len(local[t]) : local[t][i].ticket = replayed[t] + i
       /\ \A i \in 1..Len(deferred[t]) :
             deferred[t][i].ticket = replayed[t] + Len(local[t]) + i)'
  BY <1>7, <1>8
<1> QED
  BY <1>1, <1>2, <1>5, <1>6, <1>7, <1>9 DEF QueueOf

\* Taking and leaving LockA keeps the queue as it was.
LEMMA QAcquireA == ASSUME Inv, QueueInv, NEW t \in Threads, AcquireA(t) \/ LeaveA(t) PROVE QueueOf(t)'
<1>1. /\ pc[t] \in {"wantA", "run"} /\ pc'[t] \in {"run", "ret"}
      /\ UNCHANGED <<depth, deferred, local, cur, outer, queued, replayed>>
  BY DEF AcquireA, LeaveA, Goto, counts, Inv, TypeOK
<1> QED
  BY <1>1 DEF QueueInv, QueueOf

\* The epilogue moves the whole queue out, or nothing.
LEMMA QWrapEpilogue == ASSUME Inv, QueueInv, NEW t \in Threads, WrapEpilogue(t) PROVE QueueOf(t)'
<1>1. /\ pc[t] = "ret" /\ depth'[t] = depth[t] - 1
      /\ UNCHANGED <<cur, outer, queued, replayed>>
  BY DEF WrapEpilogue, counts, Inv, TypeOK
<1>2. local[t] = <<>> /\ Len(local[t]) = 0
  BY <1>1 DEF QueueInv, QueueOf
<1>3. CASE depth[t] = 1
  <2>1. pc'[t] = "drain" /\ local'[t] = deferred[t] /\ deferred'[t] = <<>>
    BY <1>3 DEF WrapEpilogue, Goto, Inv, TypeOK
  <2>2. Len(deferred[t]) \in Nat /\ queued[t] \in Nat /\ replayed[t] \in Nat
    BY DEF Inv, TypeOK
  <2>3. /\ queued[t] = replayed[t] + Len(deferred[t])
        /\ \A i \in 1..Len(deferred[t]) : deferred[t][i].ticket = replayed[t] + i
        /\ \A i \in 1..Len(outer[t]) : outer[t][i].local = <<>>
    BY <1>2, <2>2 DEF QueueInv, QueueOf
  <2>4. Len(deferred'[t]) = 0
    BY <2>1
  <2> QED
    BY <1>1, <2>1, <2>2, <2>3, <2>4 DEF QueueOf
<1>4. CASE depth[t] # 1
  <2>1. pc'[t] = "run" /\ local'[t] = local[t] /\ deferred'[t] = deferred[t]
    BY <1>4 DEF WrapEpilogue, Goto, Inv, TypeOK
  <2>2. depth'[t] # 0
    BY <1>1, <1>4, CountsNat
  <2> QED
    BY <1>1, <2>1, <2>2, <1>2 DEF QueueInv, QueueOf
<1> QED
  BY <1>3, <1>4

\* A deferred call gets the next ticket.
LEMMA QDefer ==
  ASSUME Inv, QueueInv, NEW t \in Threads, NEW k, NEW a, pc[t] = "run", Defer(t, k, a)
  PROVE  QueueOf(t)'
<1> DEFINE call == [kind |-> k, actor |-> a, ticket |-> queued[t] + 1, out |-> FALSE]
<1>1. /\ depth[t] > 0 /\ queued'[t] = queued[t] + 1
      /\ deferred'[t] = Append(deferred[t], call)
      /\ UNCHANGED <<pc, depth, local, cur, outer, replayed>>
  BY DEF Defer, Inv, TypeOK
<1>2. local[t] = <<>> /\ Len(local[t]) = 0
  BY DEF QueueInv, QueueOf
<1>3. /\ deferred[t] \in Seq(DeferredCall) /\ queued[t] \in Nat /\ replayed[t] \in Nat
      /\ Len(deferred[t]) \in Nat
  BY DEF Inv, TypeOK
<1>4. /\ queued[t] = replayed[t] + Len(deferred[t])
      /\ \A i \in 1..Len(deferred[t]) : deferred[t][i].ticket = replayed[t] + Len(local[t]) + i
      /\ \A i \in 1..Len(outer[t]) : outer[t][i].local = <<>>
  BY <1>2, <1>3 DEF QueueInv, QueueOf
<1>5. /\ Len(deferred'[t]) = Len(deferred[t]) + 1
      /\ \A i \in 1..Len(deferred'[t]) :
            deferred'[t][i] = IF i = Len(deferred[t]) + 1 THEN call ELSE deferred[t][i]
  BY <1>1, <1>3
<1>6. call.ticket = replayed[t] + Len(local[t]) + Len(deferred[t]) + 1
  BY <1>2, <1>3, <1>4
<1> HIDE DEF call
<1>7. \A i \in 1..Len(deferred'[t]) : deferred'[t][i].ticket = replayed[t] + Len(local[t]) + i
  <2> TAKE i \in 1..Len(deferred'[t])
  <2>1. CASE i = Len(deferred[t]) + 1
    <3>1. deferred'[t][i] = call
      BY <1>5, <2>1
    <3>2. call.ticket = replayed[t] + Len(local[t]) + i
      BY <1>2, <1>3, <1>6, <2>1
    <3> QED
      BY <3>1, <3>2
  <2>2. CASE i # Len(deferred[t]) + 1
    <3>1. i \in 1..Len(deferred[t])
      BY <1>3, <1>5, <2>2
    <3> QED
      BY <1>4, <1>5, <2>2, <3>1
  <2> QED
    BY <2>1, <2>2
<1>8. queued'[t] = replayed'[t] + Len(local'[t]) + Len(deferred'[t])
  BY <1>1, <1>2, <1>3, <1>4, <1>5
<1>9. depth'[t] # 0
  BY <1>1
<1> QED
  BY <1>1, <1>2, <1>4, <1>7, <1>8, <1>9 DEF QueueOf

\* A call that passes through is made with no drain open.
LEMMA QCallOriginal ==
  ASSUME Inv, QueueInv, NEW t \in Threads, NEW k, NEW a, pc[t] = "run", CallOriginal(t, k, a)
  PROVE  QueueOf(t)'
<1>1. /\ pc'[t] = "wantB"
      /\ UNCHANGED <<depth, deferred, local, outer, queued, replayed>>
  BY DEF CallOriginal, Goto, counts, Inv, TypeOK
<1> QED
  BY <1>1 DEF QueueInv, QueueOf

\* The replayed call is the one whose ticket is next.
LEMMA QDrainNext ==
  ASSUME Inv, QueueInv, NEW t \in Threads, DrainNext(t)
  PROVE  QueueOf(t)' /\ replayed'[t] = replayed[t] + 1 /\ cur'[t].ticket = replayed'[t]
<1>1. /\ pc[t] = "drain" /\ local[t] # <<>> /\ pc'[t] = "wantB"
      /\ cur'[t] = Head(local[t]) /\ local'[t] = Tail(local[t])
      /\ replayed'[t] = replayed[t] + 1
      /\ UNCHANGED <<depth, deferred, outer, queued>>
  BY DEF DrainNext, Goto, Inv, TypeOK
<1>2. depth[t] = 0
  BY <1>1 DEF Inv, DepthInv
<1>3. deferred[t] = <<>> /\ Len(deferred[t]) = 0
  BY <1>2 DEF QueueInv, QueueOf
<1>4. /\ local[t] \in Seq(DeferredCall) /\ queued[t] \in Nat /\ replayed[t] \in Nat
      /\ Len(local[t]) \in Nat \ {0}
  BY <1>1 DEF Inv, TypeOK
<1>5. /\ Len(local'[t]) = Len(local[t]) - 1
      /\ \A i \in 1..Len(local'[t]) : local'[t][i] = local[t][i + 1]
      /\ cur'[t] = local[t][1]
  BY <1>1, <1>4
<1>6. /\ queued[t] = replayed[t] + Len(local[t])
      /\ \A i \in 1..Len(local[t]) : local[t][i].ticket = replayed[t] + i
  BY <1>3, <1>4 DEF QueueInv, QueueOf
<1>7. cur'[t].ticket = replayed[t] + 1 /\ cur'[t].ticket # 0
  BY <1>4, <1>5, <1>6
<1>8. \A i \in 1..Len(local'[t]) : local'[t][i].ticket = replayed'[t] + i
  <2> TAKE i \in 1..Len(local'[t])
  <2>1. i + 1 \in 1..Len(local[t]) /\ i \in Nat
    BY <1>4, <1>5
  <2>2. local'[t][i].ticket = replayed[t] + (i + 1)
    BY <1>5, <1>6, <2>1
  <2> QED
    BY <1>1, <1>4, <2>1, <2>2
<1>9. queued'[t] = replayed'[t] + Len(local'[t]) + Len(deferred'[t])
  BY <1>1, <1>3, <1>4, <1>5, <1>6
<1>10. /\ \A i \in 1..Len(outer'[t]) : outer'[t][i].local = <<>>
       /\ deferred'[t] = <<>> /\ Len(deferred'[t]) = 0
  BY <1>1, <1>3 DEF QueueInv, QueueOf
<1> QED
  BY <1>1, <1>7, <1>8, <1>9, <1>10 DEF QueueOf

\* A drain ends with nothing left to replay in any frame of the thread.
LEMMA QDrainDone ==
  ASSUME Inv, QueueInv, NEW t \in Threads, DrainDone(t)
  PROVE  QueueOf(t)'
<1>1. pc[t] = "drain" /\ local[t] = <<>> /\ UNCHANGED <<depth, deferred, queued, replayed>>
  BY DEF DrainDone, counts
<1>2. CASE outer[t] = <<>>
  <2>1. pc'[t] = "run" /\ UNCHANGED <<local, cur, outer>>
    BY <1>2 DEF DrainDone, Goto, Inv, TypeOK
  <2> QED
    BY <1>1, <2>1 DEF QueueInv, QueueOf
<1>3. CASE outer[t] # <<>>
  <2>1. /\ pc'[t] = "inB" /\ local'[t] = outer[t][Len(outer[t])].local
        /\ outer'[t] = Front(outer[t])
    BY <1>3 DEF DrainDone, Goto, Inv, TypeOK, Last
  <2>2. outer[t] \in Seq(Frame) /\ Len(outer[t]) \in Nat \ {0}
    BY <1>3 DEF Inv, TypeOK
  <2>3. /\ Len(Front(outer[t])) = Len(outer[t]) - 1
        /\ \A i \in 1..Len(outer[t]) - 1 : Front(outer[t])[i] = outer[t][i]
    BY <2>2 DEF Front
  <2>4. local'[t] = <<>>
    BY <2>1, <2>2 DEF QueueInv, QueueOf
  <2>5. \A i \in 1..Len(outer'[t]) : outer'[t][i].local = <<>>
    <3>1. \A i \in 1..Len(outer[t]) : outer[t][i].local = <<>>
      BY DEF QueueInv, QueueOf
    <3>2. \A i \in 1..Len(outer[t]) - 1 : i \in 1..Len(outer[t])
      BY <2>2
    <3> QED
      BY <2>1, <2>2, <2>3, <3>1, <3>2
  <2> QED
    BY <1>1, <2>1, <2>4, <2>5 DEF QueueInv, QueueOf
<1> QED
  BY <1>2, <1>3

\* The originals leave the queue alone and return to the drain that called.
LEMMA QOriginals ==
  ASSUME Inv, QueueInv, NEW t \in Threads, AcquireB(t) \/ WriteList(t) \/ ReturnFromB(t)
  PROVE  QueueOf(t)'
<1>1. UNCHANGED <<depth, deferred, local, outer, queued, replayed>>
  BY DEF AcquireB, WriteList, ReturnFromB, counts
<1>2. CASE AcquireB(t) \/ WriteList(t)
  <2>1. /\ pc[t] \in {"wantB", "inB"} /\ pc'[t] \in {"inB", "wrote"} /\ cur' = cur
    BY <1>2 DEF AcquireB, WriteList, Goto, Inv, TypeOK
  <2> QED
    BY <1>1, <2>1 DEF QueueInv, QueueOf
<1>3. CASE ReturnFromB(t)
  <2>1. /\ pc[t] \in {"inB", "wrote"}
        /\ pc'[t] = IF cur[t].ticket > 0 THEN "drain" ELSE "run"
    BY <1>3 DEF ReturnFromB, Goto, Inv, TypeOK
  <2>2. cur[t].ticket \in Nat
    BY DEF Inv, TypeOK, Call, DeferredCall, OtherCall
  <2>3. pc'[t] = "run" => local[t] = <<>>
    BY <2>1, <2>2 DEF QueueInv, QueueOf
  <2>4. pc'[t] \in {"drain", "run"}
    BY <2>1
  <2> QED
    BY <1>1, <2>3, <2>4 DEF QueueInv, QueueOf
<1> QED
  BY <1>2, <1>3

\* Nothing is queued initially.
LEMMA QueueInit == Init => QueueInv
  BY DEF Init, QueueInv, QueueOf

\* Every step preserves the shape of every queue.
LEMMA QueueStep ==
  ASSUME ~Reentrant, Inv, QueueInv, [Next]_vars PROVE QueueInv'
<1>1. ASSUME NEW t \in Threads, ThreadStep(t) PROVE QueueInv'
  <2>1. QueueOf(t)'
    BY <1>1, QEnterWrap, QCallOut, QAcquireA, QWrapEpilogue, QDefer, QCallOriginal,
       QDrainNext, QDrainDone, QOriginals
       DEF ThreadStep, Gates, Wrap, Originals, HookedRemoveAtCycleHub,
           HookedAddInsideAddWrapper, PassThrough, Transfer
  <2>2. ASSUME NEW u \in Threads, u # t PROVE QueueOf(u)'
    <3>1. /\ pc'[u] = pc[u] /\ depth'[u] = depth[u] /\ deferred'[u] = deferred[u]
          /\ local'[u] = local[u] /\ cur'[u] = cur[u] /\ outer'[u] = outer[u]
          /\ queued'[u] = queued[u] /\ replayed'[u] = replayed[u]
      BY <1>1, <2>2, OtherThreads DEF Inv
    <3> QED
      BY <3>1 DEF QueueInv, QueueOf
  <2> QED
    BY <2>1, <2>2 DEF QueueInv
<1>2. CASE UNCHANGED vars
  BY <1>2 DEF vars, counts, QueueInv, QueueOf
<1> QED
  BY <1>1, <1>2 DEF Next, ThreadStep

\* The queues have that shape throughout.
THEOREM QueueInvariance == ~Reentrant => (Spec => []QueueInv)
<1> SUFFICES ASSUME ~Reentrant PROVE Spec => []QueueInv
    OBVIOUS
<1>1. Inv /\ QueueInv /\ [Next]_vars => QueueInv'
  BY QueueStep
<1> QED
  BY <1>1, QueueInit, Invariance, PTL DEF Spec

\* A step that counts a replay replays the call with that ticket.
LEMMA OneReplay ==
  ASSUME Inv, QueueInv, [Next]_vars, NEW u \in Threads, replayed'[u] # replayed[u]
  PROVE  cur'[u].ticket = replayed'[u]
<1>1. PICK t \in Threads : ThreadStep(t)
  BY DEF Next, ThreadStep, vars, counts
<1>2. u = t
  BY <1>1, OtherThreads DEF Inv
<1>3. DrainNext(t)
  <2> SUFFICES ASSUME ~DrainNext(t) PROVE replayed' = replayed
    BY <1>2
  <2> QED
    BY <1>1 DEF ThreadStep, Gates, Wrap, Originals, HookedRemoveAtCycleHub,
         HookedAddInsideAddWrapper, PassThrough, Defer, CallOriginal, Transfer, EnterWrap,
         CallOut, AcquireA, LeaveA, WrapEpilogue, DrainDone, AcquireB, WriteList,
         ReturnFromB, counts
<1> QED
  BY <1>2, <1>3, QDrainNext

\* Every thread replays the calls it deferred once each and in the order it
\* deferred them (Phase4Defer.cpp:200-204).
THEOREM ReplaysInOrder == ~Reentrant => (Spec => ReplayOrder)
<1> SUFFICES ASSUME ~Reentrant PROVE Spec => ReplayOrder
    OBVIOUS
<1>1. Inv /\ QueueInv /\ [Next]_vars =>
        [\A t \in Threads : replayed'[t] # replayed[t] => cur'[t].ticket = replayed'[t]]_vars
  BY OneReplay
<1> QED
  BY <1>1, QueueInvariance, Invariance, PTL DEF Spec, ReplayOrder

(***************************************************************************)
(* The queues when a replayed Add may call out to id 19369, so that drains *)
(* run inside drains.  A frame that called out from engine code is the     *)
(* oldest one and has nothing left to replay; every other frame is a       *)
(* replayed call with the rest of its drain.                               *)
(***************************************************************************)
ShapeOf(t) ==
    /\ pc[t] \in {"run", "wantA", "ret", "drain"} => cur[t] = NoCall
    /\ pc[t] \in {"run", "wantA", "ret"} => local[t] = <<>>
    /\ pc[t] = "run" /\ depth[t] = 0 => outer[t] = <<>>
    /\ depth[t] = 0 => deferred[t] = <<>>
    /\ pc[t] \in {"wantB", "inB", "wrote"} /\ cur[t].ticket = 0 =>
          local[t] = <<>> /\ outer[t] = <<>>
    /\ \A i \in 1..Len(outer[t]) : outer[t][i].cur.ticket = 0 =>
          i = 1 /\ outer[t][i].local = <<>>

\* A queued call has a ticket.
Ticketed == {call \in DeferredCall : call.ticket > 0}
TicketsOf(t) ==
    /\ deferred[t] \in Seq(Ticketed) /\ local[t] \in Seq(Ticketed)
    /\ \A i \in 1..Len(outer[t]) : outer[t][i].local \in Seq(Ticketed)

\* f[i] calls are left to replay in the i oldest frames: what was deferred is
\* replayed, in the drain of some frame, in the active drain or in the queue.
LeftIn(f, t) ==
    /\ f \in [0..Len(outer[t]) -> Nat]
    /\ f[0] = 0
    /\ \A i \in 1..Len(outer[t]) : f[i] = f[i - 1] + Len(outer[t][i].local)
    /\ queued[t] = replayed[t] + f[Len(outer[t])] + Len(local[t]) + Len(deferred[t])

CountOf(t) == \E f : LeftIn(f, t)

\* The types of the thread-local state.
LEMMA LocalTypes ==
  ASSUME Inv, NEW t \in Threads
  PROVE  /\ deferred[t] \in Seq(DeferredCall) /\ Len(deferred[t]) \in Nat
         /\ local[t] \in Seq(DeferredCall) /\ Len(local[t]) \in Nat
         /\ outer[t] \in Seq(Frame) /\ Len(outer[t]) \in Nat
         /\ cur[t] \in Call /\ cur[t].ticket \in Nat
         /\ queued[t] \in Nat /\ replayed[t] \in Nat /\ depth[t] \in Nat
<1>1. /\ deferred[t] \in Seq(DeferredCall) /\ local[t] \in Seq(DeferredCall)
      /\ outer[t] \in Seq(Frame) /\ cur[t] \in Call
      /\ queued[t] \in Nat /\ replayed[t] \in Nat /\ depth[t] \in Nat
  BY DEF Inv, TypeOK
<1>2. cur[t].ticket \in Nat
  BY <1>1 DEF Call, DeferredCall, OtherCall
<1> QED
  BY <1>1, <1>2

\* What is left in all frames is a number.
LEMMA LeftNat ==
  ASSUME Inv, NEW t \in Threads, NEW f, LeftIn(f, t)
  PROVE  /\ f[Len(outer[t])] \in Nat /\ Len(local[t]) \in Nat /\ Len(deferred[t]) \in Nat
         /\ queued[t] \in Nat /\ replayed[t] \in Nat
         /\ queued[t] = replayed[t] + f[Len(outer[t])] + Len(local[t]) + Len(deferred[t])
<1>1. Len(outer[t]) \in Nat
  BY LocalTypes
<1>2. f \in [0..Len(outer[t]) -> Nat] /\ Len(outer[t]) \in 0..Len(outer[t])
  BY <1>1 DEF LeftIn
<1>3. f[Len(outer[t])] \in Nat
  BY <1>2
<1> QED
  BY <1>3, LocalTypes DEF LeftIn

\* NoCall has no ticket.
LEMMA NoCallTicket == NoCall.ticket = 0 /\ NoCall.kind = "Transfer"
  BY DEF NoCall

\* Entering the wrap, taking and leaving LockA keep the shape.
LEMMA SWrap ==
  ASSUME Inv, NEW t \in Threads, ShapeOf(t), CountOf(t),
         EnterWrap(t) \/ AcquireA(t) \/ LeaveA(t)
  PROVE  ShapeOf(t)' /\ CountOf(t)'
<1>1. UNCHANGED <<deferred, local, cur, outer, queued, replayed>>
  BY DEF EnterWrap, AcquireA, LeaveA, counts
<1>2. /\ pc[t] \in {"run", "wantA"} /\ pc'[t] \in {"run", "wantA", "ret"}
      /\ depth'[t] # 0
  <2>1. CASE EnterWrap(t)
    <3>1. pc[t] = "run" /\ pc'[t] = "wantA" /\ depth'[t] = depth[t] + 1
      BY <2>1 DEF EnterWrap, Goto, Inv, TypeOK
    <3> QED
      BY <3>1, LocalTypes
  <2>2. CASE AcquireA(t)
    <3>1. pc[t] = "wantA" /\ pc'[t] = "run" /\ depth'[t] = depth[t]
      BY <2>2 DEF AcquireA, Goto, Inv, TypeOK
    <3> QED
      BY <3>1, LocalTypes DEF Inv, DepthInv
  <2>3. CASE LeaveA(t)
    <3>1. pc[t] = "run" /\ pc'[t] = "ret" /\ depth'[t] = depth[t] /\ depth[t] > 0
      BY <2>3 DEF LeaveA, Goto, Inv, TypeOK
    <3> QED
      BY <3>1, LocalTypes
  <2> QED
    BY <2>1, <2>2, <2>3
<1>3. ShapeOf(t)'
  BY <1>1, <1>2 DEF ShapeOf
<1>4. CountOf(t)'
  BY <1>1 DEF CountOf, LeftIn
<1> QED
  BY <1>3, <1>4

\* A call out stacks the drain it interrupts: nothing is forgotten.
LEMMA SCallOut ==
  ASSUME Inv, NEW t \in Threads, ShapeOf(t), CountOf(t), CallOut(t)
  PROVE  ShapeOf(t)' /\ CountOf(t)'
<1> DEFINE frame == [cur |-> [cur[t] EXCEPT !.out = TRUE], local |-> local[t]]
<1>1. /\ pc[t] = "inB" /\ pc'[t] = "wantA" /\ depth'[t] = depth[t] + 1
      /\ outer'[t] = Append(outer[t], frame)
      /\ cur'[t] = NoCall /\ local'[t] = <<>>
      /\ UNCHANGED <<deferred, queued, replayed>>
  BY DEF CallOut, Goto, counts, Inv, TypeOK
<1>2. frame.local = local[t] /\ frame.cur.ticket = cur[t].ticket
  BY LocalTypes DEF Call, DeferredCall, OtherCall
<1> DEFINE n == Len(outer[t])
<1> HIDE DEF frame
<1>3. /\ n \in Nat /\ Len(outer'[t]) = n + 1
      /\ \A i \in 1..(n + 1) : outer'[t][i] = IF i = n + 1 THEN frame ELSE outer[t][i]
  BY <1>1, LocalTypes
<1>4. depth'[t] # 0
  BY <1>1, LocalTypes
<1>5. \A i \in 1..(n + 1) : outer'[t][i].cur.ticket = 0 => i = 1 /\ outer'[t][i].local = <<>>
  <2> TAKE i \in 1..(n + 1)
  <2>1. CASE i = n + 1
    <3>1. cur[t].ticket = 0 => local[t] = <<>> /\ n = 0
      BY <1>1 DEF ShapeOf
    <3> QED
      BY <1>2, <1>3, <2>1, <3>1
  <2>2. CASE i # n + 1
    <3>1. i \in 1..n
      BY <1>3, <2>2
    <3> QED
      BY <1>3, <2>2, <3>1 DEF ShapeOf
  <2> QED
    BY <2>1, <2>2
<1>6. ShapeOf(t)'
  BY <1>1, <1>3, <1>4, <1>5 DEF ShapeOf
<1>7. PICK f : LeftIn(f, t)
  BY DEF CountOf
<1>8. /\ f \in [0..n -> Nat] /\ f[0] = 0
      /\ \A i \in 1..n : f[i] = f[i - 1] + Len(outer[t][i].local)
      /\ queued[t] = replayed[t] + f[n] + Len(local[t]) + Len(deferred[t])
  BY <1>7 DEF LeftIn
<1>9. n \in 0..n /\ f[n] \in Nat
  BY <1>3, <1>8
<1>g. PICK g \in [0..(n + 1) -> Nat] :
         g[0] = 0 /\ g[n + 1] = f[n] + Len(local[t]) /\ \A i \in 0..n : g[i] = f[i]
  <2> DEFINE h == [i \in 0..(n + 1) |-> IF i = n + 1 THEN f[n] + Len(local[t]) ELSE f[i]]
  <2>1. h \in [0..(n + 1) -> Nat]
    BY <1>3, <1>8, <1>9, LocalTypes
  <2>2. h[0] = 0 /\ h[n + 1] = f[n] + Len(local[t]) /\ \A i \in 0..n : h[i] = f[i]
    BY <1>3, <1>8
  <2> QED
    BY <2>1, <2>2
<1>10. \A i \in 1..(n + 1) : g[i] = g[i - 1] + Len(outer'[t][i].local)
  <2> TAKE i \in 1..(n + 1)
  <2>1. CASE i = n + 1
    <3>1. i - 1 = n /\ n \in 0..n
      BY <1>3, <2>1
    <3> QED
      BY <1>2, <1>3, <1>g, <2>1, <3>1
  <2>2. CASE i # n + 1
    <3>1. i \in 1..n /\ i \in 0..n /\ i - 1 \in 0..n
      BY <1>3, <2>2
    <3> QED
      BY <1>3, <1>8, <1>g, <2>2, <3>1
  <2> QED
    BY <2>1, <2>2
<1>11. queued'[t] = replayed'[t] + g[n + 1] + Len(local'[t]) + Len(deferred'[t])
  <2>1. Len(local'[t]) = 0 /\ queued'[t] = queued[t] /\ replayed'[t] = replayed[t]
        /\ deferred'[t] = deferred[t]
    BY <1>1
  <2> QED
    BY <1>8, <1>9, <1>g, <2>1, LocalTypes
<1>12. LeftIn(g, t)'
  BY <1>3, <1>g, <1>10, <1>11 DEF LeftIn
<1> QED
  BY <1>6, <1>12 DEF CountOf

\* The epilogue moves the whole queue out, or nothing.
LEMMA SWrapEpilogue ==
  ASSUME Inv, NEW t \in Threads, ShapeOf(t), CountOf(t), WrapEpilogue(t)
  PROVE  ShapeOf(t)' /\ CountOf(t)'
<1>1. /\ pc[t] = "ret" /\ depth'[t] = depth[t] - 1
      /\ UNCHANGED <<cur, outer, queued, replayed>>
  BY DEF WrapEpilogue, counts, Inv, TypeOK
<1>2. local[t] = <<>> /\ Len(local[t]) = 0 /\ cur[t] = NoCall
  BY <1>1 DEF ShapeOf
<1>3. CASE depth[t] = 1
  <2>1. pc'[t] = "drain" /\ local'[t] = deferred[t] /\ deferred'[t] = <<>>
    BY <1>3 DEF WrapEpilogue, Goto, Inv, TypeOK
  <2>2. ShapeOf(t)'
    BY <1>1, <1>2, <2>1 DEF ShapeOf
  <2>3. PICK f : LeftIn(f, t)
    BY DEF CountOf
  <2>4. f[Len(outer[t])] \in Nat
    BY <2>3, LeftNat
  <2>5. Len(deferred'[t]) = 0
    BY <2>1
  <2>6. queued[t] = replayed[t] + f[Len(outer[t])] + Len(local'[t]) + Len(deferred'[t])
    BY <1>2, <2>1, <2>3, <2>5, LeftNat
  <2>7. LeftIn(f, t)'
    BY <1>1, <2>3, <2>6 DEF LeftIn
  <2> QED
    BY <2>2, <2>7 DEF CountOf
<1>4. CASE depth[t] # 1
  <2>1. pc'[t] = "run" /\ local'[t] = local[t] /\ deferred'[t] = deferred[t]
    BY <1>4 DEF WrapEpilogue, Goto, Inv, TypeOK
  <2>2. depth'[t] # 0
    BY <1>1, <1>4, LocalTypes
  <2>3. ShapeOf(t)'
    BY <1>1, <1>2, <2>1, <2>2 DEF ShapeOf
  <2>4. CountOf(t)'
    BY <1>1, <2>1 DEF CountOf, LeftIn
  <2> QED
    BY <2>3, <2>4
<1> QED
  BY <1>3, <1>4

\* A deferred call is counted and queued.
LEMMA SDefer ==
  ASSUME Inv, NEW t \in Threads, ShapeOf(t), CountOf(t), NEW k, NEW a,
         pc[t] = "run", Defer(t, k, a)
  PROVE  ShapeOf(t)' /\ CountOf(t)'
<1> DEFINE call == [kind |-> k, actor |-> a, ticket |-> queued[t] + 1, out |-> FALSE]
<1>1. /\ depth[t] > 0 /\ queued'[t] = queued[t] + 1
      /\ deferred'[t] = Append(deferred[t], call)
      /\ UNCHANGED <<pc, depth, local, cur, outer, replayed>>
  BY DEF Defer, Inv, TypeOK
<1>2. Len(deferred'[t]) = Len(deferred[t]) + 1
  BY <1>1, LocalTypes
<1> HIDE DEF call
<1>3. depth'[t] # 0
  BY <1>1
<1>4. ShapeOf(t)'
  BY <1>1, <1>3 DEF ShapeOf
<1>5. PICK f : LeftIn(f, t)
  BY DEF CountOf
<1>7. queued'[t] = replayed[t] + f[Len(outer[t])] + Len(local[t]) + Len(deferred'[t])
  <2> DEFINE m == f[Len(outer[t])]
  <2>1. /\ m \in Nat /\ Len(local[t]) \in Nat /\ Len(deferred[t]) \in Nat
        /\ queued[t] \in Nat /\ replayed[t] \in Nat
        /\ queued[t] = replayed[t] + m + Len(local[t]) + Len(deferred[t])
    BY <1>5, LeftNat
  <2>2. queued'[t] = queued[t] + 1
    BY <1>1
  <2> HIDE DEF m
  <2>3. queued[t] + 1 = replayed[t] + m + Len(local[t]) + (Len(deferred[t]) + 1)
    BY <2>1, SMTT(30)
  <2>4. queued'[t] = replayed[t] + m + Len(local[t]) + Len(deferred'[t])
    BY <1>2, <2>2, <2>3
  <2> QED
    BY <2>4 DEF m
<1>8. LeftIn(f, t)'
  BY <1>1, <1>5, <1>7 DEF LeftIn
<1> QED
  BY <1>4, <1>8 DEF CountOf

\* A call that passes through is made with no drain open.
LEMMA SCallOriginal ==
  ASSUME Inv, NEW t \in Threads, ShapeOf(t), CountOf(t), NEW k, NEW a,
         pc[t] = "run", depth[t] = 0, CallOriginal(t, k, a)
  PROVE  ShapeOf(t)' /\ CountOf(t)'
<1>1. /\ pc'[t] = "wantB"
      /\ UNCHANGED <<depth, deferred, local, outer, queued, replayed>>
  BY DEF CallOriginal, Goto, counts, Inv, TypeOK
<1>2. ShapeOf(t)'
  BY <1>1 DEF ShapeOf
<1>3. CountOf(t)'
  BY <1>1 DEF CountOf, LeftIn
<1> QED
  BY <1>2, <1>3

\* A replay takes one call out of the drain and counts it.
LEMMA SDrainNext ==
  ASSUME Inv, NEW t \in Threads, ShapeOf(t), CountOf(t), TicketsOf(t), DrainNext(t)
  PROVE  ShapeOf(t)' /\ CountOf(t)'
<1>1. /\ pc[t] = "drain" /\ local[t] # <<>> /\ pc'[t] = "wantB"
      /\ cur'[t] = Head(local[t]) /\ local'[t] = Tail(local[t])
      /\ replayed'[t] = replayed[t] + 1
      /\ UNCHANGED <<depth, deferred, outer, queued>>
  BY DEF DrainNext, Goto, Inv, TypeOK
<1>2. /\ Len(local'[t]) = Len(local[t]) - 1 /\ Len(local[t]) > 0
      /\ cur'[t] \in Ticketed
  BY <1>1 DEF TicketsOf
<1>3. cur'[t].ticket # 0
  BY <1>2 DEF Ticketed, DeferredCall
<1>4. ShapeOf(t)'
  BY <1>1, <1>3 DEF ShapeOf
<1>5. PICK f : LeftIn(f, t)
  BY DEF CountOf
<1>6. queued'[t] = replayed'[t] + f[Len(outer[t])] + Len(local'[t]) + Len(deferred'[t])
  <2>1. queued'[t] = queued[t] /\ deferred'[t] = deferred[t]
    BY <1>1
  <2>2. replayed'[t] = replayed[t] + 1
    BY <1>1
  <2> DEFINE m == f[Len(outer[t])]
  <2>3. /\ m \in Nat /\ Len(local[t]) \in Nat /\ Len(deferred[t]) \in Nat
        /\ queued[t] \in Nat /\ replayed[t] \in Nat
        /\ queued[t] = replayed[t] + m + Len(local[t]) + Len(deferred[t])
    BY <1>5, LeftNat
  <2> HIDE DEF m
  <2>4. queued'[t] = replayed'[t] + m + Len(local'[t]) + Len(deferred'[t])
    BY <1>2, <2>1, <2>2, <2>3
  <2> QED
    BY <2>4 DEF m
<1>7. LeftIn(f, t)'
  BY <1>1, <1>5, <1>6 DEF LeftIn
<1> QED
  BY <1>4, <1>7 DEF CountOf

\* The last element of a sequence and those before it.
LEMMA FrontElements ==
  ASSUME NEW S, NEW s \in Seq(S), s # <<>>
  PROVE  /\ Len(s) \in Nat /\ Len(s) > 0 /\ Last(s) = s[Len(s)] /\ Len(Front(s)) = Len(s) - 1
         /\ \A i \in 1..(Len(s) - 1) : Front(s)[i] = s[i] /\ i \in 1..Len(s)
<1>1. Len(s) \in Nat \ {0}
  OBVIOUS
<1>2. Last(s) = s[Len(s)]
  BY DEF Last
<1>3. Len(Front(s)) = Len(s) - 1
  BY LastFront
<1>4. \A i \in 1..(Len(s) - 1) : Front(s)[i] = s[i]
  BY <1>1 DEF Front
<1> QED
  BY <1>1, <1>2, <1>3, <1>4

\* A drain that ends in a frame that called out takes up that frame's drain.
LEMMA SDrainDone ==
  ASSUME Inv, NEW t \in Threads, ShapeOf(t), CountOf(t), DrainDone(t)
  PROVE  ShapeOf(t)' /\ CountOf(t)'
<1>1. /\ pc[t] = "drain" /\ local[t] = <<>> /\ Len(local[t]) = 0
      /\ UNCHANGED <<depth, deferred, queued, replayed>>
  BY DEF DrainDone, counts
<1>2. CASE outer[t] = <<>>
  <2>1. pc'[t] = "run" /\ UNCHANGED <<local, cur, outer>>
    BY <1>2 DEF DrainDone, Goto, Inv, TypeOK
  <2>2. ShapeOf(t)'
    BY <1>1, <1>2, <2>1 DEF ShapeOf
  <2>3. CountOf(t)'
    BY <1>1, <2>1 DEF CountOf, LeftIn
  <2> QED
    BY <2>2, <2>3
<1>3. CASE outer[t] # <<>>
  <2>1. /\ pc'[t] = "inB" /\ cur'[t] = Last(outer[t]).cur /\ local'[t] = Last(outer[t]).local
        /\ outer'[t] = Front(outer[t])
    BY <1>3 DEF DrainDone, Goto, Inv, TypeOK
  <2> DEFINE n == Len(outer[t])
  <2>2. /\ n \in Nat /\ n > 0 /\ cur'[t] = outer[t][n].cur /\ local'[t] = outer[t][n].local
        /\ Len(outer'[t]) = n - 1 /\ \A i \in 1..(n - 1) : outer'[t][i] = outer[t][i] /\ i \in 1..n
    BY <1>3, <2>1, LocalTypes, FrontElements
  <2>3. /\ n \in 1..n
        /\ cur'[t].ticket = 0 => local'[t] = <<>> /\ n = 1
    <3>1. n \in 1..n
      BY <2>2
    <3>2. outer[t][n].cur.ticket = 0 => n = 1 /\ outer[t][n].local = <<>>
      BY <3>1 DEF ShapeOf
    <3> QED
      BY <2>2, <3>1, <3>2
  <2>4. outer'[t] \in Seq(Frame) /\ (n = 1 => outer'[t] = <<>>)
    <3>1. outer'[t] \in Seq(Frame)
      BY <1>3, <2>1, LocalTypes, LastFront
    <3> QED
      BY <2>2, <3>1
  <2>5. \A i \in 1..(n - 1) : outer'[t][i].cur.ticket = 0 => i = 1 /\ outer'[t][i].local = <<>>
    BY <2>2 DEF ShapeOf
  <2>6. ShapeOf(t)'
    BY <1>1, <2>1, <2>2, <2>3, <2>4, <2>5 DEF ShapeOf
  <2>7. PICK f : LeftIn(f, t)
    BY DEF CountOf
  <2>8. /\ f \in [0..n -> Nat] /\ f[0] = 0
        /\ \A i \in 1..n : f[i] = f[i - 1] + Len(outer[t][i].local)
        /\ queued[t] = replayed[t] + f[n] + Len(deferred[t])
    <3>1. /\ f \in [0..n -> Nat] /\ f[0] = 0
          /\ \A i \in 1..n : f[i] = f[i - 1] + Len(outer[t][i].local)
      BY <2>7 DEF LeftIn
    <3>2. queued[t] = replayed[t] + f[n] + Len(deferred[t])
      BY <1>1, <2>7, LeftNat
    <3> QED
      BY <3>1, <3>2
  <2>9. PICK g \in [0..(n - 1) -> Nat] : \A i \in 0..(n - 1) : g[i] = f[i]
    <3> DEFINE h == [i \in 0..(n - 1) |-> f[i]]
    <3>1. \A i \in 0..(n - 1) : i \in 0..n
      BY <2>2
    <3>2. h \in [0..(n - 1) -> Nat] /\ \A i \in 0..(n - 1) : h[i] = f[i]
      BY <2>8, <3>1
    <3> QED
      BY <3>2
  <2>10. g[0] = 0 /\ f[n] = g[n - 1] + Len(local'[t]) /\ g[n - 1] \in Nat
    <3>1. 0 \in 0..(n - 1) /\ n - 1 \in 0..(n - 1) /\ n \in 1..n
      BY <2>2
    <3> QED
      BY <2>2, <2>8, <2>9, <3>1
  <2>11. \A i \in 1..(n - 1) : g[i] = g[i - 1] + Len(outer'[t][i].local)
    <3> TAKE i \in 1..(n - 1)
    <3>1. i \in 1..n /\ i \in 0..(n - 1) /\ i - 1 \in 0..(n - 1)
      BY <2>2
    <3> QED
      BY <2>2, <2>8, <2>9, <3>1
  <2>12. local'[t] \in Seq(DeferredCall)
    <3>1. outer[t][n] \in Frame
      BY <2>3, LocalTypes
    <3> QED
      BY <2>2, <3>1 DEF Frame
  <2>13. queued'[t] = replayed'[t] + g[n - 1] + Len(local'[t]) + Len(deferred'[t])
    <3>1. Len(local'[t]) \in Nat
      BY <2>12
    <3> QED
      BY <1>1, <2>8, <2>10, <3>1, LocalTypes
  <2>14. LeftIn(g, t)'
    BY <2>2, <2>9, <2>10, <2>11, <2>13 DEF LeftIn
  <2> QED
    BY <2>6, <2>14 DEF CountOf
<1> QED
  BY <1>2, <1>3

\* The originals leave the queue alone and return to the drain that called.
LEMMA SOriginals ==
  ASSUME Inv, NEW t \in Threads, ShapeOf(t), CountOf(t),
         AcquireB(t) \/ WriteList(t) \/ ReturnFromB(t)
  PROVE  ShapeOf(t)' /\ CountOf(t)'
<1>1. UNCHANGED <<depth, deferred, local, outer, queued, replayed>>
  BY DEF AcquireB, WriteList, ReturnFromB, counts
<1>2. CountOf(t)'
  BY <1>1 DEF CountOf, LeftIn
<1>3. CASE AcquireB(t) \/ WriteList(t)
  <2>1. /\ pc[t] \in {"wantB", "inB"} /\ pc'[t] \in {"inB", "wrote"} /\ cur' = cur
    BY <1>3 DEF AcquireB, WriteList, Goto, Inv, TypeOK
  <2>2. ShapeOf(t)'
    BY <1>1, <2>1 DEF ShapeOf
  <2> QED
    BY <1>2, <2>2
<1>4. CASE ReturnFromB(t)
  <2>1. /\ pc[t] \in {"inB", "wrote"} /\ cur'[t] = NoCall
        /\ pc'[t] = IF cur[t].ticket > 0 THEN "drain" ELSE "run"
    BY <1>4 DEF ReturnFromB, Goto, Inv, TypeOK
  <2>2. pc'[t] \in {"drain", "run"} /\ (pc'[t] = "run" => cur[t].ticket = 0)
    BY <2>1, LocalTypes
  <2>3. ShapeOf(t)'
    BY <1>1, <2>1, <2>2 DEF ShapeOf
  <2> QED
    BY <1>2, <2>3
<1> QED
  BY <1>3, <1>4

\* Tickets start at one and every queue a call moves to holds calls with one.
LEMMA TicketsStep ==
  ASSUME Inv, NEW t \in Threads, TicketsOf(t), ThreadStep(t)
  PROVE  TicketsOf(t)'
<1>1. CASE UNCHANGED <<deferred, local, outer>>
  BY <1>1 DEF TicketsOf
<1>2. CASE CallOut(t)
  <2>1. PICK frame : /\ frame.local = local[t] /\ frame \in Frame
                     /\ outer'[t] = Append(outer[t], frame)
    <3> DEFINE frame == [cur |-> [cur[t] EXCEPT !.out = TRUE], local |-> local[t]]
    <3>1. outer'[t] = Append(outer[t], frame) /\ frame.local = local[t]
      BY <1>2 DEF CallOut, Inv, TypeOK
    <3>2. [cur[t] EXCEPT !.out = TRUE] \in Call
      BY LocalTypes DEF Call, DeferredCall, OtherCall
    <3>3. frame \in Frame
      BY <3>2, LocalTypes DEF Frame
    <3> QED
      BY <3>1, <3>3
  <2>2. local'[t] = <<>> /\ deferred'[t] = deferred[t]
    BY <1>2 DEF CallOut, Inv, TypeOK
  <2>3. \A i \in 1..Len(outer'[t]) : outer'[t][i].local \in Seq(Ticketed)
    <3>1. \A i \in 1..Len(outer[t]) : outer[t][i].local \in Seq(Ticketed)
      BY DEF TicketsOf
    <3>2. local[t] \in Seq(Ticketed)
      BY DEF TicketsOf
    <3> QED
      BY <2>1, <3>1, <3>2, LocalTypes
  <2> QED
    BY <2>2, <2>3 DEF TicketsOf
<1>3. CASE WrapEpilogue(t)
  <2>1. /\ outer' = outer
        /\ \/ local'[t] = deferred[t] /\ deferred'[t] = <<>>
           \/ local'[t] = local[t] /\ deferred'[t] = deferred[t]
    BY <1>3 DEF WrapEpilogue, Inv, TypeOK
  <2>2. << >> \in Seq(Ticketed) /\ deferred[t] \in Seq(Ticketed) /\ local[t] \in Seq(Ticketed)
    BY DEF TicketsOf
  <2>3. deferred'[t] \in Seq(Ticketed) /\ local'[t] \in Seq(Ticketed)
    BY <2>1, <2>2
  <2> QED
    BY <2>1, <2>3 DEF TicketsOf
<1>4. CASE DrainNext(t)
  <2>1. /\ local[t] # <<>> /\ local'[t] = Tail(local[t]) /\ UNCHANGED <<deferred, outer>>
    BY <1>4 DEF DrainNext, Inv, TypeOK
  <2>2. local'[t] \in Seq(Ticketed)
    BY <2>1 DEF TicketsOf
  <2> QED
    BY <2>1, <2>2 DEF TicketsOf
<1>5. CASE DrainDone(t) /\ outer[t] # <<>>
  <2>1. /\ local'[t] = Last(outer[t]).local /\ outer'[t] = Front(outer[t])
        /\ deferred'[t] = deferred[t]
    BY <1>5 DEF DrainDone, Inv, TypeOK
  <2> DEFINE n == Len(outer[t])
  <2>2. /\ n \in Nat /\ n > 0 /\ local'[t] = outer[t][n].local
        /\ Len(outer'[t]) = n - 1 /\ \A i \in 1..(n - 1) : outer'[t][i] = outer[t][i] /\ i \in 1..n
    BY <1>5, <2>1, LocalTypes, FrontElements
  <2>3. n \in 1..n
    BY <2>2
  <2> QED
    BY <2>1, <2>2, <2>3 DEF TicketsOf
<1>6. ASSUME NEW k \in Kinds, NEW a \in Actors, Defer(t, k, a)
      PROVE  TicketsOf(t)'
  <2> DEFINE call == [kind |-> k, actor |-> a, ticket |-> queued[t] + 1, out |-> FALSE]
  <2>1. deferred'[t] = Append(deferred[t], call) /\ UNCHANGED <<local, outer>>
    BY <1>6 DEF Defer, Inv, TypeOK
  <2>2. call \in Ticketed
    BY LocalTypes DEF Ticketed, DeferredCall
  <2> HIDE DEF call
  <2>3. deferred'[t] \in Seq(Ticketed)
    BY <2>1, <2>2 DEF TicketsOf
  <2> QED
    BY <2>1, <2>3 DEF TicketsOf
<1>7. CASE DrainDone(t) /\ outer[t] = <<>>
  BY <1>1, <1>7 DEF DrainDone
<1>8. CASE EnterWrap(t) \/ AcquireA(t) \/ LeaveA(t) \/ AcquireB(t) \/ WriteList(t) \/ ReturnFromB(t)
  BY <1>1, <1>8 DEF EnterWrap, AcquireA, LeaveA, AcquireB, WriteList, ReturnFromB
<1>9. ASSUME NEW k, NEW a, CallOriginal(t, k, a) PROVE TicketsOf(t)'
  BY <1>1, <1>9 DEF CallOriginal
<1> QED
  BY <1>2, <1>3, <1>4, <1>5, <1>6, <1>7, <1>8, <1>9
     DEF ThreadStep, Gates, Wrap, Originals, HookedRemoveAtCycleHub,
         HookedAddInsideAddWrapper, PassThrough, Transfer, Kinds

ShapeAll == \A t \in Threads : ShapeOf(t) /\ CountOf(t) /\ TicketsOf(t)

\* Initially every queue is empty and no frame is stacked.
LEMMA ShapeInit == Init => ShapeAll
<1> SUFFICES ASSUME Init, NEW t \in Threads PROVE ShapeOf(t) /\ CountOf(t) /\ TicketsOf(t)
    BY DEF ShapeAll
<1>1. ShapeOf(t)
  BY DEF Init, ShapeOf
<1>2. TicketsOf(t)
  BY DEF Init, TicketsOf
<1>3. Len(outer[t]) = 0 /\ Len(local[t]) = 0 /\ Len(deferred[t]) = 0
      /\ queued[t] = 0 /\ replayed[t] = 0
  BY DEF Init
<1>4. LeftIn([i \in 0..0 |-> 0], t)
  BY <1>3 DEF LeftIn
<1> QED
  BY <1>1, <1>2, <1>4 DEF CountOf

\* Every step keeps the shape and the count of every thread's queues.
LEMMA ShapeStep ==
  ASSUME Inv, ShapeAll, [Next]_vars PROVE ShapeAll'
<1>1. ASSUME NEW t \in Threads, ThreadStep(t) PROVE ShapeAll'
  <2>1. ShapeOf(t)' /\ CountOf(t)'
    BY <1>1, SWrap, SCallOut, SWrapEpilogue, SDefer, SCallOriginal, SDrainNext, SDrainDone,
       SOriginals
       DEF ShapeAll, ThreadStep, Gates, Wrap, Originals, HookedRemoveAtCycleHub,
           HookedAddInsideAddWrapper, PassThrough, Transfer
  <2>2. TicketsOf(t)'
    BY <1>1, TicketsStep DEF ShapeAll
  <2>3. ASSUME NEW u \in Threads, u # t PROVE ShapeOf(u)' /\ CountOf(u)' /\ TicketsOf(u)'
    <3>1. /\ pc'[u] = pc[u] /\ depth'[u] = depth[u] /\ deferred'[u] = deferred[u]
          /\ local'[u] = local[u] /\ cur'[u] = cur[u] /\ outer'[u] = outer[u]
          /\ queued'[u] = queued[u] /\ replayed'[u] = replayed[u]
      BY <1>1, <2>3, OtherThreads DEF Inv
    <3>2. ShapeOf(u)'
      BY <3>1 DEF ShapeAll, ShapeOf
    <3>3. CountOf(u)'
      <4>1. PICK f : LeftIn(f, u)
        BY DEF ShapeAll, CountOf
      <4>2. LeftIn(f, u)'
        BY <3>1, <4>1 DEF LeftIn
      <4> QED
        BY <4>2 DEF CountOf
    <3>4. TicketsOf(u)'
      BY <3>1 DEF ShapeAll, TicketsOf
    <3> QED
      BY <3>2, <3>3, <3>4
  <2> QED
    BY <2>1, <2>2, <2>3 DEF ShapeAll
<1>2. CASE UNCHANGED vars
  <2> SUFFICES ASSUME NEW u \in Threads PROVE ShapeOf(u)' /\ CountOf(u)' /\ TicketsOf(u)'
    BY DEF ShapeAll
  <2>1. UNCHANGED <<pc, depth, deferred, local, cur, outer, queued, replayed>>
    BY <1>2 DEF vars, counts
  <2>2. ShapeOf(u)'
    BY <2>1 DEF ShapeAll, ShapeOf
  <2>3. CountOf(u)'
    <3>1. PICK f : LeftIn(f, u)
      BY DEF ShapeAll, CountOf
    <3>2. LeftIn(f, u)'
      BY <2>1, <3>1 DEF LeftIn
    <3> QED
      BY <3>2 DEF CountOf
  <2>4. TicketsOf(u)'
    BY <2>1 DEF ShapeAll, TicketsOf
  <2> QED
    BY <2>2, <2>3, <2>4
<1> QED
  BY <1>1, <1>2 DEF Next, ThreadStep

\* The queues have that shape throughout.
THEOREM ShapeInvariance == Spec => []ShapeAll
<1>1. Inv /\ ShapeAll /\ [Next]_vars => ShapeAll'
  BY ShapeStep
<1> QED
  BY <1>1, ShapeInit, Invariance, PTL DEF Spec

\* A thread outside id 19369 and outside a drain has replayed every call it
\* deferred, for any recursion depth and queue length, also when a drain runs
\* inside a drain.
THEOREM NothingLeftBehind == Spec => []NothingStranded
<1>1. Inv /\ ShapeAll => NothingStranded
  <2> SUFFICES ASSUME Inv, ShapeAll, NEW t \in Threads, pc[t] = "run", depth[t] = 0
               PROVE  deferred[t] = <<>> /\ queued[t] = replayed[t]
    BY DEF NothingStranded
  <2>1. /\ deferred[t] = <<>> /\ local[t] = <<>> /\ Len(outer[t]) = 0
        /\ Len(deferred[t]) = 0 /\ Len(local[t]) = 0
    BY DEF ShapeAll, ShapeOf
  <2>2. PICK f : LeftIn(f, t)
    BY DEF ShapeAll, CountOf
  <2>3. f[Len(outer[t])] = 0
    BY <2>1, <2>2 DEF LeftIn
  <2>4. queued[t] = replayed[t] + f[Len(outer[t])] + Len(local[t]) + Len(deferred[t])
        /\ replayed[t] \in Nat
    BY <2>2, LeftNat
  <2> QED
    BY <2>1, <2>3, <2>4
<1> QED
  BY <1>1, ShapeInvariance, Invariance, PTL

(***************************************************************************)
(* The flag and the list.  Names(call, a, k): the deferred call makes the  *)
(* change k to actor a; such a call is in a queue, or in a frame that      *)
(* called out, until its original returns.                                 *)
(***************************************************************************)
Names(call, a, k) == call.actor = a /\ call.ticket > 0 /\ call.kind = k

NamedIn(s, a, k)  == \E i \in 1..Len(s) : Names(s[i], a, k)
NamedBelow(s, a, k) ==
    \E i \in 1..Len(s) : Names(s[i].cur, a, k) \/ NamedIn(s[i].local, a, k)

Awaits(t, a, k) == \/ Names(cur[t], a, k)
                   \/ NamedIn(local[t], a, k) \/ NamedIn(deferred[t], a, k)
                   \/ NamedBelow(outer[t], a, k)

\* A pending call of FlagFollowsList is one that Awaits.
LEMMA AwaitsPending ==
  ASSUME Inv, NEW t \in Threads, NEW a, NEW k
  PROVE  Awaits(t, a, k) <=> \E call \in Pending(t) : Names(call, a, k)
<1>1. /\ ToSet(local[t]) = {local[t][i] : i \in 1..Len(local[t])}
      /\ ToSet(deferred[t]) = {deferred[t][i] : i \in 1..Len(deferred[t])}
      /\ ToSet(outer[t]) = {outer[t][i] : i \in 1..Len(outer[t])}
  BY LocalTypes DEF ToSet
<1>2. \A i \in 1..Len(outer[t]) :
         ToSet(outer[t][i].local) = {outer[t][i].local[j] : j \in 1..Len(outer[t][i].local)}
  <2> TAKE i \in 1..Len(outer[t])
  <2>1. outer[t][i] \in Frame
    BY LocalTypes
  <2>2. outer[t][i].local \in Seq(DeferredCall)
    BY <2>1 DEF Frame
  <2> QED
    BY <2>2 DEF ToSet
<1>3. Pending(t) = {cur[t]} \cup {local[t][i] : i \in 1..Len(local[t])}
                   \cup {deferred[t][i] : i \in 1..Len(deferred[t])}
                   \cup UNION {{frame.cur} \cup ToSet(frame.local) :
                                   frame \in {outer[t][i] : i \in 1..Len(outer[t])}}
  BY <1>1 DEF Pending
<1>4. ASSUME Awaits(t, a, k) PROVE \E call \in Pending(t) : Names(call, a, k)
  <2>1. CASE Names(cur[t], a, k) \/ NamedIn(local[t], a, k) \/ NamedIn(deferred[t], a, k)
    BY <1>3, <2>1 DEF NamedIn
  <2>2. CASE NamedBelow(outer[t], a, k)
    <3>1. PICK i \in 1..Len(outer[t]) :
             Names(outer[t][i].cur, a, k) \/ NamedIn(outer[t][i].local, a, k)
      BY <2>2 DEF NamedBelow
    <3>2. PICK call \in {outer[t][i].cur} \cup ToSet(outer[t][i].local) : Names(call, a, k)
      BY <1>2, <3>1 DEF NamedIn
    <3>3. call \in Pending(t)
      BY <1>3, <3>2
    <3> QED
      BY <3>2, <3>3
  <2> QED
    BY <1>4, <2>1, <2>2 DEF Awaits
<1>5. ASSUME NEW call \in Pending(t), Names(call, a, k) PROVE Awaits(t, a, k)
  <2>1. CASE call \in UNION {{frame.cur} \cup ToSet(frame.local) :
                                   frame \in {outer[t][i] : i \in 1..Len(outer[t])}}
    <3>1. PICK i \in 1..Len(outer[t]) : call \in {outer[t][i].cur} \cup ToSet(outer[t][i].local)
      BY <2>1
    <3>2. Names(outer[t][i].cur, a, k) \/ NamedIn(outer[t][i].local, a, k)
      BY <1>2, <1>5, <3>1 DEF NamedIn
    <3> QED
      BY <3>2 DEF NamedBelow, Awaits
  <2>2. CASE call \in {cur[t]} \cup {local[t][i] : i \in 1..Len(local[t])}
                   \cup {deferred[t][i] : i \in 1..Len(deferred[t])}
    BY <1>5, <2>2 DEF NamedIn, Awaits
  <2> QED
    BY <1>3, <2>1, <2>2
<1> QED
  BY <1>4, <1>5

\* Only the return of its original makes a thread forget a deferred call.
LEMMA AwaitsKept ==
  ASSUME Inv, NEW t \in Threads, ShapeOf(t), ThreadStep(t), ~ReturnFromB(t), NEW a, NEW k,
         Awaits(t, a, k)
  PROVE  Awaits(t, a, k)'
<1>1. ~Names(NoCall, a, k)
  BY DEF Names, NoCall
<1>2. CASE CallOut(t)
  <2> DEFINE frame == [cur |-> [cur[t] EXCEPT !.out = TRUE], local |-> local[t]]
  <2>1. outer'[t] = Append(outer[t], frame) /\ deferred'[t] = deferred[t]
    BY <1>2 DEF CallOut, Inv, TypeOK
  <2>2. Names(cur[t], a, k) => Names(frame.cur, a, k)
    BY LocalTypes DEF Names, Call, DeferredCall, OtherCall
  <2>3. frame.local = local[t]
    OBVIOUS
  <2> DEFINE n == Len(outer[t])
  <2> HIDE DEF frame
  <2>4. /\ n \in Nat /\ Len(outer'[t]) = n + 1 /\ outer'[t][n + 1] = frame
        /\ \A i \in 1..n : outer'[t][i] = outer[t][i] /\ i \in 1..(n + 1)
    BY <2>1, LocalTypes
  <2>5. CASE Names(cur[t], a, k) \/ NamedIn(local[t], a, k)
    <3>1. n + 1 \in 1..Len(outer'[t])
      BY <2>4
    <3> QED
      BY <2>2, <2>3, <2>4, <2>5, <3>1 DEF Awaits, NamedBelow
  <2>6. CASE NamedBelow(outer[t], a, k)
    BY <2>4, <2>6 DEF Awaits, NamedBelow
  <2>7. CASE NamedIn(deferred[t], a, k)
    BY <2>1, <2>7 DEF Awaits
  <2> QED
    BY <2>5, <2>6, <2>7 DEF Awaits
<1>3. CASE WrapEpilogue(t)
  <2>1. /\ pc[t] = "ret" /\ outer' = outer /\ cur' = cur
        /\ \/ local'[t] = deferred[t]
           \/ local'[t] = local[t] /\ deferred'[t] = deferred[t]
    BY <1>3 DEF WrapEpilogue, Inv, TypeOK
  <2>2. ~NamedIn(local[t], a, k)
    BY <2>1 DEF ShapeOf, NamedIn
  <2> QED
    BY <2>1, <2>2 DEF Awaits
<1>4. CASE DrainNext(t)
  <2>1. /\ pc[t] = "drain" /\ local[t] # <<>> /\ local'[t] = Tail(local[t])
        /\ cur'[t] = Head(local[t]) /\ UNCHANGED <<deferred, outer>>
    BY <1>4 DEF DrainNext, Inv, TypeOK
  <2>2. ~Names(cur[t], a, k)
    BY <1>1, <2>1 DEF ShapeOf
  <2>3. ASSUME NamedIn(local[t], a, k) PROVE Names(cur'[t], a, k) \/ NamedIn(local'[t], a, k)
    <3>1. PICK i \in 1..Len(local[t]) : Names(local[t][i], a, k)
      BY <2>3 DEF NamedIn
    <3>2. CASE i = 1
      BY <2>1, <3>1, <3>2, LocalTypes
    <3>3. CASE i # 1
      <4>1. i - 1 \in 1..Len(local'[t]) /\ local'[t][i - 1] = local[t][i]
        BY <2>1, <3>3, LocalTypes
      <4> QED
        BY <3>1, <4>1 DEF NamedIn
    <3> QED
      BY <3>2, <3>3
  <2> QED
    BY <2>1, <2>2, <2>3 DEF Awaits
<1>5. CASE DrainDone(t) /\ outer[t] # <<>>
  <2>1. /\ pc[t] = "drain" /\ local[t] = <<>> /\ local'[t] = Last(outer[t]).local
        /\ outer'[t] = Front(outer[t]) /\ cur'[t] = Last(outer[t]).cur
        /\ deferred'[t] = deferred[t]
    BY <1>5 DEF DrainDone, Inv, TypeOK
  <2> DEFINE n == Len(outer[t])
  <2>2. /\ n \in Nat /\ n > 0 /\ local'[t] = outer[t][n].local /\ cur'[t] = outer[t][n].cur
        /\ Len(outer'[t]) = n - 1 /\ \A i \in 1..(n - 1) : outer'[t][i] = outer[t][i] /\ i \in 1..n
    BY <1>5, <2>1, LocalTypes, FrontElements
  <2>3. ~Names(cur[t], a, k) /\ ~NamedIn(local[t], a, k)
    BY <1>1, <2>1 DEF ShapeOf, NamedIn
  <2>4. ASSUME NamedBelow(outer[t], a, k)
        PROVE  Names(cur'[t], a, k) \/ NamedIn(local'[t], a, k) \/ NamedBelow(outer'[t], a, k)
    <3>1. PICK i \in 1..n : Names(outer[t][i].cur, a, k) \/ NamedIn(outer[t][i].local, a, k)
      BY <2>4 DEF NamedBelow
    <3>2. i = n \/ i \in 1..(n - 1)
      BY <2>2
    <3> QED
      BY <2>2, <3>1, <3>2 DEF NamedBelow
  <2> QED
    BY <2>1, <2>3, <2>4 DEF Awaits
<1>6. ASSUME NEW kk, NEW aa, Defer(t, kk, aa) PROVE Awaits(t, a, k)'
  <2> DEFINE call == [kind |-> kk, actor |-> aa, ticket |-> queued[t] + 1, out |-> FALSE]
  <2>1. deferred'[t] = Append(deferred[t], call) /\ UNCHANGED <<local, outer, cur>>
    BY <1>6 DEF Defer, Inv, TypeOK
  <2> HIDE DEF call
  <2>2. \A i \in 1..Len(deferred[t]) : i \in 1..Len(deferred'[t]) /\ deferred'[t][i] = deferred[t][i]
    BY <2>1, LocalTypes
  <2> QED
    BY <2>1, <2>2 DEF Awaits, NamedIn
<1>7. ASSUME pc[t] = "run", NEW kk, NEW aa, CallOriginal(t, kk, aa) PROVE Awaits(t, a, k)'
  <2>1. ~Names(cur[t], a, k)
    BY <1>1, <1>7 DEF ShapeOf
  <2> QED
    BY <1>7, <2>1 DEF CallOriginal, Awaits
<1>8. CASE EnterWrap(t) \/ AcquireA(t) \/ LeaveA(t) \/ AcquireB(t) \/ WriteList(t)
  BY <1>8 DEF EnterWrap, AcquireA, LeaveA, AcquireB, WriteList, Awaits
<1>9. CASE DrainDone(t) /\ outer[t] = <<>>
  BY <1>9 DEF DrainDone, Awaits
<1> QED
  BY <1>2, <1>3, <1>4, <1>5, <1>6, <1>7, <1>8, <1>9
     DEF ThreadStep, Gates, Wrap, Originals, HookedRemoveAtCycleHub,
         HookedAddInsideAddWrapper, PassThrough, Transfer

\* Between its two writes an original has made its change to the list, and no
\* other thread is in a LockB section.
WroteInv == \A t \in Threads : pc[t] = "wrote" =>
    /\ cur[t].actor \in Actors
    /\ cur[t].kind = "Add" <=> cur[t].actor \in list

Change(a) == IF bit[a] THEN "Add" ELSE "Remove"

\* FlagFollowsList in terms of Awaits.
FlagOf(a) ==
    \/ bit[a] /\ a \in list
    \/ ~bit[a] /\ a \notin list
    \/ \E t \in Threads : pc[t] = "wrote" /\ cur[t].actor = a
    \/ \E t \in Threads : Awaits(t, a, Change(a))

FlagInv == \A a \in Actors \ NoProcess : FlagOf(a)

\* Two threads are not in LockB sections at once.
LEMMA OneInB ==
  ASSUME Inv, NEW t \in Threads, NEW u \in Threads, pc[t] \in InB, pc[u] \in InB
  PROVE  t = u
<1>1. HeldB(t) > 0 /\ HeldB(u) > 0
  BY LocalTypes DEF HeldB
<1> QED
  BY <1>1, Owns

\* Nothing is between its two writes initially.
LEMMA FlagInit == Init => WroteInv /\ FlagInv
<1> SUFFICES ASSUME Init PROVE WroteInv /\ FlagInv
    OBVIOUS
<1>1. WroteInv
  BY DEF Init, WroteInv
<1>2. \A a \in Actors : ~bit[a] /\ a \notin list
  BY Zenon DEF Init
<1> QED
  BY <1>1, <1>2 DEF FlagInv, FlagOf

\* Only WriteList writes the list, only the gates and ReturnFromB the flag.
LEMMA EngineStep ==
  ASSUME NEW t \in Threads, ThreadStep(t)
  PROVE  /\ list' = list \/ WriteList(t)
         /\ \/ bit' = bit
            \/ ReturnFromB(t)
            \/ \E a \in Actors, k \in Kinds : Defer(t, k, a)
<1>1. CASE EnterWrap(t) \/ CallOut(t) \/ AcquireA(t) \/ LeaveA(t) \/ WrapEpilogue(t)
           \/ DrainNext(t) \/ DrainDone(t) \/ AcquireB(t)
  BY <1>1 DEF EnterWrap, CallOut, AcquireA, LeaveA, WrapEpilogue, DrainNext, DrainDone,
              AcquireB, engine
<1>2. CASE WriteList(t) \/ ReturnFromB(t)
  BY <1>2 DEF WriteList, ReturnFromB
<1>3. ASSUME NEW k \in Kinds, NEW a \in Actors, Defer(t, k, a) PROVE list' = list
  BY <1>3 DEF Defer
<1>4. ASSUME NEW k, NEW a, CallOriginal(t, k, a) PROVE list' = list /\ bit' = bit
  BY <1>4 DEF CallOriginal, engine
<1> QED
  BY <1>1, <1>2, <1>3, <1>4
     DEF ThreadStep, Gates, Wrap, Originals, HookedRemoveAtCycleHub,
         HookedAddInsideAddWrapper, PassThrough, Transfer, Kinds

\* What WriteList does, in plain terms.
LEMMA WriteListFacts ==
  ASSUME Inv, NEW t \in Threads, WriteList(t)
  PROVE  /\ pc[t] = "inB" /\ pc'[t] = "wrote" /\ cur' = cur /\ bit' = bit
         /\ cur[t].actor \in Actors
         /\ list' = IF cur[t].kind = "Add" THEN list \cup {cur[t].actor}
                                           ELSE list \ {cur[t].actor}
<1>1. /\ pc[t] = "inB" /\ pc'[t] = "wrote" /\ cur' = cur /\ bit' = bit
      /\ Writes(cur[t])
      /\ list' = IF cur[t].kind = "Add" THEN list \cup {cur[t].actor}
                                        ELSE list \ {cur[t].actor}
  BY DEF WriteList, Goto, Inv, TypeOK
<1>2. cur[t] \in Call /\ list \subseteq Actors
  BY LocalTypes DEF Inv, TypeOK
<1>3. cur[t].actor \in Actors
  <2>1. CASE cur[t].kind = "Add"
    BY <1>2, <2>1 DEF Call, DeferredCall, OtherCall
  <2>2. CASE cur[t].kind # "Add"
    BY <1>1, <1>2, <2>2 DEF Writes
  <2> QED
    BY <2>1, <2>2
<1> QED
  BY <1>1, <1>2, <1>3

\* A thread comes between the two writes by WriteList only.
LEMMA OnlyWriteListWrites ==
  ASSUME Inv, NEW t \in Threads, ThreadStep(t), ~WriteList(t)
  PROVE  \/ pc'[t] # "wrote"
         \/ pc[t] = "wrote" /\ cur'[t] = cur[t]
<1>a. \A l : Goto(t, l) => pc'[t] = l
  BY DEF Goto, Inv, TypeOK
<1>1. CASE EnterWrap(t) \/ CallOut(t) \/ AcquireA(t) \/ LeaveA(t)
  BY <1>a, <1>1 DEF EnterWrap, CallOut, AcquireA, LeaveA
<1>2. CASE WrapEpilogue(t) \/ DrainNext(t)
  BY <1>a, <1>2 DEF WrapEpilogue, DrainNext
<1>3. CASE DrainDone(t)
  BY <1>a, <1>3 DEF DrainDone
<1>4. CASE AcquireB(t) \/ ReturnFromB(t)
  BY <1>a, <1>4 DEF AcquireB, ReturnFromB
<1>5. ASSUME NEW k, NEW a, Defer(t, k, a) PROVE pc' = pc /\ cur' = cur
  BY <1>5 DEF Defer
<1>6. ASSUME NEW k, NEW a, CallOriginal(t, k, a) PROVE pc'[t] # "wrote"
  BY <1>a, <1>6 DEF CallOriginal
<1> QED
  BY <1>1, <1>2, <1>3, <1>4, <1>5, <1>6
     DEF ThreadStep, Gates, Wrap, Originals, HookedRemoveAtCycleHub,
         HookedAddInsideAddWrapper, PassThrough, Transfer

\* The first write of an original is in the list until its second.
LEMMA WroteStep ==
  ASSUME Inv, WroteInv, NEW t \in Threads, ThreadStep(t)
  PROVE  WroteInv'
<1> SUFFICES ASSUME NEW u \in Threads, pc'[u] = "wrote"
             PROVE  /\ cur'[u].actor \in Actors
                    /\ cur'[u].kind = "Add" <=> cur'[u].actor \in list'
    BY DEF WroteInv
<1>1. CASE WriteList(t) /\ u = t
  BY <1>1, WriteListFacts DEF Kinds
<1>2. CASE WriteList(t) /\ u # t
  <2>1. pc[u] = "wrote" /\ pc[t] = "inB"
    BY <1>2, OtherThreads, WriteListFacts DEF Inv
  <2> QED
    BY <1>2, <2>1, OneInB DEF InB
<1>3. CASE ~WriteList(t)
  <2>1. list' = list
    BY <1>3, EngineStep
  <2>2. CASE u = t
    <3>1. \/ pc'[t] # "wrote"
          \/ pc[t] = "wrote" /\ cur'[t] = cur[t]
      BY <1>3, OnlyWriteListWrites
    <3> QED
      BY <2>1, <2>2, <3>1 DEF WroteInv
  <2>3. CASE u # t
    <3>1. pc[u] = "wrote" /\ cur'[u] = cur[u]
      BY <2>3, OtherThreads DEF Inv
    <3> QED
      BY <2>1, <3>1 DEF WroteInv
  <2> QED
    BY <2>2, <2>3
<1> QED
  BY <1>1, <1>2, <1>3

\* A thread that is between its two writes stays there until it returns.
LEMMA WroteStays ==
  ASSUME Inv, NEW t \in Threads, ThreadStep(t), ~ReturnFromB(t), pc[t] = "wrote"
  PROVE  FALSE
<1>1. CASE EnterWrap(t) \/ CallOut(t) \/ AcquireA(t) \/ LeaveA(t) \/ WrapEpilogue(t)
           \/ DrainNext(t) \/ DrainDone(t) \/ AcquireB(t) \/ WriteList(t)
  BY <1>1 DEF EnterWrap, CallOut, AcquireA, LeaveA, WrapEpilogue, DrainNext, DrainDone,
              AcquireB, WriteList
<1> QED
  BY <1>1 DEF ThreadStep, Gates, Wrap, Originals, HookedRemoveAtCycleHub,
         HookedAddInsideAddWrapper, PassThrough, Transfer

\* What another thread waits for does not change.
LEMMA AwaitsOther ==
  ASSUME Inv, NEW t \in Threads, ThreadStep(t), NEW u \in Threads, u # t, NEW a, NEW k
  PROVE  Awaits(u, a, k)' <=> Awaits(u, a, k)
  BY OtherThreads DEF Inv, Awaits

\* A step that leaves flag and list of the actor alone and ends no original.
LEMMA FlagQuiet ==
  ASSUME Inv, ShapeAll, NEW t \in Threads, ThreadStep(t), ~ReturnFromB(t),
         NEW a, FlagOf(a), bit'[a] = bit[a], a \in list' <=> a \in list
  PROVE  FlagOf(a)'
<1>1. Change(a)' = Change(a)
  BY DEF Change
<1>2. ASSUME NEW u \in Threads, pc[u] = "wrote", cur[u].actor = a
      PROVE  pc'[u] = "wrote" /\ cur'[u].actor = a
  <2>1. CASE u = t
    BY <1>2, <2>1, WroteStays
  <2>2. CASE u # t
    BY <1>2, <2>2, OtherThreads DEF Inv
  <2> QED
    BY <2>1, <2>2
<1>3. ASSUME NEW u \in Threads, Awaits(u, a, Change(a)) PROVE Awaits(u, a, Change(a))'
  <2>1. CASE u = t
    BY <1>1, <1>3, <2>1, AwaitsKept DEF ShapeAll
  <2>2. CASE u # t
    BY <1>1, <1>3, <2>2, AwaitsOther
  <2> QED
    BY <2>1, <2>2
<1>4. CASE bit[a] /\ a \in list
  BY <1>4 DEF FlagOf
<1>5. CASE ~bit[a] /\ a \notin list
  BY <1>5 DEF FlagOf
<1>6. CASE \E u \in Threads : pc[u] = "wrote" /\ cur[u].actor = a
  BY <1>2, <1>6 DEF FlagOf
<1>7. CASE \E u \in Threads : Awaits(u, a, Change(a))
  BY <1>3, <1>7 DEF FlagOf
<1> QED
  BY <1>4, <1>5, <1>6, <1>7 DEF FlagOf

\* A gate's write is followed by the queued call that makes the same change.
LEMMA FlagDefer ==
  ASSUME Inv, NEW t \in Threads, NEW k \in Kinds, NEW a \in Actors, Defer(t, k, a)
  PROVE  FlagOf(a)'
<1> DEFINE call == [kind |-> k, actor |-> a, ticket |-> queued[t] + 1, out |-> FALSE]
<1>1. deferred'[t] = Append(deferred[t], call)
  BY DEF Defer, Inv, TypeOK
<1>2. Names(call, a, k)
  BY LocalTypes DEF Names
<1> HIDE DEF call
<1>3. Len(deferred[t]) + 1 \in 1..Len(deferred'[t]) /\ deferred'[t][Len(deferred[t]) + 1] = call
  BY <1>1, LocalTypes
<1>4. Awaits(t, a, k)'
  BY <1>2, <1>3 DEF Awaits, NamedIn
<1>5. bit'[a] = (k = "Add")
  BY DEF Defer, Inv, TypeOK
<1>6. Change(a)' = k
  BY <1>5 DEF Change, Kinds
<1> QED
  BY <1>4, <1>6 DEF FlagOf

\* An original that returns forgets its call alone, in its thread alone.
LEMMA ForgetsItsCall ==
  ASSUME Inv, NEW t \in Threads, ReturnFromB(t), NEW a, NEW k,
         NEW u \in Threads, Awaits(u, a, k), u = t => ~Names(cur[t], a, k)
  PROVE  Awaits(u, a, k)'
<1>1. UNCHANGED <<local, deferred, outer>>
  BY DEF ReturnFromB
<1>2. CASE u = t
  BY <1>1, <1>2 DEF Awaits
<1>3. CASE u # t
  <2>1. ThreadStep(t)
    BY DEF ThreadStep, Originals
  <2> QED
    BY <1>3, <2>1, AwaitsOther
<1> QED
  BY <1>2, <1>3

\* The second write makes the flag agree with the first.
LEMMA FlagSecondWrite ==
  ASSUME Inv, WroteInv, NEW t \in Threads, ReturnFromB(t), pc[t] = "wrote",
         NEW a \in Actors, a = cur[t].actor
  PROVE  FlagOf(a)'
<1>1. bit' = [bit EXCEPT ![cur[t].actor] = (cur[t].kind = "Add")] /\ list' = list
  BY Zenon DEF ReturnFromB
<1>2. bit'[a] = (cur[t].kind = "Add")
  BY <1>1 DEF Inv, TypeOK
<1>3. CASE cur[t].kind = "Add"
  <2>1. bit'[a] /\ a \in list'
    BY <1>1, <1>2, <1>3 DEF WroteInv
  <2> QED
    BY <2>1 DEF FlagOf
<1>4. CASE cur[t].kind # "Add"
  <2>1. ~bit'[a] /\ a \notin list'
    BY <1>1, <1>2, <1>4 DEF WroteInv
  <2> QED
    BY <2>1 DEF FlagOf
<1> QED
  BY <1>3, <1>4

\* An original returns: its actor agrees, the others are as they were.
LEMMA FlagReturn ==
  ASSUME Inv, WroteInv, NEW t \in Threads, ReturnFromB(t), NEW a \in Actors \ NoProcess, FlagOf(a)
  PROVE  FlagOf(a)'
<1>1. list' = list /\ ThreadStep(t) /\ pc[t] \in InB
  BY DEF ReturnFromB, ThreadStep, Originals, InB
<1>2. CASE pc[t] = "wrote" /\ a = cur[t].actor
  BY <1>2, FlagSecondWrite
<1>3. CASE pc[t] = "inB" \/ a # cur[t].actor
  <2>1. bit'[a] = bit[a]
    <3>1. CASE pc[t] = "inB"
      BY <3>1, Zenon DEF ReturnFromB
    <3>2. CASE pc[t] = "wrote" /\ a # cur[t].actor
      <4>1. bit' = [bit EXCEPT ![cur[t].actor] = (cur[t].kind = "Add")]
        BY <3>2, Zenon DEF ReturnFromB
      <4> QED
        BY <3>2, <4>1 DEF Inv, TypeOK
    <3> QED
      BY <1>1, <1>3, <3>1, <3>2 DEF InB
  <2>2. Change(a)' = Change(a)
    BY <2>1 DEF Change
  <2>3. CASE bit[a] /\ a \in list
    BY <1>1, <2>1, <2>3 DEF FlagOf
  <2>4. CASE ~bit[a] /\ a \notin list
    BY <1>1, <2>1, <2>4 DEF FlagOf
  <2>5. CASE \E u \in Threads : pc[u] = "wrote" /\ cur[u].actor = a
    <3>1. PICK u \in Threads : pc[u] = "wrote" /\ cur[u].actor = a
      BY <2>5
    <3>2. u # t
      BY <1>3, <3>1
    <3>3. pc'[u] = "wrote" /\ cur'[u].actor = a
      BY <1>1, <3>1, <3>2, OtherThreads DEF Inv
    <3> QED
      BY <3>3 DEF FlagOf
  <2>6. ASSUME NEW u \in Threads, Awaits(u, a, Change(a)),
               ~(bit[a] /\ a \in list), ~(~bit[a] /\ a \notin list)
        PROVE  FlagOf(a)'
    <3>1. u = t => ~Names(cur[t], a, Change(a))
      <4> SUFFICES ASSUME Names(cur[t], a, Change(a)) PROVE FALSE
        BY Zenon
      <4>1. cur[t].actor = a /\ cur[t].kind = Change(a)
        BY DEF Names
      <4>2. pc[t] = "inB" /\ ~Writes(cur[t])
        BY <1>1, <1>3, <4>1 DEF ReturnFromB, InB
      <4>3. CASE bit[a] /\ a \notin list
        BY <4>1, <4>2, <4>3 DEF Writes, Inserts, Change
      <4>4. CASE ~bit[a] /\ a \in list
        BY <4>1, <4>2, <4>4 DEF Writes, Inserts, Change
      <4> QED
        BY <2>6, <4>3, <4>4
    <3>2. Awaits(u, a, Change(a))'
      BY <2>2, <2>6, <3>1, ForgetsItsCall
    <3> QED
      BY <3>2 DEF FlagOf
  <2> QED
    BY <2>3, <2>4, <2>5, <2>6 DEF FlagOf
<1> QED
  BY <1>1, <1>2, <1>3 DEF InB

\* The first write leaves its actor with a thread between its two writes.
LEMMA FlagFirstWrite ==
  ASSUME Inv, ShapeAll, NEW t \in Threads, WriteList(t), NEW a \in Actors, FlagOf(a)
  PROVE  FlagOf(a)'
<1>1. /\ pc[t] = "inB" /\ pc'[t] = "wrote" /\ cur' = cur /\ bit' = bit
      /\ list' = IF cur[t].kind = "Add" THEN list \cup {cur[t].actor}
                                        ELSE list \ {cur[t].actor}
  BY WriteListFacts
<1>2. CASE a = cur[t].actor
  BY <1>1, <1>2 DEF FlagOf
<1>3. CASE a # cur[t].actor
  <2>1. a \in list' <=> a \in list
    BY <1>1, <1>3
  <2>2. ThreadStep(t) /\ ~ReturnFromB(t)
    <3>1. ThreadStep(t)
      BY DEF ThreadStep, Originals
    <3>2. ReturnFromB(t) => pc'[t] \in {"drain", "run"}
      BY DEF ReturnFromB, Goto, Inv, TypeOK
    <3> QED
      BY <1>1, <3>1, <3>2
  <2> QED
    BY <1>1, <2>1, <2>2, FlagQuiet
<1> QED
  BY <1>2, <1>3

\* Every step keeps the flag and the list in agreement, or a call pending.
LEMMA FlagStep ==
  ASSUME Inv, ShapeAll, WroteInv, FlagInv, NEW t \in Threads, ThreadStep(t)
  PROVE  FlagInv'
<1> SUFFICES ASSUME NEW a \in Actors \ NoProcess PROVE FlagOf(a)'
    BY DEF FlagInv
<1>1. FlagOf(a)
  BY DEF FlagInv
<1>2. CASE ReturnFromB(t)
  BY <1>1, <1>2, FlagReturn
<1>3. CASE WriteList(t)
  BY <1>1, <1>3, FlagFirstWrite
<1>4. CASE ~ReturnFromB(t) /\ ~WriteList(t)
  <2>1. list' = list
    BY <1>4, EngineStep
  <2>2. CASE bit' = bit
    BY <1>1, <1>4, <2>1, <2>2, FlagQuiet
  <2>3. ASSUME NEW b \in Actors, NEW k \in Kinds, Defer(t, k, b) PROVE FlagOf(a)'
    <3>1. CASE a = b
      BY <2>3, <3>1, FlagDefer
    <3>2. CASE a # b
      <4>1. bit'[a] = bit[a]
        BY <2>3, <3>2 DEF Defer, Inv, TypeOK
      <4> QED
        BY <1>1, <1>4, <2>1, <4>1, FlagQuiet
    <3> QED
      BY <3>1, <3>2
  <2> QED
    BY <1>4, <2>2, <2>3, EngineStep
<1> QED
  BY <1>2, <1>3, <1>4

\* An original between its two writes has made the first.
LEMMA WroteInvariance == Spec => []WroteInv
<1>1. Inv /\ WroteInv /\ [Next]_vars => WroteInv'
  <2> SUFFICES ASSUME Inv, WroteInv, [Next]_vars PROVE WroteInv'
    OBVIOUS
  <2>1. CASE UNCHANGED vars
    BY <2>1 DEF vars, engine, WroteInv
  <2> QED
    BY <2>1, WroteStep DEF Next, ThreadStep
<1> QED
  BY <1>1, FlagInit, Invariance, PTL DEF Spec

\* The flag and the list agree on an actor, or a pending call will make them
\* agree: for any number of threads whose gates, replays and LockB sections
\* interleave, and also when a drain runs inside a drain
\* (Phase4Defer.cpp:140-145).
THEOREM FlagAndListConverge == Spec => []FlagFollowsList
<1>1. Inv /\ ShapeAll /\ WroteInv /\ FlagInv /\ [Next]_vars => FlagInv'
  <2> SUFFICES ASSUME Inv, ShapeAll, WroteInv, FlagInv, [Next]_vars PROVE FlagInv'
    OBVIOUS
  <2>1. CASE UNCHANGED vars
    <3>1. UNCHANGED <<pc, cur, local, deferred, outer, bit, list>>
      BY <2>1 DEF vars, engine
    <3> QED
      BY <3>1 DEF FlagInv, FlagOf, Awaits, Change
  <2> QED
    BY <2>1, FlagStep DEF Next, ThreadStep
<1>2. Inv /\ FlagInv => FlagFollowsList
  <2> SUFFICES ASSUME Inv, FlagInv, NEW a \in Actors \ NoProcess, bit[a] # (a \in list),
                      ~\E t \in Threads : pc[t] = "wrote" /\ cur[t].actor = a
               PROVE  \E t \in Threads : \E call \in Pending(t) :
                         /\ call.actor = a /\ call.ticket > 0
                         /\ call.kind = (IF bit[a] THEN "Add" ELSE "Remove")
    BY DEF FlagFollowsList
  <2>0. ~(bit[a] /\ a \in list) /\ ~(~bit[a] /\ a \notin list)
    <3>1. bit[a] \in BOOLEAN
      BY DEF Inv, TypeOK
    <3>2. CASE a \in list
      <4>1. (a \in list) = TRUE
        BY <3>2
      <4>2. bit[a] # TRUE
        BY <4>1, Zenon
      <4> QED
        BY <3>1, <3>2, <4>2
    <3>3. CASE a \notin list
      <4>1. (a \in list) = FALSE
        BY <3>3
      <4>2. bit[a] # FALSE
        BY <4>1, Zenon
      <4> QED
        BY <3>1, <3>3, <4>2
    <3> QED
      BY <3>2, <3>3
  <2>1. PICK t \in Threads : Awaits(t, a, Change(a))
    BY <2>0 DEF FlagInv, FlagOf
  <2>2. PICK call \in Pending(t) : Names(call, a, Change(a))
    BY <2>1, AwaitsPending
  <2> QED
    BY <2>2 DEF Names, Change
<1> QED
  BY <1>1, <1>2, FlagInit, WroteInvariance, ShapeInvariance, Invariance, PTL DEF Spec

(***************************************************************************)
(* The refinement of TempChangeList, when a replayed Add does not call out.*)
(* Calls(t) are the calls of the thread that have not taken effect.        *)
(***************************************************************************)
InCall(t) == IF cur[t].kind \in Kinds /\ pc[t] # "wrote" THEN <<cur[t]>> ELSE <<>>
Calls(t)  == InCall(t) \o local[t] \o deferred[t]
Plain(call) == [kind |-> call.kind, actor |-> call.actor]
PlainSeq(s) == [i \in 1..Len(s) |-> Plain(s[i])]

\* Only transfers call out.
OutInv == \A t \in Threads :
    /\ cur[t].kind = "Add" => ~cur[t].out
    /\ \A i \in 1..Len(local[t]) : ~local[t][i].out
    /\ \A i \in 1..Len(deferred[t]) : ~deferred[t][i].out
    /\ \A i \in 1..Len(outer[t]) : outer[t][i].cur.kind = "Transfer"

\* The refinement mapping in these terms.
LEMMA QueueIsCalls ==
  ASSUME NEW t \in Threads
  PROVE  /\ AbstractQueue(t) = PlainSeq(Calls(t))
         /\ AbstractQueue(t)' = PlainSeq(Calls(t)')
<1>1. AbstractQueue(t) = PlainSeq(Calls(t))
  BY DEF AbstractQueue, PlainSeq, Plain, Calls, InCall
<1>2. AbstractQueue(t)' = PlainSeq(Calls(t)')
  BY DEF AbstractQueue, PlainSeq, Plain, Calls, InCall
<1> QED
  BY <1>1, <1>2

\* The calls of a thread form a sequence of gated calls.
LEMMA CallsType ==
  ASSUME Inv, NEW t \in Threads
  PROVE  InCall(t) \in Seq(DeferredCall) /\ Calls(t) \in Seq(DeferredCall)
<1>1. cur[t].kind \in Kinds => cur[t] \in DeferredCall
  BY LocalTypes DEF Call, DeferredCall, OtherCall, Kinds
<1>2. InCall(t) \in Seq(DeferredCall)
  BY <1>1 DEF InCall
<1>3. InCall(t) \o local[t] \in Seq(DeferredCall)
  BY <1>2, LocalTypes
<1> QED
  BY <1>2, <1>3, LocalTypes DEF Calls

\* A step of one thread in terms of the abstract variables.
LEMMA AbstractIssue ==
  ASSUME Inv, NEW t \in Threads, NEW c \in DeferredCall, Calls(t)' = Append(Calls(t), c),
         list' = list, \A u \in Threads : u # t => Calls(u)' = Calls(u)
  PROVE  Abstract!Next
<1> DEFINE q == [u \in Threads |-> AbstractQueue(u)]
<1>1. \A u \in Threads : q[u] = PlainSeq(Calls(u)) /\ q'[u] = PlainSeq(Calls(u)')
  BY QueueIsCalls
<1>2. PlainSeq(Append(Calls(t), c)) = Append(PlainSeq(Calls(t)), Plain(c))
  <2>1. Calls(t) \in Seq(DeferredCall)
    BY CallsType
  <2> QED
    BY <2>1 DEF PlainSeq
<1>3. q' = [q EXCEPT ![t] = Append(@, Plain(c))]
  BY <1>1, <1>2
<1>4. Plain(c) \in Abstract!Call
  BY DEF Abstract!Call, Abstract!Kinds, Plain, DeferredCall, Kinds
<1>5. Abstract!Issue(t, Plain(c))
  BY <1>3 DEF Abstract!Issue
<1> QED
  BY <1>4, <1>5 DEF Abstract!Next

\* The oldest call of a thread takes effect.
LEMMA AbstractApply ==
  ASSUME Inv, NEW t \in Threads, Calls(t) # <<>>, Calls(t)' = Tail(Calls(t)),
         list' = Abstract!Effect(list, Plain(Head(Calls(t)))),
         \A u \in Threads : u # t => Calls(u)' = Calls(u)
  PROVE  Abstract!Next
<1> DEFINE q == [u \in Threads |-> AbstractQueue(u)]
<1>1. \A u \in Threads : q[u] = PlainSeq(Calls(u)) /\ q'[u] = PlainSeq(Calls(u)')
  BY QueueIsCalls
<1>2. Calls(t) \in Seq(DeferredCall)
  BY CallsType
<1>3. PlainSeq(Calls(t)) # <<>> /\ Head(PlainSeq(Calls(t))) = Plain(Head(Calls(t)))
  BY <1>2 DEF PlainSeq
<1>4. PlainSeq(Tail(Calls(t))) = Tail(PlainSeq(Calls(t)))
  BY <1>2 DEF PlainSeq
<1>5. q' = [q EXCEPT ![t] = Tail(@)]
  BY <1>1, <1>4
<1>6. q[t] # <<>> /\ list' = Abstract!Effect(list, Head(q[t]))
  BY <1>1, <1>3
<1>7. Abstract!Apply(t)
  BY <1>5, <1>6 DEF Abstract!Apply
<1> QED
  BY <1>7 DEF Abstract!Next

\* The engine takes an actor off the list.
LEMMA AbstractTakeOff ==
  ASSUME list # {}, NEW a \in list, list' = list \ {a},
         \A u \in Threads : Calls(u)' = Calls(u)
  PROVE  Abstract!Next
<1>1. \A u \in Threads : AbstractQueue(u)' = AbstractQueue(u)
  BY QueueIsCalls
<1>2. [u \in Threads |-> AbstractQueue(u)]' = [u \in Threads |-> AbstractQueue(u)]
  BY <1>1
<1>3. Abstract!TakeOff
  BY <1>2 DEF Abstract!TakeOff
<1> QED
  BY <1>3 DEF Abstract!Next

\* Nothing takes effect and nothing is called.
LEMMA AbstractStutter ==
  ASSUME list' = list, \A u \in Threads : Calls(u)' = Calls(u)
  PROVE  UNCHANGED Abstract!vars
<1>1. \A u \in Threads : AbstractQueue(u)' = AbstractQueue(u)
  BY QueueIsCalls
<1> QED
  BY <1>1 DEF Abstract!vars

\* What the other threads have called does not change.
LEMMA CallsOther ==
  ASSUME Inv, NEW t \in Threads, ThreadStep(t), NEW u \in Threads, u # t
  PROVE  Calls(u)' = Calls(u)
  BY OtherThreads DEF Inv, Calls, InCall

\* The calls of a thread that is in no original.
LEMMA CallsOutside ==
  ASSUME Inv, ShapeAll, NEW t \in Threads, pc[t] \in {"run", "wantA", "ret", "drain"}
  PROVE  InCall(t) = <<>> /\ Calls(t) = local[t] \o deferred[t]
<1>1. InCall(t) = <<>>
  BY NoCallTicket DEF ShapeAll, ShapeOf, InCall, Kinds
<1>2. Calls(t) = local[t] \o deferred[t]
  BY <1>1, LocalTypes, ConcatEmptySeq DEF Calls
<1> QED
  BY <1>1, <1>2

\* Only Transfer calls out: the calls of the thread stay.
LEMMA CallsCallOut ==
  ASSUME Inv, QueueInv, ShapeAll, ~Reentrant, NEW t \in Threads, CallOut(t)
  PROVE  Calls(t)' = Calls(t) /\ cur[t].kind = "Transfer"
<1>1. cur[t].kind = "Transfer" /\ cur'[t] = NoCall /\ local'[t] = <<>> /\ deferred' = deferred
      /\ pc[t] = "inB"
  BY DEF CallOut, MayCallOut, Inv, TypeOK
<1>2. cur[t].ticket = 0
  BY <1>1, LocalTypes DEF Call, DeferredCall, OtherCall, Kinds
<1>3. local[t] = <<>>
  BY <1>1, <1>2 DEF QueueInv, QueueOf
<1> QED
  BY <1>1, <1>3, NoCallTicket DEF Calls, InCall, Kinds

\* The epilogue moves the queue to the drain in one piece.
LEMMA CallsWrapEpilogue ==
  ASSUME Inv, ShapeAll, NEW t \in Threads, WrapEpilogue(t)
  PROVE  Calls(t)' = Calls(t)
<1>1. /\ pc[t] = "ret" /\ pc'[t] \in {"run", "drain"} /\ cur' = cur
      /\ \/ local'[t] = deferred[t] /\ deferred'[t] = <<>>
         \/ local'[t] = local[t] /\ deferred'[t] = deferred[t]
  BY DEF WrapEpilogue, Goto, Inv, TypeOK
<1>2. local[t] = <<>> /\ Calls(t) = local[t] \o deferred[t] /\ InCall(t) = <<>>
  BY <1>1, CallsOutside DEF ShapeAll, ShapeOf
<1>3. InCall(t)' = <<>>
  BY <1>1, <1>2, NoCallTicket DEF ShapeAll, ShapeOf, InCall, Kinds
<1>4. Calls(t)' = local'[t] \o deferred'[t]
  <2>1. local'[t] \in Seq(DeferredCall)
    BY <1>1, LocalTypes
  <2> QED
    BY <1>3, <2>1, ConcatEmptySeq DEF Calls
<1>5. local'[t] \o deferred'[t] = local[t] \o deferred[t]
  <2>1. << >> \o deferred[t] = deferred[t] /\ deferred[t] \o << >> = deferred[t]
    BY LocalTypes, ConcatEmptySeq
  <2> QED
    BY <1>1, <1>2, <2>1
<1> QED
  BY <1>2, <1>4, <1>5

\* A replay starts with the oldest call of the thread.
LEMMA CallsDrainNext ==
  ASSUME Inv, ShapeAll, NEW t \in Threads, DrainNext(t)
  PROVE  Calls(t)' = Calls(t)
<1>1. /\ pc[t] = "drain" /\ pc'[t] = "wantB" /\ local[t] # <<>>
      /\ cur'[t] = Head(local[t]) /\ local'[t] = Tail(local[t]) /\ deferred' = deferred
  BY DEF DrainNext, Goto, Inv, TypeOK
<1>2. Calls(t) = local[t] \o deferred[t]
  BY <1>1, CallsOutside
<1>3. cur'[t] \in DeferredCall
  BY <1>1, LocalTypes
<1>4. InCall(t)' = <<Head(local[t])>>
  BY <1>1, <1>3 DEF InCall, DeferredCall
<1>5. <<Head(local[t])>> \o Tail(local[t]) = local[t]
  BY <1>1, LocalTypes
<1> QED
  BY <1>1, <1>2, <1>4, <1>5 DEF Calls

\* A drain that ends goes back to engine code or to the Transfer that called out.
LEMMA CallsDrainDone ==
  ASSUME Inv, QueueInv, ShapeAll, OutInv, NEW t \in Threads, DrainDone(t)
  PROVE  Calls(t)' = Calls(t)
<1>1. pc[t] = "drain" /\ local[t] = <<>> /\ deferred' = deferred
  BY DEF DrainDone
<1>2. Calls(t) = local[t] \o deferred[t] /\ InCall(t) = <<>>
  BY <1>1, CallsOutside
<1>3. CASE outer[t] = <<>>
  BY <1>1, <1>2, <1>3 DEF DrainDone, Calls, InCall, Goto, Inv, TypeOK
<1>4. CASE outer[t] # <<>>
  <2> DEFINE n == Len(outer[t])
  <2>1. /\ cur'[t] = Last(outer[t]).cur /\ local'[t] = Last(outer[t]).local
    BY <1>4 DEF DrainDone, Inv, TypeOK
  <2>2. n \in 1..n /\ Last(outer[t]) = outer[t][n]
    BY <1>4, LocalTypes, FrontElements
  <2>3. local'[t] = <<>> /\ cur'[t].kind = "Transfer"
    BY <2>1, <2>2 DEF QueueInv, QueueOf, OutInv
  <2>4. InCall(t)' = <<>>
    BY <2>3 DEF InCall, Kinds
  <2> QED
    BY <1>1, <1>2, <2>3, <2>4 DEF Calls
<1> QED
  BY <1>3, <1>4

\* The head of a concatenation and the rest of it.
LEMMA HeadTailConcat ==
  ASSUME NEW S, NEW s \in Seq(S), NEW r \in Seq(S), s # <<>>
  PROVE  s \o r # <<>> /\ Head(s \o r) = Head(s) /\ Tail(s \o r) = Tail(s) \o r
<1>1. Len(s) \in Nat /\ Len(s) > 0 /\ Len(r) \in Nat
  OBVIOUS
<1>2. s \o r \in Seq(S) /\ Len(s \o r) = Len(s) + Len(r) /\ Head(s \o r) = Head(s) /\ s \o r # <<>>
  BY <1>1
<1>3. /\ Tail(s \o r) \in Seq(S) /\ Tail(s) \o r \in Seq(S)
      /\ Len(Tail(s \o r)) = Len(s) + Len(r) - 1 /\ Len(Tail(s) \o r) = Len(s) + Len(r) - 1
  BY <1>1, <1>2
<1>4. ASSUME NEW i \in 1..(Len(s) + Len(r) - 1) PROVE Tail(s \o r)[i] = (Tail(s) \o r)[i]
  <2>1. Tail(s \o r)[i] = (s \o r)[i + 1]
    BY <1>1, <1>2
  <2>2. CASE i <= Len(s) - 1
    BY <1>1, <1>2, <2>1, <2>2
  <2>3. CASE i > Len(s) - 1
    BY <1>1, <1>2, <2>1, <2>3
  <2> QED
    BY <1>1, <2>2, <2>3
<1>5. Tail(s \o r) = Tail(s) \o r
  BY <1>3, <1>4, SeqEqual
<1> QED
  BY <1>2, <1>5

\* The calls of a thread in an original: its call, unless it has taken effect.
LEMMA CallsInside ==
  ASSUME Inv, NEW t \in Threads, pc[t] \in {"wantB", "inB"}, cur[t].kind \in Kinds
  PROVE  Calls(t) # <<>> /\ Head(Calls(t)) = cur[t]
         /\ Tail(Calls(t)) = local[t] \o deferred[t]
<1>1. Calls(t) = <<cur[t]>> \o local[t] \o deferred[t]
  BY DEF Calls, InCall
<1>2. cur[t] \in DeferredCall
  BY LocalTypes DEF Call, DeferredCall, OtherCall, Kinds
<1>3. /\ <<cur[t]>> \o local[t] \in Seq(DeferredCall)
      /\ Len(<<cur[t]>> \o local[t]) = Len(local[t]) + 1
      /\ (<<cur[t]>> \o local[t])[1] = cur[t]
      /\ \A i \in 1..Len(local[t]) : (<<cur[t]>> \o local[t])[i + 1] = local[t][i]
  BY <1>2, LocalTypes
<1> DEFINE s == <<cur[t]>> \o local[t]
<1>4. Calls(t) = s \o deferred[t] /\ s \in Seq(DeferredCall) /\ s # <<>>
  BY <1>1, <1>3, LocalTypes
<1>5. Tail(s) = local[t]
  BY <1>3, LocalTypes
<1>6. Head(s) = cur[t]
  BY <1>3
<1> HIDE DEF s
<1>7. /\ s \o deferred[t] # <<>> /\ Head(s \o deferred[t]) = Head(s)
      /\ Tail(s \o deferred[t]) = Tail(s) \o deferred[t]
  BY <1>4, LocalTypes, HeadTailConcat
<1> QED
  BY <1>4, <1>5, <1>6, <1>7

\* Writing the list is when an added or removed actor's call takes effect.
LEMMA WriteListApplies ==
  ASSUME Inv, OutInv, NEW t \in Threads, WriteList(t), cur[t].kind \in Kinds
  PROVE  /\ Calls(t) # <<>> /\ Calls(t)' = Tail(Calls(t))
         /\ list' = Abstract!Effect(list, Plain(Head(Calls(t))))
<1>1. /\ pc[t] = "inB" /\ pc'[t] = "wrote" /\ cur' = cur
      /\ cur[t].actor \in Actors
      /\ list' = IF cur[t].kind = "Add" THEN list \cup {cur[t].actor}
                                        ELSE list \ {cur[t].actor}
  BY WriteListFacts
<1>2. Writes(cur[t]) /\ UNCHANGED <<local, deferred>>
  BY DEF WriteList
<1>3. Calls(t) # <<>> /\ Head(Calls(t)) = cur[t] /\ Tail(Calls(t)) = local[t] \o deferred[t]
  BY <1>1, CallsInside
<1>4. InCall(t)' = <<>>
  BY <1>1 DEF InCall
<1>5. Calls(t)' = local[t] \o deferred[t]
  BY <1>2, <1>4, LocalTypes, ConcatEmptySeq DEF Calls
<1>6. cur[t].kind = "Add" => cur[t].actor \notin NoProcess
  BY <1>2 DEF Writes, Inserts, OutInv
<1>7. list' = Abstract!Effect(list, Plain(cur[t]))
  BY <1>1, <1>6 DEF Abstract!Effect, Plain, Kinds
<1> QED
  BY <1>3, <1>5, <1>7

\* A Transfer that writes takes its actor off the list and is no thread's call.
LEMMA TransferTakesOff ==
  ASSUME Inv, NEW t \in Threads, WriteList(t), cur[t].kind \notin Kinds
  PROVE  /\ Calls(t)' = Calls(t)
         /\ list # {} /\ \E a \in list : list' = list \ {a}
<1>1. /\ pc[t] = "inB" /\ pc'[t] = "wrote" /\ cur' = cur
      /\ list' = IF cur[t].kind = "Add" THEN list \cup {cur[t].actor}
                                        ELSE list \ {cur[t].actor}
  BY WriteListFacts
<1>2. Writes(cur[t]) /\ UNCHANGED <<local, deferred>>
  BY DEF WriteList
<1>3. cur[t].actor \in list /\ list' = list \ {cur[t].actor}
  BY <1>1, <1>2 DEF Writes, Kinds
<1>4. InCall(t) = <<>> /\ InCall(t)' = <<>>
  BY <1>1 DEF InCall
<1>5. Calls(t)' = Calls(t)
  BY <1>2, <1>4 DEF Calls
<1> QED
  BY <1>3, <1>5

\* An original that returns without a write takes effect then; one that wrote
\* has, and a Transfer has none.
LEMMA ReturnApplies ==
  ASSUME Inv, OutInv, ShapeAll, WroteInv, NEW t \in Threads, ReturnFromB(t)
  PROVE  \/ Calls(t)' = Calls(t) /\ list' = list
         \/ /\ Calls(t) # <<>> /\ Calls(t)' = Tail(Calls(t))
            /\ list' = Abstract!Effect(list, Plain(Head(Calls(t))))
<1>1. /\ pc'[t] \in {"run", "drain"} /\ cur'[t] = NoCall
      /\ UNCHANGED <<local, deferred, list>>
      /\ \/ pc[t] = "inB" /\ ~Writes(cur[t])
         \/ pc[t] = "wrote"
  BY DEF ReturnFromB, Goto, Inv, TypeOK
<1>2. InCall(t)' = <<>>
  BY <1>1, NoCallTicket DEF InCall, Kinds
<1>3. Calls(t)' = local[t] \o deferred[t]
  BY <1>1, <1>2, LocalTypes, ConcatEmptySeq DEF Calls
<1>4. CASE pc[t] = "wrote" \/ cur[t].kind \notin Kinds
  <2>1. InCall(t) = <<>>
    BY <1>4 DEF InCall
  <2>2. Calls(t) = local[t] \o deferred[t]
    BY <2>1, LocalTypes, ConcatEmptySeq DEF Calls
  <2> QED
    BY <1>1, <1>3, <2>2
<1>5. CASE pc[t] = "inB" /\ ~Writes(cur[t]) /\ cur[t].kind \in Kinds
  <2>1. Calls(t) # <<>> /\ Head(Calls(t)) = cur[t] /\ Tail(Calls(t)) = local[t] \o deferred[t]
    BY <1>5, CallsInside
  <2>2. Abstract!Effect(list, Plain(cur[t])) = list
    <3>1. CASE cur[t].kind = "Add"
      BY <1>5, <3>1 DEF Writes, Inserts, Abstract!Effect, Plain
    <3>2. CASE cur[t].kind = "Remove"
      BY <1>5, <3>2 DEF Writes, Abstract!Effect, Plain
    <3> QED
      BY <1>5, <3>1, <3>2 DEF Kinds
  <2> QED
    BY <1>1, <1>3, <2>1, <2>2
<1> QED
  BY <1>1, <1>4, <1>5

\* A gate's queued call, and one that passes through, is the thread's newest.
LEMMA GateIssues ==
  ASSUME Inv, ShapeAll, NEW t \in Threads, pc[t] = "run", NEW k \in Kinds, NEW a \in Actors,
         Defer(t, k, a) \/ PassThrough(t, k, a)
  PROVE  list' = list /\ \E c \in DeferredCall : Calls(t)' = Append(Calls(t), c)
<1>1. Calls(t) = local[t] \o deferred[t] /\ InCall(t) = <<>> /\ local[t] = <<>>
  BY CallsOutside DEF ShapeAll, ShapeOf
<1>2. Calls(t) = deferred[t]
  BY <1>1, LocalTypes, ConcatEmptySeq
<1>3. CASE Defer(t, k, a)
  <2> DEFINE c == [kind |-> k, actor |-> a, ticket |-> queued[t] + 1, out |-> FALSE]
  <2>1. deferred'[t] = Append(deferred[t], c) /\ UNCHANGED <<pc, local, cur, list>>
    BY <1>3 DEF Defer, Inv, TypeOK
  <2>2. c \in DeferredCall
    BY LocalTypes DEF DeferredCall
  <2> HIDE DEF c
  <2>3. deferred'[t] \in Seq(DeferredCall) /\ InCall(t)' = <<>> /\ local'[t] = <<>>
    BY <1>1, <2>1, <2>2, LocalTypes DEF InCall
  <2>4. Calls(t)' = deferred'[t]
    BY <2>3, ConcatEmptySeq DEF Calls
  <2> QED
    BY <1>2, <2>1, <2>2, <2>4
<1>4. CASE PassThrough(t, k, a)
  <2> DEFINE c == [kind |-> k, actor |-> a, ticket |-> 0, out |-> FALSE]
  <2>1. /\ depth[t] = 0 /\ cur'[t] = c /\ pc'[t] = "wantB"
        /\ UNCHANGED <<local, deferred, list>>
    BY <1>4 DEF PassThrough, CallOriginal, Goto, engine, Inv, TypeOK
  <2>2. c \in DeferredCall /\ c.kind = k
    BY DEF DeferredCall
  <2> HIDE DEF c
  <2>3. deferred[t] = <<>>
    BY <2>1 DEF ShapeAll, ShapeOf
  <2>4. InCall(t)' = <<c>>
    BY <2>1, <2>2 DEF InCall
  <2>5. Calls(t)' = <<c>>
    <3>1. Calls(t)' = (<<c>> \o <<>>) \o <<>>
      BY <1>1, <2>1, <2>3, <2>4 DEF Calls
    <3>2. <<c>> \in Seq(DeferredCall)
      BY <2>2
    <3> QED
      BY <3>1, <3>2, ConcatEmptySeq
  <2> QED
    BY <1>2, <2>1, <2>2, <2>3, <2>5
<1> QED
  BY <1>3, <1>4

\* A gated call is made with out not set, and only a Transfer calls out.
LEMMA OutStep ==
  ASSUME Inv, QueueInv, OutInv, ~Reentrant, NEW t \in Threads, ThreadStep(t)
  PROVE  OutInv'
<1> DEFINE Out(u) == /\ cur[u].kind = "Add" => ~cur[u].out
                     /\ \A i \in 1..Len(local[u]) : ~local[u][i].out
                     /\ \A i \in 1..Len(deferred[u]) : ~deferred[u][i].out
                     /\ \A i \in 1..Len(outer[u]) : outer[u][i].cur.kind = "Transfer"
<1>1. Out(t)
  BY DEF OutInv
<1>2. \A u \in Threads : u # t => Out(u)'
  BY OtherThreads DEF Inv, OutInv
<1> SUFFICES Out(t)'
  BY <1>2 DEF OutInv
<1>3. CASE UNCHANGED <<local, deferred, outer>> /\ (cur'[t] = cur[t] \/ cur'[t] = NoCall)
  <2>1. cur'[t].kind = "Add" => ~cur'[t].out
    BY <1>1, <1>3, NoCallTicket
  <2> QED
    BY <1>1, <1>3, <2>1
<1>4. CASE CallOut(t)
  <2> DEFINE frame == [cur |-> [cur[t] EXCEPT !.out = TRUE], local |-> local[t]]
  <2>1. /\ cur[t].kind = "Transfer" /\ outer'[t] = Append(outer[t], frame)
        /\ cur'[t] = NoCall /\ local'[t] = <<>> /\ deferred' = deferred
    BY <1>4 DEF CallOut, MayCallOut, Inv, TypeOK
  <2>2. frame.cur.kind = "Transfer"
    BY <2>1, LocalTypes DEF Call, DeferredCall, OtherCall
  <2> HIDE DEF frame
  <2>3. \A i \in 1..Len(outer'[t]) : outer'[t][i].cur.kind = "Transfer"
    BY <1>1, <2>1, <2>2, LocalTypes
  <2> QED
    BY <1>1, <2>1, <2>3, NoCallTicket
<1>5. CASE WrapEpilogue(t)
  <2>1. /\ outer' = outer /\ cur' = cur
        /\ \/ local'[t] = deferred[t] /\ deferred'[t] = <<>>
           \/ local'[t] = local[t] /\ deferred'[t] = deferred[t]
    BY <1>5 DEF WrapEpilogue, Inv, TypeOK
  <2> QED
    BY <1>1, <2>1
<1>6. CASE DrainNext(t)
  <2>1. /\ local[t] # <<>> /\ local'[t] = Tail(local[t])
        /\ cur'[t] = Head(local[t]) /\ UNCHANGED <<deferred, outer>>
    BY <1>6 DEF DrainNext, Inv, TypeOK
  <2>2. cur'[t] = local[t][1] /\ 1 \in 1..Len(local[t])
    BY <2>1, LocalTypes
  <2>3. \A i \in 1..Len(local'[t]) : local'[t][i] = local[t][i + 1] /\ i + 1 \in 1..Len(local[t])
    BY <2>1, LocalTypes
  <2> QED
    BY <1>1, <2>1, <2>2, <2>3
<1>7. CASE DrainDone(t) /\ outer[t] # <<>>
  <2> DEFINE n == Len(outer[t])
  <2>1. /\ local'[t] = Last(outer[t]).local /\ cur'[t] = Last(outer[t]).cur
        /\ outer'[t] = Front(outer[t]) /\ deferred' = deferred
    BY <1>7 DEF DrainDone, Inv, TypeOK
  <2>2. /\ n \in 1..n /\ Last(outer[t]) = outer[t][n]
        /\ Len(outer'[t]) = n - 1 /\ \A i \in 1..(n - 1) : outer'[t][i] = outer[t][i] /\ i \in 1..n
    BY <1>7, <2>1, LocalTypes, FrontElements
  <2>3. cur'[t].kind = "Transfer" /\ local'[t] = <<>>
    BY <1>1, <2>1, <2>2 DEF QueueInv, QueueOf
  <2>4. \A i \in 1..Len(outer'[t]) : outer'[t][i].cur.kind = "Transfer"
    BY <1>1, <2>2
  <2>5. \A i \in 1..Len(deferred'[t]) : ~deferred'[t][i].out
    BY <1>1, <2>1
  <2>6. \A i \in 1..Len(local'[t]) : ~local'[t][i].out
    BY <2>3
  <2> QED
    BY <2>3, <2>4, <2>5, <2>6
<1>8. ASSUME NEW k \in Kinds, NEW a \in Actors, Defer(t, k, a) PROVE Out(t)'
  <2> DEFINE c == [kind |-> k, actor |-> a, ticket |-> queued[t] + 1, out |-> FALSE]
  <2>1. deferred'[t] = Append(deferred[t], c) /\ UNCHANGED <<local, cur, outer>>
    BY <1>8 DEF Defer, Inv, TypeOK
  <2>2. ~c.out
    OBVIOUS
  <2> HIDE DEF c
  <2>3. \A i \in 1..Len(deferred'[t]) : ~deferred'[t][i].out
    BY <1>1, <2>1, <2>2, LocalTypes
  <2> QED
    BY <1>1, <2>1, <2>3
<1>9. ASSUME NEW k, NEW a, CallOriginal(t, k, a) PROVE Out(t)'
  <2>1. ~cur'[t].out /\ UNCHANGED <<local, deferred, outer>>
    BY <1>9 DEF CallOriginal, Inv, TypeOK
  <2> QED
    BY <1>1, <2>1
<1>10. CASE EnterWrap(t) \/ AcquireA(t) \/ LeaveA(t) \/ AcquireB(t) \/ WriteList(t)
            \/ ReturnFromB(t)
  BY <1>3, <1>10 DEF EnterWrap, AcquireA, LeaveA, AcquireB, WriteList, ReturnFromB, Inv, TypeOK
<1>11. CASE DrainDone(t) /\ outer[t] = <<>>
  BY <1>3, <1>11 DEF DrainDone
<1> QED
  BY <1>4, <1>5, <1>6, <1>7, <1>8, <1>9, <1>10, <1>11
     DEF ThreadStep, Gates, Wrap, Originals, HookedRemoveAtCycleHub,
         HookedAddInsideAddWrapper, PassThrough, Transfer, Kinds

\* A step of a thread is a step of TempChangeList or leaves it alone.
LEMMA RefinesStep ==
  ASSUME Inv, QueueInv, ShapeAll, WroteInv, OutInv, ~Reentrant,
         NEW t \in Threads, ThreadStep(t)
  PROVE  Abstract!Next \/ UNCHANGED Abstract!vars
<1>1. \A u \in Threads : u # t => Calls(u)' = Calls(u)
  BY CallsOther
<1>2. CASE Calls(t)' = Calls(t) /\ list' = list
  BY <1>1, <1>2, AbstractStutter
<1>3. ASSUME Calls(t) # <<>>, Calls(t)' = Tail(Calls(t)),
             list' = Abstract!Effect(list, Plain(Head(Calls(t))))
      PROVE  Abstract!Next
  BY <1>1, <1>3, AbstractApply
<1>4. CASE EnterWrap(t) \/ AcquireA(t) \/ LeaveA(t) \/ AcquireB(t)
  <2>1. UNCHANGED <<local, deferred, cur, list>> /\ (pc[t] = "wrote" <=> pc'[t] = "wrote")
    BY <1>4 DEF EnterWrap, AcquireA, LeaveA, AcquireB, Goto, engine, Inv, TypeOK
  <2> QED
    BY <1>2, <2>1 DEF Calls, InCall
<1>5. CASE CallOut(t) \/ WrapEpilogue(t) \/ DrainNext(t) \/ DrainDone(t)
  <2>1. list' = list
    BY <1>5 DEF CallOut, WrapEpilogue, DrainNext, DrainDone, engine
  <2>2. Calls(t)' = Calls(t)
    BY <1>5, CallsCallOut, CallsWrapEpilogue, CallsDrainNext, CallsDrainDone
  <2> QED
    BY <1>2, <2>1, <2>2
<1>6. CASE WriteList(t)
  <2>1. CASE cur[t].kind \in Kinds
    BY <1>3, <1>6, <2>1, WriteListApplies
  <2>2. CASE cur[t].kind \notin Kinds
    <3>1. Calls(t)' = Calls(t) /\ list # {}
      BY <1>6, <2>2, TransferTakesOff
    <3>2. PICK a \in list : list' = list \ {a}
      BY <1>6, <2>2, TransferTakesOff
    <3> QED
      BY <1>1, <3>1, <3>2, AbstractTakeOff
  <2> QED
    BY <2>1, <2>2
<1>7. CASE ReturnFromB(t)
  BY <1>2, <1>3, <1>7, ReturnApplies
<1>8. CASE Transfer(t)
  <2>1. /\ pc[t] = "run" /\ cur'[t].kind = "Transfer" /\ UNCHANGED <<local, deferred, list>>
    BY <1>8 DEF Transfer, CallOriginal, engine, Inv, TypeOK
  <2>2. InCall(t) = <<>> /\ InCall(t)' = <<>>
    BY <2>1, CallsOutside DEF InCall, Kinds
  <2> QED
    BY <1>2, <2>1, <2>2 DEF Calls
<1>9. ASSUME NEW k \in Kinds, NEW a \in Actors, pc[t] = "run",
             Defer(t, k, a) \/ PassThrough(t, k, a)
      PROVE  Abstract!Next
  <2>1. PICK c \in DeferredCall : Calls(t)' = Append(Calls(t), c) /\ list' = list
    BY <1>9, GateIssues
  <2> QED
    BY <1>1, <2>1, AbstractIssue
<1> QED
  BY <1>4, <1>5, <1>6, <1>7, <1>8, <1>9
     DEF ThreadStep, Gates, Wrap, Originals, HookedRemoveAtCycleHub,
         HookedAddInsideAddWrapper, Kinds

\* The wrap, the gates, the drain and the originals implement TempChangeList
\* step by step, when a replayed Add does not call out to id 19369: every call
\* takes effect at most once, alone and after the earlier ones of its thread,
\* and the list changes otherwise only when id 40285 takes an actor off it.
\* (That it does take effect is ImplementsTempChangeList's fairness.)
THEOREM DeferralRefines ==
  ~Reentrant => (Spec => Abstract!Init /\ [][Abstract!Next]_(Abstract!vars))
<1> SUFFICES ASSUME ~Reentrant
             PROVE  Spec => Abstract!Init /\ [][Abstract!Next]_(Abstract!vars)
    OBVIOUS
<1>1. Init => Abstract!Init
  <2> SUFFICES ASSUME Init PROVE Abstract!Init
      OBVIOUS
  <2>1. \A t \in Threads : InCall(t) = <<>> /\ local[t] = <<>> /\ deferred[t] = <<>>
    BY NoCallTicket DEF Init, InCall, Kinds
  <2>2. \A t \in Threads : PlainSeq(Calls(t)) = <<>>
    <3>1. <<>> \in Seq(DeferredCall)
      OBVIOUS
    <3>2. \A t \in Threads : Calls(t) = <<>>
      BY <2>1, <3>1, ConcatEmptySeq DEF Calls
    <3>3. PlainSeq(<<>>) = <<>>
      BY DEF PlainSeq
    <3> QED
      BY <3>2, <3>3
  <2>3. \A t \in Threads : AbstractQueue(t) = <<>>
    BY <2>2, QueueIsCalls
  <2> QED
    BY <2>3 DEF Init, Abstract!Init
<1>2. Init => OutInv
  BY NoCallTicket DEF Init, OutInv
<1>3. Inv /\ QueueInv /\ OutInv /\ [Next]_vars => OutInv'
  <2> SUFFICES ASSUME Inv, QueueInv, OutInv, [Next]_vars PROVE OutInv'
    OBVIOUS
  <2>1. CASE UNCHANGED vars
    BY <2>1 DEF vars, OutInv
  <2> QED
    BY <2>1, OutStep DEF Next, ThreadStep
<1>4. Inv /\ QueueInv /\ ShapeAll /\ WroteInv /\ OutInv /\ [Next]_vars
        => [Abstract!Next]_(Abstract!vars)
  <2> SUFFICES ASSUME Inv, QueueInv, ShapeAll, WroteInv, OutInv, [Next]_vars
               PROVE  [Abstract!Next]_(Abstract!vars)
    OBVIOUS
  <2>1. CASE UNCHANGED vars
    <3>1. list' = list /\ \A u \in Threads : Calls(u)' = Calls(u)
      BY <2>1 DEF vars, engine, Calls, InCall
    <3> QED
      BY <3>1, AbstractStutter
  <2> QED
    BY <2>1, RefinesStep DEF Next, ThreadStep
<1> QED
  BY <1>1, <1>2, <1>3, <1>4, QueueInvariance, ShapeInvariance, WroteInvariance, Invariance,
     PTL DEF Spec
=============================================================================
