------------------------- MODULE WaitForChainProofs -------------------------
(***************************************************************************)
(* What the two lock sections of a report say, for any number of threads   *)
(* and locks and any hop limit: a reported cycle is a deadlock, a deadlock *)
(* of main within the hop limit is reported, no thread is blamed wrongly,  *)
(* and the walk meets no thread twice.                                     *)
(***************************************************************************)
EXTENDS WaitForChain, FiniteSetTheorems, TLAPS

(* A thread spins on a lock of another thread.                             *)
LockInv == \A t \in Threads : Spinning(t) => want[t] \in Locks /\ owner[want[t]] # t

(* The part of the walk that does not depend on what the threads do: which *)
(* threads the chain went through, and how many.                           *)
Before == {"idle", "search", "enumerate"}

Shape ==
    /\ stage \in Before \cup {"snapshot", "collect", "owner", "describe"} => verdict = "none"
    /\ stage \in {"sample", "resample"} => verdict = "rootCause" /\ Main \in visited
    /\ stage \in {"owner", "describe", "sample", "resample"} => edge \in Locks
    /\ stage # "end" => hop < MaxHops
    /\ stage = "idle" => todo = Threads
    /\ stage \notin {"idle", "search"} => todo = {}
    /\ stage \in Before => visited = {} /\ cur = Main /\ hop = 0
    /\ stage \in {"snapshot", "collect"} =>
          Main \in visited \cup {cur} /\ cur \notin visited /\ Cardinality(visited) = hop
    /\ stage \in {"owner", "describe"} =>
          Main \in visited /\ holder \notin visited /\ Cardinality(visited) = hop + 1

(* The threads of the chain wait for each other or for h.                  *)
Edges(h) == \A t \in visited : Spinning(t) /\ owner[want[t]] \in visited \cup {h}

(* What the audit has read is still true as long as no thread moved.       *)
Fresh ==
    quiet =>
      /\ \A t \in Threads \ todo : Spinning(t) /\ owner[want[t]] = Main => mainNamed
      /\ stage = "collect" /\ Spinning(cur) => want[cur] \in refs
      /\ stage = "describe" => doing[holder] # "gone" /\ (doing[holder] = "run" => ~inWait)
      /\ verdict = "notBlocked" =>
            (Spinning(cur) => owner[want[cur]] \notin live \ {cur})

Blamed == Parked(holder) /\ owner[edge] = holder /\ Main \in visited /\ Edges(holder)

Chained ==
    quiet /\ exact =>
      /\ stage \in {"snapshot", "collect"} => Edges(cur)
      /\ stage \in {"owner", "describe"} => Edges(holder) /\ owner[edge] = holder
      /\ verdict \in {"rootCause", "leaked"} => Blamed
      /\ verdict = "cycle" =>
            Deadlocked(visited \cup {cur}) /\ Spinning(cur) /\ owner[want[cur]] = holder

(* The chain does not leave a deadlock that main is part of.               *)
MainDeadlock(S) == Main \in S /\ Cardinality(S) <= MaxHops /\ Deadlocked(S)

Within(S) ==
    /\ visited \subseteq S
    /\ stage \in {"snapshot", "collect"} => cur \in S
    /\ stage \in {"owner", "describe"} => holder \in S
    /\ stage \in {"snapshot", "collect", "owner", "describe"} => S \subseteq live
    /\ stage \notin {"sample", "resample"}
    /\ stage = "end" => verdict = "cycle"

Found == quiet /\ exact => \A S \in SUBSET Threads : MainDeadlock(S) => Within(S)

IInv == TypeOK /\ LockInv /\ Shape /\ Fresh /\ Chained /\ Found

-----------------------------------------------------------------------------
USE DEF lockVars

(* The game's own steps keep the types of the locks, and a thread never    *)
(* spins on a lock it owns.                                                *)
LEMMA GameLocks ==
    ASSUME LockTypeOK, LockInv, NEW t \in Threads, ThreadStep(t) \/ Exit(t)
    PROVE  LockTypeOK' /\ LockInv'
<1> USE LockNullsAssumption, SitesAssumption
    DEF LockNullsAssumption, SitesAssumption, LockTypeOK, LockInv, Spinning
<1>1. ASSUME NEW l \in Locks, Acquire(t, l) PROVE LockTypeOK' /\ LockInv'
  BY <1>1 DEF Acquire
<1>2. ASSUME NEW l \in Locks, Contend(t, l) PROVE LockTypeOK' /\ LockInv'
  BY <1>2 DEF Contend
<1>3. ASSUME NEW l \in Locks, Release(t, l) PROVE LockTypeOK' /\ LockInv'
  BY <1>3 DEF Release
<1>4. CASE Obtain(t)
  BY <1>4 DEF Obtain
<1>5. ASSUME NEW s \in Sites, Park(t, s) PROVE LockTypeOK' /\ LockInv'
  BY <1>5 DEF Park
<1>6. CASE Wake(t)
  BY <1>6 DEF Wake
<1>7. CASE Exit(t)
  BY <1>7 DEF Exit
<1> QED
  BY <1>1, <1>2, <1>3, <1>4, <1>5, <1>6, <1>7, Zenon DEF ThreadStep

LEMMA InitIInv == Init => IInv
<1> SUFFICES ASSUME Init PROVE IInv
  OBVIOUS
<1> USE MainAssumption, HopsAssumption DEF MainAssumption, HopsAssumption, Init, LockInit
<1>1. TypeOK
  <2>1. LockTypeOK
    BY DEF LockTypeOK
  <2>2. Main \in Threads /\ hop \in 0..MaxHops
    OBVIOUS
  <2> QED
    BY <2>1, <2>2 DEF TypeOK, Stages, Verdicts
<1>2. LockInv
  BY DEF LockInv, Spinning
<1>3. Shape
  BY DEF Shape, Before
<1>4. Fresh
  BY DEF Fresh
<1>5. Chained
  BY DEF Chained
<1>6. \A S \in SUBSET Threads : ~ MainDeadlock(S)
  BY DEF MainDeadlock, Deadlocked, Spinning
<1>7. Found
  BY <1>6 DEF Found
<1> QED
  BY <1>1, <1>2, <1>3, <1>4, <1>5, <1>7 DEF IInv

(* A step of the game ends what was said about a state at rest.            *)
LEMMA GameKeeps ==
    ASSUME IInv, GameStep
    PROVE  IInv'
<1> USE DEF IInv
<1>1. /\ quiet' = FALSE
      /\ UNCHANGED <<stage, todo, mainNamed, walk, exact>>
  BY DEF GameStep
<1>2. LockTypeOK' /\ LockInv'
  <2>1. PICK t \in Threads : ThreadStep(t) \/ Exit(t)
    BY Zenon DEF GameStep
  <2> QED
    BY <2>1, GameLocks, Zenon DEF TypeOK
<1>3. TypeOK'
  BY <1>1, <1>2 DEF TypeOK, walk
<1>4. Shape'
  BY <1>1 DEF Shape, walk
<1>5. Fresh' /\ Chained' /\ Found'
  BY <1>1 DEF Fresh, Chained, Found
<1> QED
  BY <1>2, <1>3, <1>4, <1>5

(* A step of the audit leaves the locks alone, and what is said about them.*)
LEMMA SameLocks ==
    ASSUME UNCHANGED lockVars, LockInv
    PROVE  /\ LockInv'
           /\ \A S : Deadlocked(S)' = Deadlocked(S)
           /\ \A S : MainDeadlock(S)' = MainDeadlock(S)
  BY DEF LockInv, Deadlocked, MainDeadlock, Spinning

LEMMA BeginKeeps == ASSUME IInv, Begin PROVE IInv'
<1> USE DEF IInv, Begin
<1>1. TypeOK'
  BY DEF TypeOK, LockTypeOK, Stages, walk
<1>2. LockInv'
  BY SameLocks
<1>3. Shape'
  BY DEF Shape, Before, walk
<1>4. Fresh'
  BY DEF Fresh, Shape, Before, walk
<1>5. Chained'
  BY DEF Chained, Shape, Before, walk
<1>6. Found'
  BY DEF Found, Within, Shape, Before, walk
<1> QED
  BY <1>1, <1>2, <1>3, <1>4, <1>5, <1>6

LEMMA SearchOneKeeps == ASSUME IInv, NEW t \in Threads, SearchOne(t) PROVE IInv'
<1> USE DEF IInv, SearchOne
<1>1. TypeOK'
  BY DEF TypeOK, LockTypeOK, walk, ghost, References, MarksMain
<1>2. LockInv'
  BY SameLocks
<1>3. Shape'
  BY DEF Shape, Before, walk, ghost
<1>4. Fresh'
  <2>1. ASSUME Spinning(t), owner[want[t]] = Main PROVE mainNamed'
    BY <2>1 DEF References, MarksMain
  <2>2. mainNamed => mainNamed'
    BY DEF References, MarksMain
  <2>3. UNCHANGED <<owner, doing, want, stage, live, cur, refs, holder, inWait, verdict, quiet>>
    BY DEF walk, ghost
  <2>4. stage = "search" /\ todo' = todo \ {t} /\ verdict = "none"
    BY DEF Shape, Before
  <2> HIDE DEF SearchOne
  <2> QED
    BY <2>1, <2>2, <2>3, <2>4 DEF Fresh, Spinning
<1>5. Chained'
  BY DEF Chained, Shape, Before, walk, ghost
<1>6. Found'
  BY SameLocks DEF Found, Within, walk, ghost
<1> QED
  BY <1>1, <1>2, <1>3, <1>4, <1>5, <1>6

LEMMA SearchEndKeeps == ASSUME IInv, SearchEnd PROVE IInv'
<1> USE DEF IInv, SearchEnd
<1>1. TypeOK'
  BY DEF TypeOK, LockTypeOK, Stages, walk, ghost
<1>2. LockInv'
  BY SameLocks
<1>3. Shape'
  BY DEF Shape, Before, walk, ghost
<1>4. Fresh'
  BY DEF Fresh, walk, ghost, Spinning
<1>5. Chained'
  BY DEF Chained, Shape, Before, walk, ghost
<1>6. Found'
  BY SameLocks DEF Found, Within, walk, ghost
<1> QED
  BY <1>1, <1>2, <1>3, <1>4, <1>5, <1>6

LEMMA EnumerateKeeps == ASSUME IInv, Enumerate PROVE IInv'
<1> USE DEF IInv, Enumerate
<1>1. TypeOK'
  BY DEF TypeOK, LockTypeOK, Stages, ghost, Live
<1>2. LockInv'
  BY SameLocks
<1>3. Shape'
  BY FS_EmptySet DEF Shape, Before
<1>4. Fresh'
  BY DEF Fresh, Shape, Before, ghost, Spinning
<1>5. Chained'
  BY DEF Chained, Shape, Before, ghost, Edges
<1>6. ASSUME NEW S \in SUBSET Threads, MainDeadlock(S) PROVE S \subseteq live'
  BY <1>6 DEF MainDeadlock, Deadlocked, Spinning, Live
<1>7. Found'
  BY <1>6, SameLocks DEF Found, Within, Shape, Before, ghost, MainDeadlock
<1> QED
  BY <1>1, <1>2, <1>3, <1>4, <1>5, <1>7
LEMMA SnapshotKeeps == ASSUME IInv, Snapshot PROVE IInv'
<1> USE DEF IInv, Snapshot, Conclude
<1>1. TypeOK'
  BY DEF TypeOK, LockTypeOK, Stages, Verdicts, ghost, References
<1>2. LockInv'
  BY SameLocks
<1>3. Shape'
  BY DEF Shape, Before, ghost
<1>4. Fresh'
  BY DEF Fresh, Shape, Before, ghost, Spinning, References
<1>5. Chained'
  BY DEF Chained, Shape, Before, ghost, Edges, Spinning
<1>6. Found'
  <2>1. SUFFICES ASSUME quiet, exact, NEW S \in SUBSET Threads, MainDeadlock(S)
                 PROVE  Within(S)'
    BY SameLocks DEF Found, ghost
  <2>2. Within(S)
    BY <2>1 DEF Found
  <2>3. doing[cur] = "spin"
    BY <2>1, <2>2 DEF Within, MainDeadlock, Deadlocked, Spinning
  <2> QED
    BY <2>2, <2>3 DEF Within
<1> QED
  BY <1>1, <1>2, <1>3, <1>4, <1>5, <1>6

(* The edge is one of another listed thread: not of cur itself.            *)
LEMMA CollectKeeps == ASSUME IInv, Collect PROVE IInv'
<1> USE DEF IInv
<1>1. /\ stage = "collect" /\ verdict = "none"
      /\ UNCHANGED <<owner, doing, want, todo, mainNamed, live, cur, hop, refs,
                     inWait, sample, quiet>>
  BY DEF Collect, Shape, Before
<1>2. CASE /\ ForeignLocks(cur, refs) = {}
           /\ verdict' = "notBlocked" /\ stage' = "end"
           /\ UNCHANGED <<visited, edge, holder, exact>>
  <2> USE <1>1, <1>2
  <2>1. TypeOK'
    BY DEF TypeOK, LockTypeOK, Stages, Verdicts
  <2>2. LockInv'
    BY SameLocks
  <2>3. Shape'
    BY DEF Shape, Before
  <2>4. Fresh'
    BY DEF Fresh, Spinning, ForeignLocks, LockInv, TypeOK
  <2>5. Chained'
    BY DEF Chained
  <2>6. Found'
    <3>1. SUFFICES ASSUME quiet, exact, NEW S \in SUBSET Threads, MainDeadlock(S)
                   PROVE  FALSE
      BY SameLocks DEF Found
    <3>2. cur \in S /\ S \subseteq live
      BY <3>1 DEF Found, Within
    <3>3. Spinning(cur) /\ owner[want[cur]] \in S
      BY <3>1, <3>2 DEF MainDeadlock, Deadlocked
    <3>4. want[cur] \in refs /\ owner[want[cur]] # cur
      BY <3>1, <3>2, <3>3 DEF Fresh, LockInv
    <3> QED
      BY <3>2, <3>3, <3>4 DEF ForeignLocks
  <2> QED
    BY <2>1, <2>2, <2>3, <2>4, <2>5, <2>6
<1>3. ASSUME NEW l \in refs, owner[l] \in live \ {cur},
             edge' = l, holder' = owner[l],
             exact' = (exact /\ Spinning(cur) /\ want[cur] = l),
             IF ClosesLoop(owner[l])
               THEN verdict' = "cycle" /\ stage' = "end" /\ UNCHANGED visited
               ELSE visited' = visited \cup {cur} /\ stage' = "owner" /\ UNCHANGED verdict
      PROVE  IInv'
  <2> USE <1>1, <1>3
  <2>1. TypeOK'
    BY DEF TypeOK, LockTypeOK, Stages, Verdicts
  <2>2. LockInv'
    BY SameLocks
  <2>3. Shape'
    <3>1. IsFiniteSet(visited)
      BY FS_Subset, ThreadsAssumption DEF ThreadsAssumption, TypeOK
    <3>2. Cardinality(visited \cup {cur}) = Cardinality(visited) + 1
      BY <3>1, FS_AddElement DEF Shape
    <3>3. l \in Locks
      BY DEF TypeOK
    <3> QED
      BY <3>2, <3>3 DEF Shape, Before, ClosesLoop
  <2>4. Fresh'
    BY DEF Fresh, Spinning
  <2>5. Chained'
    <3>1. SUFFICES ASSUME quiet, exact, Spinning(cur), want[cur] = l
                   PROVE  /\ stage' \in {"owner", "describe"} => Edges(holder)'
                          /\ verdict' = "cycle" =>
                                (Deadlocked(visited \cup {cur}) /\ Spinning(cur))'
      BY DEF Chained, Spinning
    <3>2. Edges(cur)
      BY <3>1 DEF Chained
    <3>3. CASE ClosesLoop(owner[l])
      <4>1. owner[l] \in visited \cup {cur}
        BY <3>3 DEF ClosesLoop, Shape
      <4> QED
        BY <3>1, <3>2, <3>3, <4>1 DEF Edges, Deadlocked, Spinning
    <3>4. CASE ~ ClosesLoop(owner[l])
      BY <3>1, <3>2, <3>4 DEF Edges, Spinning
    <3> QED
      BY <3>3, <3>4
  <2>6. Found'
    <3>1. SUFFICES ASSUME quiet, exact, Spinning(cur), want[cur] = l,
                          NEW S \in SUBSET Threads, MainDeadlock(S)
                   PROVE  Within(S)'
      BY SameLocks DEF Found
    <3>2. visited \subseteq S /\ cur \in S /\ S \subseteq live
      BY <3>1 DEF Found, Within
    <3>3. owner[l] \in S
      BY <3>1, <3>2 DEF MainDeadlock, Deadlocked
    <3> QED
      BY <3>2, <3>3 DEF Within
  <2> QED
    BY <2>1, <2>2, <2>3, <2>4, <2>5, <2>6
<1> QED
  BY <1>2, <1>3 DEF Collect, Conclude, ForeignLocks

LEMMA SnapshotOwnerKeeps == ASSUME IInv, SnapshotOwner PROVE IInv'
<1> USE DEF IInv, SnapshotOwner, Conclude
<1>1. TypeOK'
  BY DEF TypeOK, LockTypeOK, Stages, Verdicts, ghost
<1>2. LockInv'
  BY SameLocks
<1>3. Shape'
  BY DEF Shape, Before, ghost
<1>4. Fresh'
  BY DEF Fresh, Shape, Before, ghost, Spinning
<1>5. Chained'
  BY DEF Chained, Shape, Before, ghost, Edges, Spinning
<1>6. Found'
  <2>1. SUFFICES ASSUME quiet, exact, NEW S \in SUBSET Threads, MainDeadlock(S)
                 PROVE  Within(S)'
    BY SameLocks DEF Found, ghost
  <2>2. Within(S)
    BY <2>1 DEF Found
  <2>3. doing[holder] = "spin"
    BY <2>1, <2>2 DEF Within, MainDeadlock, Deadlocked, Spinning
  <2> QED
    BY <2>2, <2>3 DEF Within
<1> QED
  BY <1>1, <1>2, <1>3, <1>4, <1>5, <1>6

(* A deadlock of main that the chain is inside leaves room for one more hop.*)
LEMMA DescribeOwnerKeeps == ASSUME IInv, DescribeOwner PROVE IInv'
<1> USE DEF IInv
<1>1. /\ stage = "describe" /\ verdict = "none"
      /\ UNCHANGED <<owner, doing, want, todo, mainNamed, live, visited, refs, edge,
                     holder, inWait, sample, quiet, exact>>
  BY DEF DescribeOwner, Shape, Before, ghost
<1>2. LockInv'
  BY <1>1, SameLocks
<1>3. CASE Spinning(holder) /\ Follow
  <2>1. /\ cur' = holder /\ hop' = hop + 1
        /\ \/ hop + 1 < MaxHops /\ stage' = "snapshot" /\ verdict' = "none"
           \/ ~(hop + 1 < MaxHops) /\ stage' = "end" /\ verdict' = "hopsOut"
    BY <1>1, <1>3 DEF Follow, Conclude
  <2> USE <1>1, <2>1
  <2>2. TypeOK'
    <3>1. hop' \in 0..MaxHops
      BY HopsAssumption DEF HopsAssumption, TypeOK, Shape
    <3> QED
      BY <3>1 DEF TypeOK, LockTypeOK, Stages, Verdicts
  <2>3. Shape'
    BY DEF Shape, Before
  <2>4. Fresh'
    BY DEF Fresh, Spinning
  <2>5. Chained'
    BY DEF Chained, Edges, Spinning
  <2>6. Found'
    <3>1. SUFFICES ASSUME quiet, exact, NEW S \in SUBSET Threads, MainDeadlock(S)
                   PROVE  Within(S)'
      BY SameLocks DEF Found
    <3>2. visited \subseteq S /\ holder \in S /\ S \subseteq live
      BY <3>1 DEF Found, Within
    <3>3. IsFiniteSet(S) /\ Cardinality(S) \in Nat
      BY FS_Subset, FS_CardinalityType, ThreadsAssumption DEF ThreadsAssumption
    <3>4. IsFiniteSet(visited)
      BY <3>2, <3>3, FS_Subset
    <3>5. Cardinality(visited \cup {holder}) = hop + 2
      <4>1. hop \in Nat /\ holder \notin visited /\ Cardinality(visited) = hop + 1
        BY HopsAssumption DEF HopsAssumption, Shape, TypeOK
      <4> QED
        BY <3>4, <4>1, FS_AddElement
    <3>6. Cardinality(visited \cup {holder}) <= Cardinality(S)
      BY <3>2, <3>3, FS_Subset
    <3>7. hop + 1 < MaxHops
      BY <3>1, <3>3, <3>5, <3>6, HopsAssumption DEF HopsAssumption, MainDeadlock, TypeOK
    <3> QED
      BY <3>2, <3>7 DEF Within
  <2> QED
    BY <1>2, <2>2, <2>3, <2>4, <2>5, <2>6
<1>4. CASE /\ ~Spinning(holder) /\ UNCHANGED <<cur, hop>>
           /\ \/ inWait /\ verdict' = "rootCause" /\ stage' = "sample"
              \/ ~inWait /\ verdict' = "running" /\ stage' = "end"
  <2> USE <1>1, <1>4
  <2>2. TypeOK'
    BY DEF TypeOK, LockTypeOK, Stages, Verdicts
  <2>3. Shape'
    BY DEF Shape, Before
  <2>4. Fresh'
    BY DEF Fresh, Spinning
  <2>5. Chained'
    <3>1. ASSUME quiet, inWait PROVE Parked(holder)
      <4>1. doing[holder] \in {"run", "spin", "gone"} \cup Sites
        BY DEF TypeOK, LockTypeOK
      <4>2. doing[holder] \notin {"run", "spin", "gone"}
        BY <3>1 DEF Fresh, Spinning
      <4> QED
        BY <4>1, <4>2 DEF Parked
    <3> QED
      BY <3>1 DEF Chained, Blamed, Edges, Spinning, Parked, Shape
  <2>6. Found'
    <3>1. SUFFICES ASSUME quiet, exact, NEW S \in SUBSET Threads, MainDeadlock(S)
                   PROVE  FALSE
      BY SameLocks DEF Found
    <3> QED
      BY <3>1 DEF Found, Within, MainDeadlock, Deadlocked
  <2> QED
    BY <1>2, <2>2, <2>3, <2>4, <2>5, <2>6
<1> QED
  BY <1>3, <1>4 DEF DescribeOwner, Conclude

LEMMA FirstSampleKeeps == ASSUME IInv, FirstSample PROVE IInv'
<1> USE DEF IInv
<1>1. /\ stage = "sample" /\ stage' = "resample" /\ sample' = owner[edge]
      /\ UNCHANGED <<owner, doing, want, todo, mainNamed, live, cur, hop, visited, refs,
                     edge, holder, inWait, verdict, quiet, exact>>
  BY DEF FirstSample, ghost
<1> USE <1>1
<1>2. LockInv'
  BY SameLocks
<1>3. Shape'
  BY DEF Shape, Before
<1>4. Fresh'
  BY DEF Fresh, Spinning
<1>5. Chained'
  BY DEF Chained, Blamed, Edges, Spinning, Parked, Shape
<1>6. Found'
  BY SameLocks DEF Found, Within
<1>7. TypeOK'
  BY DEF TypeOK, LockTypeOK, Stages, Shape
<1> QED
  BY <1>2, <1>3, <1>4, <1>5, <1>6, <1>7

LEMMA SecondSampleKeeps == ASSUME IInv, SecondSample PROVE IInv'
<1> USE DEF IInv
<1>1. /\ stage = "resample" /\ verdict = "rootCause" /\ stage' = "end"
      /\ verdict' \in {"leaked", "progressing"}
      /\ UNCHANGED <<owner, doing, want, todo, mainNamed, live, cur, hop, visited, refs,
                     edge, holder, inWait, sample, quiet, exact>>
  BY DEF SecondSample, Conclude, ghost, Shape
<1> USE <1>1
<1>2. LockInv'
  BY SameLocks
<1>3. Shape'
  BY DEF Shape, Before
<1>4. Fresh'
  BY DEF Fresh, Spinning
<1>5. Chained'
  BY DEF Chained, Blamed, Edges, Spinning, Parked
<1>6. Found'
  BY SameLocks DEF Found, Within
<1>7. TypeOK'
  BY DEF TypeOK, LockTypeOK, Stages, Verdicts
<1> QED
  BY <1>2, <1>3, <1>4, <1>5, <1>6, <1>7

LEMMA StutterKeeps == ASSUME IInv, UNCHANGED vars PROVE IInv'
<1> USE DEF IInv
<1>1. UNCHANGED <<owner, doing, want, stage, todo, mainNamed, live, cur, hop, visited,
                  refs, edge, holder, inWait, sample, verdict, quiet, exact>>
  BY DEF vars, walk, ghost
<1> USE <1>1
<1>2. TypeOK'
  BY DEF TypeOK, LockTypeOK
<1>3. LockInv'
  BY SameLocks
<1>4. Shape'
  BY DEF Shape
<1>5. Fresh'
  BY DEF Fresh, Spinning
<1>6. Chained'
  BY DEF Chained, Blamed, Edges, Spinning, Parked, Deadlocked
<1>7. Found'
  BY SameLocks DEF Found, Within
<1> QED
  BY <1>2, <1>3, <1>4, <1>5, <1>6, <1>7

LEMMA NextKeeps == IInv /\ [Next]_vars => IInv'
<1> SUFFICES ASSUME IInv, [Next]_vars PROVE IInv'
  OBVIOUS
<1>1. ASSUME NEW t \in Threads, SearchOne(t) PROVE IInv'
  BY <1>1, SearchOneKeeps
<1> QED
  BY <1>1, BeginKeeps, SearchEndKeeps, EnumerateKeeps, SnapshotKeeps, CollectKeeps,
     SnapshotOwnerKeeps, DescribeOwnerKeeps, FirstSampleKeeps, SecondSampleKeeps,
     GameKeeps, StutterKeeps, Zenon DEF Next, AuditStep

LEMMA Invariant == Spec => []IInv
  BY InitIInv, NextKeeps, PTL DEF Spec

-----------------------------------------------------------------------------
(* A cycle that is reported of a game at rest is a deadlock                *)
(* (MainWaitProbe.cpp:1398-1407).                                          *)
THEOREM CyclesAreReal == Spec => []CycleIsDeadlock
<1>1. IInv => CycleIsDeadlock
  BY DEF IInv, Chained, CycleIsDeadlock
<1> QED
  BY <1>1, Invariant, PTL

(* A deadlock main is part of and that is no longer than the hop limit is  *)
(* reported as a cycle (MainWaitProbe.cpp:1349-1449).                      *)
THEOREM DeadlocksAreFound == Spec => []CyclesAreFound
<1>1. IInv => CyclesAreFound
  BY DEF IInv, Found, Within, MainDeadlock, CyclesAreFound
<1> QED
  BY <1>1, Invariant, PTL

(* No thread is blamed wrongly, and the owner search and the chain of one  *)
(* report agree (MainWaitProbe.cpp:937-943, 1368-1383, 1428-1447).         *)
THEOREM BlameIsSound == Spec => []ReportIsSound
<1>1. IInv => ReportIsSound
  <2> SUFFICES ASSUME IInv PROVE ReportIsSound
    OBVIOUS
  <2>1. BlameIsDeserved
    BY DEF IInv, Chained, Blamed, Edges, Fresh, BlameIsDeserved
  <2>2. SectionsAgree
    <3>1. SUFFICES ASSUME verdict = "cycle", holder = Main, quiet, exact PROVE mainNamed
      BY DEF SectionsAgree
    <3>2. stage = "end" /\ todo = {}
      BY <3>1 DEF IInv, Shape, Before, TypeOK, Stages
    <3>3. cur \in Threads /\ Spinning(cur) /\ owner[want[cur]] = Main
      BY <3>1 DEF IInv, Chained, TypeOK
    <3> QED
      BY <3>1, <3>2, <3>3 DEF IInv, Fresh
  <2> QED
    BY <2>1, <2>2 DEF ReportIsSound, IInv
<1> QED
  BY <1>1, Invariant, PTL

(* The walk meets no thread twice, whatever the threads do meanwhile       *)
(* (MainWaitProbe.cpp:1398).                                               *)
THEOREM EndsByItself == Spec => NoThreadTwice
<1>1. IInv /\ [Next]_vars => [cur' # cur => cur' \notin visited]_vars
  <2> SUFFICES ASSUME IInv, Next, cur' # cur PROVE cur' \notin visited
    BY DEF vars, walk
  <2>1. DescribeOwner
    BY DEF Next, AuditStep, Begin, SearchOne, SearchEnd, Enumerate, Snapshot, Collect,
       SnapshotOwner, FirstSample, SecondSample, GameStep, walk
  <2> QED
    BY <2>1 DEF DescribeOwner, Follow, IInv, Shape
<1> QED
  BY <1>1, Invariant, PTL DEF Spec, NoThreadTwice
=============================================================================
