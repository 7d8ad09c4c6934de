---------------------------- MODULE WaitForChain ----------------------------
(***************************************************************************)
(* The lock part of the main-wait audit (MainWaitProbe.cpp): the owner     *)
(* search over all spinning threads, and the wait-for chain that starts at *)
(* the main thread, follows lock owners hop by hop and ends in a verdict.  *)
(*                                                                         *)
(* Threads are suspended one at a time to copy their registers and run on  *)
(* while stack windows and lock words are read, so every read is of a      *)
(* different moment.  A register file or a stack window may hold the       *)
(* address of a lock the thread does not wait for; the audit cannot tell.  *)
(***************************************************************************)
EXTENDS SpinLocks

CONSTANTS
    Main,       \* Heartbeat::MainTid
    MaxHops     \* hops of the chain walk, 8 in the code

ASSUME MainAssumption == Main \in Threads
ASSUME HopsAssumption == MaxHops \in Nat \ {0}

VARIABLES
    stage,     \* where the audit is, see Stages
    todo,      \* threads the owner search has not visited yet
    mainNamed, \* some spinner was printed with a lock marked "<== MAIN!"
    live,      \* thread ids enumerated before the walk
    cur,       \* the thread whose edge is followed
    hop,       \* hops made
    visited,   \* threads the chain went through
    refs,      \* locks whose address was in the registers or stack of cur
    edge,      \* the lock the chain goes through
    holder,    \* its owner as read with it
    inWait,    \* the RIP copied from the holder was in a system module
    sample,    \* owner word of the first steady-state read
    verdict,   \* what the section says
    quiet,     \* history: no game thread moved since the audit began
    exact      \* history: each edge was the lock its thread spins on

walk  == <<live, cur, hop, visited, refs, edge, holder, inWait, sample, verdict>>
ghost == <<quiet, exact>>
vars  == <<lockVars, stage, todo, mainNamed, walk, ghost>>

Stages == {"idle", "search", "enumerate", "snapshot", "collect", "owner",
           "describe", "sample", "resample", "end"}

Verdicts == {"none", "unavailable", "notBlocked", "cycle", "running",
             "rootCause", "hopsOut", "leaked", "progressing"}

TypeOK ==
    /\ LockTypeOK
    /\ stage \in Stages
    /\ todo \subseteq Threads
    /\ mainNamed \in BOOLEAN
    /\ live \subseteq Threads
    /\ cur \in Threads
    /\ hop \in 0..MaxHops
    /\ visited \subseteq Threads
    /\ refs \subseteq Locks
    /\ edge \in Locks \cup {NoLock}
    /\ holder \in Threads
    /\ inWait \in BOOLEAN
    /\ sample \in Threads \cup {NoThread}
    /\ verdict \in Verdicts
    /\ quiet \in BOOLEAN /\ exact \in BOOLEAN

Init ==
    /\ LockInit
    /\ stage = "idle" /\ todo = Threads /\ mainNamed = FALSE
    /\ live = {} /\ cur = Main /\ hop = 0 /\ visited = {} /\ refs = {}
    /\ edge = NoLock /\ holder = Main /\ inWait = FALSE
    /\ sample = NoThread /\ verdict = "none"
    /\ quiet = TRUE /\ exact = TRUE

\* The addresses of locks a snapshot of t can contain: the one it spins on, and
\* any others left in registers and stack slots.
References(t) == {R \in SUBSET Locks : Spinning(t) => want[t] \in R}

-----------------------------------------------------------------------------
(* WriteSpinlockOwners: every spinning thread with the locks in its frame. *)

\* The row of a spinner marks each reference that reads as owned by main.
MarksMain(R) == \E l \in R : owner[l] = Main

Begin ==
    /\ stage = "idle"
    /\ stage' = "search"
    /\ quiet' = TRUE
    /\ UNCHANGED <<lockVars, todo, mainNamed, walk, exact>>

SearchOne(t) ==
    /\ stage = "search" /\ t \in todo
    /\ todo' = todo \ {t}
    /\ \/ /\ Spinning(t)
          /\ \E R \in References(t) :
               mainNamed' = (mainNamed \/ MarksMain(R))
       \/ ~Spinning(t) /\ UNCHANGED mainNamed
    /\ UNCHANGED <<lockVars, stage, walk, ghost>>

SearchEnd ==
    /\ stage = "search" /\ todo = {}
    /\ stage' = "enumerate"
    /\ UNCHANGED <<lockVars, todo, mainNamed, walk, ghost>>

-----------------------------------------------------------------------------
(* WriteBSSpinLockCycle: the chain from main.                              *)

Conclude(v) == verdict' = v /\ stage' = "end"

\* The thread ids are listed once; everything after is compared with the list.
Enumerate ==
    /\ stage = "enumerate"
    /\ live' = Live
    /\ stage' = "snapshot"
    /\ UNCHANGED <<lockVars, todo, mainNamed, cur, hop, visited, refs, edge, holder,
                   inWait, sample, verdict, ghost>>

\* SnapshotThread(cur): copy the registers of cur while it is suspended.
Snapshot ==
    /\ stage = "snapshot"
    /\ \/ /\ doing[cur] = "gone"
          /\ Conclude("unavailable")
          /\ UNCHANGED refs
       \/ /\ doing[cur] # "gone"
          /\ refs' \in References(cur)
          /\ stage' = "collect"
          /\ UNCHANGED verdict
    /\ UNCHANGED <<lockVars, todo, mainNamed, live, cur, hop, visited, edge, holder,
                   inWait, sample, ghost>>

\* CollectForeignLocks: the references that read as held by another live thread.
\* Deviation: only locks of main count as foreign.
ForeignLocksMain(t, R) == {l \in R : owner[l] \in {Main} \ {t}}
ForeignLocks(t, R) == {l \in R : owner[l] \in live \ {t}}

\* The owner closes a loop if the chain went through it already.
\* Deviation: a spinning owner is taken for the end of a loop.
ClosesLoopSpin(o) == Spinning(o)
ClosesLoop(o) == o = Main \/ o \in visited

Collect ==
    /\ stage = "collect"
    /\ \/ /\ ForeignLocks(cur, refs) = {}
          /\ Conclude("notBlocked")
          /\ UNCHANGED <<visited, edge, holder, exact>>
       \/ \E l \in ForeignLocks(cur, refs) :
            /\ edge' = l /\ holder' = owner[l]
            /\ exact' = (exact /\ Spinning(cur) /\ want[cur] = l)
            /\ IF ClosesLoop(owner[l])
               THEN Conclude("cycle") /\ UNCHANGED visited
               ELSE /\ visited' = visited \cup {cur}
                    /\ stage' = "owner"
                    /\ UNCHANGED verdict
    /\ UNCHANGED <<lockVars, todo, mainNamed, live, cur, hop, refs, inWait, sample,
                   quiet>>

\* SnapshotThread(owner): a parked thread has its RIP in a system module, and
\* so has a spinning one while it sleeps between two retries.
SnapshotOwner ==
    /\ stage = "owner"
    /\ \/ doing[holder] = "gone" /\ Conclude("unavailable") /\ UNCHANGED inWait
       \/ /\ doing[holder] # "gone"
          /\ inWait' \in {w \in BOOLEAN : (Parked(holder) => w)
                                         /\ (doing[holder] = "run" => ~w)}
          /\ stage' = "describe"
          /\ UNCHANGED verdict
    /\ UNCHANGED <<lockVars, todo, mainNamed, live, cur, hop, visited, refs, edge,
                   holder, sample, ghost>>

\* DescribeThread: the stack is searched for the retry site later, while the
\* owner runs.  A spinning owner is followed, one with a RIP in a system module
\* is blamed, any other is expected to release.
Follow ==
    /\ cur' = holder
    /\ hop' = hop + 1
    /\ IF hop + 1 < MaxHops
       THEN stage' = "snapshot" /\ UNCHANGED verdict
       ELSE Conclude("hopsOut")

\* Deviation: the RIP is looked at before the retry site.
DescribeOwnerRipFirst ==
    /\ stage = "describe"
    /\ \/ Spinning(holder) /\ ~inWait /\ Follow
       \/ /\ inWait
          /\ verdict' = "rootCause" /\ stage' = "sample" /\ UNCHANGED <<cur, hop>>
       \/ ~Spinning(holder) /\ ~inWait /\ Conclude("running") /\ UNCHANGED <<cur, hop>>
    /\ UNCHANGED <<lockVars, todo, mainNamed, live, visited, refs, edge, holder,
                   inWait, sample, ghost>>
DescribeOwner ==
    /\ stage = "describe"
    /\ \/ Spinning(holder) /\ Follow
       \/ /\ ~Spinning(holder) /\ inWait
          /\ verdict' = "rootCause" /\ stage' = "sample" /\ UNCHANGED <<cur, hop>>
       \/ ~Spinning(holder) /\ ~inWait /\ Conclude("running") /\ UNCHANGED <<cur, hop>>
    /\ UNCHANGED <<lockVars, todo, mainNamed, live, visited, refs, edge, holder,
                   inWait, sample, ghost>>

-----------------------------------------------------------------------------
(* WriteParkedHolderDetail: two reads of the lock word, 150 ms apart.      *)

FirstSample ==
    /\ stage = "sample"
    /\ sample' = owner[edge]
    /\ stage' = "resample"
    /\ UNCHANGED <<lockVars, todo, mainNamed, live, cur, hop, visited, refs, edge,
                   holder, inWait, verdict, ghost>>

SteadyState(first, second) == first = second /\ second # NoThread

SecondSample ==
    /\ stage = "resample"
    /\ Conclude(IF SteadyState(sample, owner[edge]) THEN "leaked"
                ELSE "progressing")
    /\ UNCHANGED <<lockVars, todo, mainNamed, live, cur, hop, visited, refs, edge,
                   holder, inWait, sample, ghost>>

-----------------------------------------------------------------------------
AuditStep ==
    \/ Begin
    \/ \E t \in Threads : SearchOne(t)
    \/ SearchEnd \/ Enumerate \/ Snapshot \/ Collect \/ SnapshotOwner
    \/ DescribeOwner \/ FirstSample \/ SecondSample

GameStep ==
    /\ stage # "end"
    /\ \E t \in Threads : ThreadStep(t) \/ (t # Main /\ Exit(t))
    /\ quiet' = FALSE
    /\ UNCHANGED <<stage, todo, mainNamed, walk, exact>>

Next == AuditStep \/ GameStep

Spec == Init /\ [][Next]_vars

-----------------------------------------------------------------------------
\* "DEADLOCK CYCLE ... a true mutual-wait deadlock" (MainWaitProbe.cpp:1398-1407):
\* when no thread moved during the walk and every edge was the lock its thread
\* spins on, the threads of the chain wait for each other.
CycleIsDeadlock ==
    verdict = "cycle" /\ quiet /\ exact => Deadlocked(visited \cup {cur})

\* The other direction: a deadlock main is part of, no longer than the hops, is
\* reported as a cycle and as nothing else.
CyclesAreFound ==
    stage = "end" /\ quiet /\ exact =>
        \A S \in SUBSET Threads :
            Main \in S /\ Cardinality(S) <= MaxHops /\ Deadlocked(S)
                => verdict = "cycle"

\* "a BSSpinLock is held across a thread park" (MainWaitProbe.cpp:1428-1447): the
\* blamed thread is parked with the lock, and main waits for it through a chain
\* of spinning threads; a main found not blocked spins on no lock of a listed
\* thread (MainWaitProbe.cpp:1368-1383).
BlameIsDeserved ==
    /\ verdict \in {"rootCause", "leaked"} /\ quiet /\ exact =>
          /\ Parked(holder) /\ owner[edge] = holder
          /\ Main \in visited
          /\ \A t \in visited : Spinning(t) /\ owner[want[t]] \in visited \cup {holder}
    /\ verdict = "notBlocked" /\ quiet =>
          (Spinning(cur) => owner[want[cur]] \notin live \ {cur})

\* The two sections of one report agree: a chain that closes at main was preceded
\* by a row that names main (MainWaitProbe.cpp:937-943).
SectionsAgree ==
    verdict = "cycle" /\ holder = Main /\ quiet /\ exact => mainNamed

\* The walk meets no thread twice, whatever the threads do while it samples them
\* (MainWaitProbe.cpp:1398): it ends by itself, not by the hop limit.
NoThreadTwice == [][cur' # cur => cur' \notin visited]_vars

\* What the two lock sections of a report say is sound: the variables keep their
\* types, no thread is blamed wrongly, and the sections do not contradict.
ReportIsSound == TypeOK /\ BlameIsDeserved /\ SectionsAgree
=============================================================================
