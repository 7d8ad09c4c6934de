------------------------ MODULE LeakedSpinLockBreaker -----------------------
(***************************************************************************)
(* Layer 5 of WorkerSpinLockFix (LeakedSpinLockBreaker.cpp): a watchdog    *)
(* thread snapshots every thread one at a time, looks for one that spins   *)
(* on a lock whose owner is parked in a kernel wait, follows such locks    *)
(* over several polls and finally clears the lock word.                    *)
(*                                                                         *)
(* The game runs between any two reads.  Time is counted in polls: the     *)
(* dwell threshold is DwellPolls poll intervals.  The state word of a held *)
(* lock is constant here, so the lock word is its owner.                   *)
(***************************************************************************)
EXTENDS SpinLocks

CONSTANTS
    DwellPolls,   \* g_dwell_ms / g_poll_ms
    Code          \* a RIP outside the system modules

ASSUME DwellAssumption == DwellPolls \in Nat
ASSUME CodeAssumption == Code \notin Sites

VARIABLES
    running,      \* g_running
    active,       \* g_active
    detectOnly,   \* g_detect_only
    stage,        \* where WatchdogLoop is
    todo,         \* threads still to visit in this stage
    rip,          \* rip[t]: copied RIP, None without a snapshot
    spun,         \* spun[t]: the lock t was spinning on when it was copied
    cands,        \* candidates of this poll: lock -> owner and RIP
    fresh,        \* candidates not yet judged in this poll
    pending,      \* the candidate that is being confirmed
    tracks,       \* g_tracks: lock -> Track
    past          \* history: past[l][i], what the i-th last poll saw of l

None == "none"
Nothing == [owner |-> NoThread, rip |-> None]

scan == <<todo, rip, spun>>
life == <<running, active, detectOnly>>
vars == <<lockVars, life, stage, scan, cands, fresh, pending, tracks, past>>

Stages == {"off", "sleep", "snapshot", "collect", "judge", "recheck", "owner",
           "word", "act", "done"}
Sighting == [owner : Threads, rip : Sites]
Track == [owner : Threads, rip : Sites, age : 0..DwellPolls, handled : BOOLEAN]

TypeOK ==
    /\ LockTypeOK
    /\ running \in BOOLEAN /\ active \in BOOLEAN /\ detectOnly \in BOOLEAN
    /\ stage \in Stages
    /\ todo \subseteq Threads
    /\ rip \in [Threads -> Sites \cup {Code, None}]
    /\ spun \in [Threads -> Locks \cup {NoLock}]
    /\ cands \in UNION {[L -> Sighting] : L \in SUBSET Locks}
    /\ fresh \subseteq DOMAIN cands
    /\ pending \in Locks \cup {NoLock}
    /\ pending \in Locks <=> stage \in {"recheck", "owner", "word", "act"}
    /\ pending \in Locks => pending \in DOMAIN tracks /\ pending \in DOMAIN cands
    /\ tracks \in UNION {[L -> Track] : L \in SUBSET Locks}
    /\ past \in [Locks -> [1..DwellPolls -> Sighting \cup {Nothing}]]

Empty == [l \in {} |-> Nothing]
NoSnapshot == [t \in Threads |-> None]
NoSpin == [t \in Threads |-> NoLock]

Init ==
    /\ LockInit
    /\ running = FALSE /\ active = FALSE /\ detectOnly \in BOOLEAN
    /\ stage = "off"
    /\ todo = {} /\ rip = NoSnapshot /\ spun = NoSpin
    /\ cands = Empty /\ fresh = {} /\ pending = NoLock /\ tracks = Empty
    /\ past = [l \in Locks |-> [i \in 1..DwellPolls |-> Nothing]]

-----------------------------------------------------------------------------
(* Install, OnDataLoaded and Stop.                                         *)

\* enabled by the configuration, and AvailableSpinRetry.
Install(enabled, resolved) ==
    /\ stage = "off" /\ ~running
    /\ enabled /\ resolved
    /\ running' = TRUE
    /\ stage' = "sleep"
    /\ UNCHANGED <<lockVars, active, detectOnly, scan, cands, fresh, pending, tracks, past>>

OnDataLoaded ==
    /\ ~active
    /\ active' = TRUE
    /\ UNCHANGED <<lockVars, running, detectOnly, stage, scan, cands, fresh, pending,
                   tracks, past>>

Stop ==
    /\ running
    /\ running' = FALSE /\ active' = FALSE
    /\ UNCHANGED <<lockVars, detectOnly, stage, scan, cands, fresh, pending, tracks, past>>

-----------------------------------------------------------------------------
(* One poll: snapshot all threads, collect the candidates.                 *)

\* Every thread of the process, as a snapshot of the system lists it.
EnumerateThreads == Live

\* Deviation: scanning does not wait for data-loaded.
WakeUpEarly ==
    /\ stage = "sleep" /\ running
    /\ todo' = EnumerateThreads /\ rip' = NoSnapshot /\ spun' = NoSpin
    /\ stage' = "snapshot"
    /\ UNCHANGED <<lockVars, life, cands, fresh, pending, tracks, past>>
WakeUp ==
    /\ stage = "sleep"
    /\ IF running
       THEN /\ active
            /\ todo' = EnumerateThreads /\ rip' = NoSnapshot /\ spun' = NoSpin
            /\ stage' = "snapshot"
       ELSE stage' = "done" /\ UNCHANGED scan
    /\ UNCHANGED <<lockVars, life, cands, fresh, pending, tracks, past>>

\* The RIPs a suspended thread can show: a spinning one sleeps between retries.
RipsOf(t) == IF Parked(t) THEN {doing[t]}
             ELSE IF Spinning(t) THEN Sites \cup {Code}
             ELSE {Code}

SnapshotThread(t) ==
    /\ stage = "snapshot" /\ t \in todo
    /\ todo' = todo \ {t}
    /\ \/ t \notin Live /\ UNCHANGED <<rip, spun>>
       \/ /\ t \in Live
          /\ \E r \in RipsOf(t) : rip' = [rip EXCEPT ![t] = r]
          /\ spun' = [spun EXCEPT ![t] = want[t]]
    /\ UNCHANGED <<lockVars, life, stage, cands, fresh, pending, tracks, past>>

SnapshotEnd ==
    /\ stage = "snapshot" /\ todo = {}
    /\ stage' = "collect"
    /\ todo' = {t \in Threads : rip[t] # None}
    /\ cands' = Empty
    /\ UNCHANGED <<lockVars, life, rip, spun, fresh, pending, tracks, past>>

\* ThreadIsSpinning reads the stack now, below the stack pointer copied before:
\* where the two moments differ, either outcome is possible.
StackScans ==
    {S \in SUBSET Threads :
        \A t \in Threads : (t \in S) \in {Spinning(t), spun[t] # NoLock}}

\* The lock of the retry loop is in the registers; so may be others.
References(v) == {R \in SUBSET Locks : spun[v] # NoLock => spun[v] \in R}

\* CollectForeignLocks and the owner's part of the loop: held by another thread,
\* which has a snapshot, is not spinning, and has its RIP in a system module.
LeakCandidates(v, S, R) ==
    {l \in R : /\ owner[l] \notin {NoThread, v}
               /\ owner[l] \notin S
               /\ rip[owner[l]] \in Sites}

Seen(l) == [owner |-> owner[l], rip |-> rip[owner[l]]]

Collect(v) ==
    /\ stage = "collect" /\ v \in todo
    /\ todo' = todo \ {v}
    /\ \E S \in StackScans, R \in References(v) :
          LET found == IF v \in S THEN LeakCandidates(v, S, R) ELSE {}
          IN cands' = [l \in DOMAIN cands \cup found |->
                          IF l \in DOMAIN cands THEN cands[l] ELSE Seen(l)]
    /\ UNCHANGED <<lockVars, life, stage, rip, spun, fresh, pending, tracks, past>>

\* The time of the poll is read here; every track is one interval older.
Older(k) == [k EXCEPT !.age = IF @ < DwellPolls THEN @ + 1 ELSE @]

CollectEnd ==
    /\ stage = "collect" /\ todo = {}
    /\ stage' = "judge"
    /\ fresh' = DOMAIN cands
    /\ tracks' = [l \in DOMAIN tracks |-> Older(tracks[l])]
    /\ rip' = NoSnapshot /\ spun' = NoSpin
    /\ UNCHANGED <<lockVars, life, todo, cands, pending, past>>

-----------------------------------------------------------------------------
(* Tracks and confirmation.                                                *)

\* Deviation: a lock that changed hands keeps its age.
RenewedNoMove(l) ==
    IF l \notin DOMAIN tracks
    THEN [owner |-> cands[l].owner, rip |-> cands[l].rip, age |-> 0, handled |-> FALSE]
    ELSE [tracks[l] EXCEPT !.owner = cands[l].owner, !.rip = cands[l].rip]
\* Deviation: every sighting restarts the dwell clock.
RenewedAlways(l) ==
    [owner |-> cands[l].owner, rip |-> cands[l].rip, age |-> 0, handled |-> FALSE]
\* The track of candidate l after this poll's sighting.
Renewed(l) ==
    IF l \in DOMAIN tracks /\ [owner |-> tracks[l].owner, rip |-> tracks[l].rip] = cands[l]
    THEN tracks[l]
    ELSE [owner |-> cands[l].owner, rip |-> cands[l].rip, age |-> 0, handled |-> FALSE]

Ripe(k) == ~k.handled /\ k.age >= DwellPolls

WithTrack(l, k) == [m \in DOMAIN tracks \cup {l} |-> IF m = l THEN k ELSE tracks[m]]

Judge(l) ==
    /\ stage = "judge" /\ l \in fresh
    /\ fresh' = fresh \ {l}
    /\ tracks' = WithTrack(l, Renewed(l))
    /\ IF Ripe(Renewed(l))
       THEN pending' = l /\ stage' = "recheck"
       ELSE UNCHANGED <<pending, stage>>
    /\ UNCHANGED <<lockVars, life, scan, cands, past>>

\* The thread returns after the recheck pause if it was stopped meanwhile.
Recheck ==
    /\ stage = "recheck"
    /\ IF running THEN stage' = "owner" /\ UNCHANGED pending
       ELSE stage' = "done" /\ pending' = NoLock
    /\ UNCHANGED <<lockVars, life, scan, cands, fresh, tracks, past>>

\* The candidate is given up and its dwell clock restarted.
StandDown ==
    /\ tracks' = [tracks EXCEPT ![pending].age = 0]
    /\ stage' = "judge" /\ pending' = NoLock

\* ReproveLeak, first part: a new snapshot of the owner.
ReproveOwner ==
    /\ stage = "owner"
    /\ LET o == cands[pending].owner
       IN \/ /\ o \in Live /\ cands[pending].rip \in RipsOf(o) /\ ~Spinning(o)
             /\ stage' = "word"
             /\ UNCHANGED <<tracks, pending>>
          \/ /\ \/ o \notin Live
                \/ Spinning(o)
                \/ RipsOf(o) # {cands[pending].rip}
             /\ StandDown
    /\ UNCHANGED <<lockVars, life, scan, cands, fresh, past>>

\* Second part: the lock word again.
ReproveWord ==
    /\ stage = "word"
    /\ IF owner[pending] = cands[pending].owner
       THEN /\ stage' = "act"
            /\ tracks' = [tracks EXCEPT ![pending].handled = TRUE]
            /\ UNCHANGED pending
       ELSE StandDown
    /\ UNCHANGED <<lockVars, life, scan, cands, fresh, past>>

\* ForceRelease: compare and swap with the proven word.
ForceRelease(l, expected) ==
    IF owner[l] = expected THEN owner' = [owner EXCEPT ![l] = NoThread]
    ELSE UNCHANGED owner

HandleConfirmed ==
    /\ stage = "act"
    /\ IF detectOnly THEN UNCHANGED owner
       ELSE ForceRelease(pending, cands[pending].owner)
    /\ stage' = "judge" /\ pending' = NoLock
    /\ UNCHANGED <<doing, want, life, scan, cands, fresh, tracks, past>>

\* Tracks that this poll did not see are dropped.
PollEnd ==
    /\ stage = "judge" /\ fresh = {}
    /\ stage' = "sleep"
    /\ tracks' = [l \in DOMAIN tracks \cap DOMAIN cands |-> tracks[l]]
    /\ past' = [l \in Locks |-> [i \in 1..DwellPolls |->
                   IF i > 1 THEN past[l][i-1]
                   ELSE IF l \in DOMAIN cands THEN cands[l] ELSE Nothing]]
    /\ cands' = Empty
    /\ UNCHANGED <<lockVars, life, scan, fresh, pending>>

-----------------------------------------------------------------------------
WatchdogStep ==
    \/ WakeUp
    \/ \E t \in Threads : SnapshotThread(t) \/ Collect(t)
    \/ SnapshotEnd \/ CollectEnd
    \/ \E l \in Locks : Judge(l)
    \/ Recheck \/ ReproveOwner \/ ReproveWord \/ HandleConfirmed \/ PollEnd

GameStep ==
    /\ \E t \in Threads : ThreadStep(t) \/ Exit(t)
    /\ UNCHANGED <<life, stage, scan, cands, fresh, pending, tracks, past>>

Next ==
    \/ \E enabled, resolved \in BOOLEAN : Install(enabled, resolved)
    \/ OnDataLoaded \/ Stop
    \/ WatchdogStep
    \/ GameStep

Spec == Init /\ [][Next]_vars /\ WF_vars(WatchdogStep)

-----------------------------------------------------------------------------
\* A lock is cleared only in active mode after data-loaded was seen, held by the
\* owner it was proven for, and only if that lock was a candidate with this owner
\* and this RIP in each of the DwellPolls polls before and now: "only when the
\* owner is provably parked ... and the lock has been steady-state held for the
\* full dwell" (LeakedSpinLockBreaker.h:31-37, .cpp:441-467).
ClearsOnlySteadyLocks ==
    [][\A l \in Locks :
          stage = "act" /\ owner[l] # NoThread /\ owner'[l] = NoThread /\ doing' = doing
          /\ want' = want /\ stage' = "judge" =>
             /\ ~detectOnly
             /\ l = pending /\ owner[l] = cands[l].owner
             /\ \A i \in 1..DwellPolls : past[l][i] = cands[l]]_vars

\* One confirmation per stay: a lock that is seen unchanged in poll after poll is
\* reported, counted and cleared at most once (t.handled, .cpp:445, 462).
OneConfirmation ==
    [][stage = "recheck" /\ stage' = "owner" => ~tracks[pending].handled]_vars

\* The layer acts once on a lock, and only on one that stood still for the dwell.
ActsOnLeaksOnly == ClearsOnlySteadyLocks /\ OneConfirmation

\* No thread is suspended and no memory probed before the game has its data
\* (.cpp:30-37, 384-392): the scan is idle while active was never set.
IdleUntilDataLoaded == stage \notin {"off", "sleep", "done"} => active \/ ~running

\* Before data-loaded nothing but the layer's own state changes, and that keeps
\* its types: a track exists for every confirmation that is under way.
QuietUntilDataLoaded == TypeOK /\ IdleUntilDataLoaded

\* A thread that spins on a lock of a parked owner.
Leaked(l, o) == owner[l] = o /\ Parked(o) /\ \E v \in Threads : Spinning(v) /\ want[v] = l

\* A leak that lasts is noticed: after data-loaded, the lock is released, comes
\* into motion, or is confirmed (.cpp:378-475), however long other threads keep
\* the watchdog busy with their own locks.
LeaksAreConfirmed ==
    \A l \in Locks, o \in Threads :
        (stage # "off" /\ active /\ Leaked(l, o))
            ~> (~running \/ ~Leaked(l, o) \/ (l \in DOMAIN tracks /\ tracks[l].handled))
=============================================================================
