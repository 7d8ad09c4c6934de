---------------------- MODULE LeakedSpinLockBreakerProofs --------------------
(***************************************************************************)
(* The fifth layer acts on leaks only, for any threads, locks, park sites  *)
(* and dwell: what is cleared was a candidate with the same owner at the   *)
(* same place in every poll of the dwell, and it is acted on once.         *)
(*                                                                         *)
(* The history of the polls and the ages of the tracks move at different   *)
(* times: an age at the beginning of a poll, the history at its end.  The  *)
(* invariant says how far a track vouches for the history in between.      *)
(***************************************************************************)
EXTENDS LeakedSpinLockBreaker, TLAPS

-----------------------------------------------------------------------------
(* Types.                                                                  *)

Partial(S) == UNION {[L -> S] : L \in SUBSET Locks}
Histories  == [Locks -> [1..DwellPolls -> Sighting \cup {Nothing}]]

LEMMA PartialIntro ==
    ASSUME NEW S, NEW L \in SUBSET Locks, NEW f \in [L -> S] PROVE f \in Partial(S)
BY DEF Partial

LEMMA PartialElim ==
    ASSUME NEW S, NEW f \in Partial(S)
    PROVE  DOMAIN f \subseteq Locks /\ f \in [DOMAIN f -> S]
BY DEF Partial

Scans ==
    /\ todo \subseteq Threads
    /\ rip \in [Threads -> Sites \cup {Code, None}]
    /\ spun \in [Threads -> Locks \cup {NoLock}]

Tables ==
    /\ cands \in Partial(Sighting) /\ fresh \subseteq DOMAIN cands
    /\ tracks \in Partial(Track)
    /\ past \in Histories

Pending ==
    /\ pending \in Locks \cup {NoLock}
    /\ pending \in Locks <=> stage \in {"recheck", "owner", "word", "act"}
    /\ pending \in Locks => pending \in DOMAIN tracks /\ pending \in DOMAIN cands

Flags == running \in BOOLEAN /\ active \in BOOLEAN /\ detectOnly \in BOOLEAN

LEMMA TypeParts ==
    TypeOK <=> LockTypeOK /\ Flags /\ stage \in Stages /\ Scans /\ Tables /\ Pending
BY Zenon DEF TypeOK, Flags, Scans, Tables, Pending, Partial, Histories

LEMMA TypePartsNext ==
    TypeOK' <=> (LockTypeOK /\ Flags /\ stage \in Stages /\ Scans /\ Tables /\ Pending)'
BY Zenon DEF TypeOK, Flags, Scans, Tables, Pending, Partial, Histories

Sight(k) == [owner |-> k.owner, rip |-> k.rip]

LEMMA EmptyPartial == ASSUME NEW S PROVE Empty \in Partial(S) /\ DOMAIN Empty = {}
<1>1. Empty \in [{} -> S] /\ DOMAIN Empty = {} BY DEF Empty
<1> QED BY <1>1, PartialIntro

LEMMA NoScan == NoSnapshot \in [Threads -> Sites \cup {Code, None}]
                /\ NoSpin \in [Threads -> Locks \cup {NoLock}]
BY DEF NoSnapshot, NoSpin

LEMMA InitTypes == Init => TypeOK
<1> SUFFICES ASSUME Init PROVE TypeOK OBVIOUS
<1>1. LockTypeOK BY DEF Init, LockInit, LockTypeOK
<1>2. Flags /\ stage \in Stages BY DEF Init, Flags, Stages
<1>3. Scans BY NoScan DEF Init, Scans
<1>4. Tables BY EmptyPartial DEF Init, Tables, Histories
<1>5. Pending BY LockNullsAssumption DEF Init, Pending, LockNullsAssumption
<1> QED BY <1>1, <1>2, <1>3, <1>4, <1>5, TypeParts

LEMMA ThreadTypes ==
    ASSUME LockTypeOK, NEW t \in Threads, ThreadStep(t) \/ Exit(t) PROVE LockTypeOK'
BY DEF LockTypeOK, ThreadStep, Acquire, Contend, Release, Obtain, Park, Wake, Exit,
       Spinning, Parked

\* A thread can only show a place it may be at.
LEMMA RipTypes ==
    ASSUME LockTypeOK, NEW t \in Threads PROVE RipsOf(t) \subseteq Sites \cup {Code}
BY DEF LockTypeOK, RipsOf, Parked

\* A candidate has a thread for owner, and this thread is parked.
LEMMA SeenTypes ==
    ASSUME LockTypeOK, Scans, NEW v \in Threads, NEW S, NEW R \in SUBSET Locks,
           NEW l \in LeakCandidates(v, S, R)
    PROVE  l \in Locks /\ Seen(l) \in Sighting
<1>1. l \in Locks /\ owner[l] # NoThread /\ rip[owner[l]] \in Sites
  BY DEF LeakCandidates
<1>2. owner[l] \in Threads BY <1>1 DEF LockTypeOK
<1> QED BY <1>1, <1>2 DEF Seen, Sighting

LEMMA TrackFields ==
    ASSUME NEW k \in Track
    PROVE  /\ k.owner \in Threads /\ k.rip \in Sites /\ k.age \in 0..DwellPolls
           /\ k.handled \in BOOLEAN /\ Sight(k) \in Sighting
           /\ Older(k) \in Track /\ Sight(Older(k)) = Sight(k) /\ Older(k).age <= k.age + 1
BY DwellAssumption DEF Track, Sight, Sighting, Older, DwellAssumption

\* What Judge makes of a track, of one that is renewed and of one that is begun.
LEMMA RenewedTypes ==
    ASSUME Tables, NEW l \in DOMAIN cands
    PROVE  /\ Renewed(l) \in Track /\ Sight(Renewed(l)) = cands[l]
           /\ Renewed(l).age = 0 \/ (l \in DOMAIN tracks /\ Renewed(l) = tracks[l])
<1>1. cands[l] \in Sighting /\ tracks \in [DOMAIN tracks -> Track]
  BY PartialElim DEF Tables
<1>2. CASE l \in DOMAIN tracks
           /\ [owner |-> tracks[l].owner, rip |-> tracks[l].rip] = cands[l]
  BY <1>1, <1>2 DEF Renewed, Sight
<1>3. CASE ~(l \in DOMAIN tracks
             /\ [owner |-> tracks[l].owner, rip |-> tracks[l].rip] = cands[l])
  <2>1. Renewed(l) = [owner |-> cands[l].owner, rip |-> cands[l].rip, age |-> 0,
                      handled |-> FALSE]
    BY <1>3 DEF Renewed
  <2>2. cands[l].owner \in Threads /\ cands[l].rip \in Sites
        /\ cands[l] = [owner |-> cands[l].owner, rip |-> cands[l].rip]
    BY <1>1 DEF Sighting
  <2> QED BY <2>1, <2>2, DwellAssumption DEF Track, Sight, DwellAssumption
<1> QED BY <1>2, <1>3

LEMMA WithTrackTypes ==
    ASSUME NEW l \in Locks, NEW k \in Track, tracks \in Partial(Track)
    PROVE  /\ WithTrack(l, k) \in Partial(Track)
           /\ DOMAIN WithTrack(l, k) = DOMAIN tracks \cup {l}
           /\ WithTrack(l, k)[l] = k
           /\ \A m \in DOMAIN tracks \ {l} : WithTrack(l, k)[m] = tracks[m]
<1>1. DOMAIN tracks \subseteq Locks /\ tracks \in [DOMAIN tracks -> Track] BY PartialElim
<1>2. WithTrack(l, k) \in [DOMAIN tracks \cup {l} -> Track] BY <1>1 DEF WithTrack
<1>3. WithTrack(l, k) \in Partial(Track) BY <1>1, <1>2, PartialIntro
<1> QED BY <1>3 DEF WithTrack

Aged == [l \in DOMAIN tracks |-> Older(tracks[l])]
Kept == [l \in DOMAIN tracks \cap DOMAIN cands |-> tracks[l]]

LEMMA AgedTypes ==
    ASSUME tracks \in Partial(Track)
    PROVE  Aged \in Partial(Track) /\ DOMAIN Aged = DOMAIN tracks
<1>1. DOMAIN tracks \subseteq Locks /\ tracks \in [DOMAIN tracks -> Track] BY PartialElim
<1>2. \A l \in DOMAIN tracks : Older(tracks[l]) \in Track BY <1>1, TrackFields
<1>3. Aged \in [DOMAIN tracks -> Track] BY <1>2 DEF Aged
<1> QED BY <1>1, <1>3, PartialIntro

LEMMA KeptTypes ==
    ASSUME tracks \in Partial(Track)
    PROVE  Kept \in Partial(Track) /\ DOMAIN Kept = DOMAIN tracks \cap DOMAIN cands
<1>1. DOMAIN tracks \subseteq Locks /\ tracks \in [DOMAIN tracks -> Track] BY PartialElim
<1>2. Kept \in [DOMAIN tracks \cap DOMAIN cands -> Track] BY <1>1 DEF Kept
<1> QED BY <1>1, <1>2, PartialIntro

LEMMA StandDownTypes ==
    ASSUME tracks \in Partial(Track), pending \in DOMAIN tracks
    PROVE  /\ [tracks EXCEPT ![pending].age = 0] \in Partial(Track)
           /\ DOMAIN [tracks EXCEPT ![pending].age = 0] = DOMAIN tracks
           /\ [tracks EXCEPT ![pending].handled = TRUE] \in Partial(Track)
           /\ DOMAIN [tracks EXCEPT ![pending].handled = TRUE] = DOMAIN tracks
<1>1. DOMAIN tracks \subseteq Locks /\ tracks \in [DOMAIN tracks -> Track] BY PartialElim
<1>2. tracks[pending] \in Track BY <1>1
<1>3. /\ [tracks[pending] EXCEPT !.age = 0] \in Track
      /\ [tracks[pending] EXCEPT !.handled = TRUE] \in Track
  <2>1. 0 \in 0..DwellPolls BY DwellAssumption DEF DwellAssumption
  <2>2. [tracks[pending] EXCEPT !.age = 0] \in Track BY <1>2, <2>1 DEF Track
  <2>3. [tracks[pending] EXCEPT !.handled = TRUE] \in Track BY <1>2 DEF Track
  <2> QED BY <2>2, <2>3
<1>4. /\ [tracks EXCEPT ![pending].age = 0] \in [DOMAIN tracks -> Track]
      /\ [tracks EXCEPT ![pending].handled = TRUE] \in [DOMAIN tracks -> Track]
  BY <1>1, <1>3
<1> QED BY <1>1, <1>4, PartialIntro

LEMMA CollectTypes ==
    ASSUME LockTypeOK, Scans, Tables, NEW v \in Threads, Collect(v)
    PROVE  cands' \in Partial(Sighting) /\ DOMAIN cands \subseteq DOMAIN cands'
<1>1. PICK S \in StackScans, R \in References(v) :
         cands' = LET found == IF v \in S THEN LeakCandidates(v, S, R) ELSE {}
                  IN  [l \in DOMAIN cands \cup found |->
                          IF l \in DOMAIN cands THEN cands[l] ELSE Seen(l)]
  BY DEF Collect
<1> DEFINE found == IF v \in S THEN LeakCandidates(v, S, R) ELSE {}
<1>2. cands' = [l \in DOMAIN cands \cup found |->
                   IF l \in DOMAIN cands THEN cands[l] ELSE Seen(l)]
  BY <1>1
<1>3. R \in SUBSET Locks BY DEF References
<1>4. \A l \in found : l \in Locks /\ Seen(l) \in Sighting BY <1>3, SeenTypes
<1>5. DOMAIN cands \subseteq Locks /\ cands \in [DOMAIN cands -> Sighting]
  BY PartialElim DEF Tables
<1> HIDE DEF found
<1>6. cands' \in [DOMAIN cands \cup found -> Sighting] BY <1>2, <1>4, <1>5
<1>7. DOMAIN cands \cup found \in SUBSET Locks BY <1>4, <1>5
<1>8. cands' \in Partial(Sighting) BY <1>6, <1>7, PartialIntro
<1> QED BY <1>2, <1>8

\* The history moves by one poll.
Shifted ==
    [l \in Locks |-> [i \in 1..DwellPolls |->
        IF i > 1 THEN past[l][i-1]
        ELSE IF l \in DOMAIN cands THEN cands[l] ELSE Nothing]]

LEMMA ShiftedTypes == ASSUME Tables PROVE Shifted \in Histories
<1>1. cands \in [DOMAIN cands -> Sighting] /\ past \in Histories BY PartialElim DEF Tables
<1>2. ASSUME NEW l \in Locks, NEW i \in 1..DwellPolls
      PROVE  (IF i > 1 THEN past[l][i-1] ELSE IF l \in DOMAIN cands THEN cands[l] ELSE Nothing)
             \in Sighting \cup {Nothing}
  BY <1>1, DwellAssumption DEF Histories, DwellAssumption
<1> QED BY <1>2 DEF Shifted, Histories

\* Candidates are left to judge only while there are candidates.
Quiet == stage \in {"off", "sleep", "snapshot", "collect"} => fresh = {}

Types == TypeOK /\ Quiet

\* What most steps keep.
Same == UNCHANGED <<owner, doing, want, running, active, detectOnly>>

LEMMA SameTypes ==
    ASSUME LockTypeOK, Flags, Same PROVE LockTypeOK' /\ Flags'
BY DEF LockTypeOK, Flags, Same

LEMMA ScanStep ==
    ASSUME Types, WakeUp \/ (\E t \in Threads : SnapshotThread(t) \/ Collect(t))
                  \/ SnapshotEnd \/ CollectEnd
    PROVE  Types'
<1>1. LockTypeOK /\ Flags /\ stage \in Stages /\ Scans /\ Tables /\ Pending /\ Quiet
  BY TypeParts DEF Types
<1> SUFFICES (LockTypeOK /\ Flags /\ stage \in Stages /\ Scans /\ Tables /\ Pending /\ Quiet)'
  BY TypePartsNext DEF Types
<1>2. CASE WakeUp
  <2>1. Same /\ UNCHANGED <<cands, fresh, pending, tracks, past>>
        /\ stage = "sleep" /\ stage' \in {"snapshot", "done"}
    BY <1>2 DEF WakeUp, lockVars, life, Same
  <2>2. Scans' BY <1>1, <1>2, NoScan DEF WakeUp, Scans, scan, EnumerateThreads, Live
  <2> QED BY <1>1, <2>1, <2>2, SameTypes DEF Stages, Tables, Pending, Quiet
<1>3. ASSUME NEW t \in Threads, SnapshotThread(t)
      PROVE (LockTypeOK /\ Flags /\ stage \in Stages /\ Scans /\ Tables /\ Pending /\ Quiet)'
  <2>1. Same /\ UNCHANGED <<stage, cands, fresh, pending, tracks, past>>
    BY <1>3 DEF SnapshotThread, lockVars, life, Same
  <2>2. Scans'
    <3>1. RipsOf(t) \subseteq Sites \cup {Code} BY <1>1, RipTypes
    <3>2. want[t] \in Locks \cup {NoLock} BY <1>1 DEF LockTypeOK
    <3> QED BY <1>1, <1>3, <3>1, <3>2 DEF SnapshotThread, Scans
  <2> QED BY <1>1, <2>1, <2>2, SameTypes DEF Tables, Pending, Quiet
<1>4. CASE SnapshotEnd
  <2>1. Same /\ UNCHANGED <<rip, spun, fresh, pending, tracks, past>>
        /\ stage = "snapshot" /\ stage' = "collect" /\ todo' \subseteq Threads
        /\ cands' = Empty
    BY <1>4 DEF SnapshotEnd, lockVars, life, Same
  <2>2. Tables' BY <1>1, <2>1, EmptyPartial DEF Tables, Quiet
  <2>3. Pending' /\ Quiet' BY <1>1, <2>1 DEF Pending, Quiet
  <2> QED BY <1>1, <2>1, <2>2, <2>3, SameTypes DEF Stages, Scans
<1>5. ASSUME NEW v \in Threads, Collect(v)
      PROVE (LockTypeOK /\ Flags /\ stage \in Stages /\ Scans /\ Tables /\ Pending /\ Quiet)'
  <2>1. Same /\ UNCHANGED <<stage, rip, spun, fresh, pending, tracks, past>>
        /\ stage = "collect" /\ todo' \subseteq todo
    BY <1>5 DEF Collect, lockVars, life, Same
  <2>2. cands' \in Partial(Sighting) BY <1>1, <1>5, CollectTypes
  <2>3. Tables' BY <1>1, <2>1, <2>2 DEF Tables, Quiet
  <2>4. Pending' /\ Quiet' BY <1>1, <2>1 DEF Pending, Quiet
  <2> QED BY <1>1, <2>1, <2>3, <2>4, SameTypes DEF Scans
<1>6. CASE CollectEnd
  <2>1. Same /\ UNCHANGED <<todo, cands, pending, past>>
        /\ stage = "collect" /\ stage' = "judge" /\ fresh' = DOMAIN cands
        /\ tracks' = Aged /\ rip' = NoSnapshot /\ spun' = NoSpin
    BY <1>6 DEF CollectEnd, lockVars, life, Same, Aged
  <2>2. Tables' BY <1>1, <2>1, AgedTypes DEF Tables
  <2>3. Pending' /\ Quiet' BY <1>1, <2>1 DEF Pending, Quiet
  <2> QED BY <1>1, <2>1, <2>2, <2>3, NoScan, SameTypes DEF Stages, Scans
<1> QED BY <1>2, <1>3, <1>4, <1>5, <1>6

LEMMA JudgeStep ==
    ASSUME Types, (\E l \in Locks : Judge(l)) \/ Recheck \/ ReproveOwner \/ ReproveWord
                  \/ PollEnd
    PROVE  Types'
<1>1. LockTypeOK /\ Flags /\ stage \in Stages /\ Scans /\ Tables /\ Pending
  BY TypeParts DEF Types
<1>2. NoLock \notin Locks BY LockNullsAssumption DEF LockNullsAssumption
<1>3. DOMAIN cands \subseteq Locks /\ DOMAIN tracks \subseteq Locks
  BY <1>1, PartialElim DEF Tables
<1> SUFFICES (LockTypeOK /\ Flags /\ stage \in Stages /\ Scans /\ Tables /\ Pending /\ Quiet)'
  BY TypePartsNext DEF Types
<1>4. ASSUME NEW l \in Locks, Judge(l)
      PROVE (LockTypeOK /\ Flags /\ stage \in Stages /\ Scans /\ Tables /\ Pending /\ Quiet)'
  <2>1. Same /\ UNCHANGED <<todo, rip, spun, cands, past>> /\ stage = "judge"
        /\ l \in fresh /\ fresh' = fresh \ {l} /\ tracks' = WithTrack(l, Renewed(l))
        /\ \/ pending' = l /\ stage' = "recheck"
           \/ UNCHANGED <<pending, stage>>
    BY <1>4 DEF Judge, lockVars, life, scan, Same
  <2>2. l \in DOMAIN cands /\ fresh' \subseteq DOMAIN cands BY <1>1, <2>1 DEF Tables
  <2>3. Renewed(l) \in Track BY <1>1, <2>2, RenewedTypes
  <2>4. tracks' \in Partial(Track) /\ DOMAIN tracks' = DOMAIN tracks \cup {l}
    BY <1>1, <2>1, <2>3, WithTrackTypes DEF Tables
  <2>5. Tables' BY <1>1, <2>1, <2>2, <2>4 DEF Tables
  <2>6. Pending' BY <1>1, <1>2, <2>1, <2>2, <2>4 DEF Pending
  <2>7. Quiet' /\ stage' \in Stages BY <2>1 DEF Quiet, Stages
  <2> QED BY <1>1, <2>1, <2>5, <2>6, <2>7, SameTypes DEF Scans
<1>5. CASE Recheck
  <2>1. Same /\ UNCHANGED <<todo, rip, spun, cands, fresh, tracks, past>> /\ stage = "recheck"
        /\ \/ stage' = "owner" /\ UNCHANGED pending
           \/ stage' = "done" /\ pending' = NoLock
    BY <1>5 DEF Recheck, lockVars, life, scan, Same
  <2>2. Pending' BY <1>1, <1>2, <2>1 DEF Pending
  <2>3. Quiet' /\ stage' \in Stages BY <2>1 DEF Quiet, Stages
  <2> QED BY <1>1, <2>1, <2>2, <2>3, SameTypes DEF Scans, Tables
<1>6. CASE ReproveOwner
  <2>1. Same /\ UNCHANGED <<todo, rip, spun, cands, fresh, past>> /\ stage = "owner"
        /\ \/ stage' = "word" /\ UNCHANGED <<tracks, pending>>
           \/ StandDown
    BY <1>6 DEF ReproveOwner, lockVars, life, scan, Same
  <2>2. pending \in DOMAIN tracks BY <1>1, <2>1 DEF Pending
  <2>3. tracks' \in Partial(Track) /\ DOMAIN tracks' = DOMAIN tracks
    BY <1>1, <2>1, <2>2, StandDownTypes DEF StandDown, Tables
  <2>4. Tables' BY <1>1, <2>1, <2>3 DEF Tables
  <2>5. Pending' BY <1>1, <1>2, <2>1, <2>3 DEF Pending, StandDown
  <2>6. Quiet' /\ stage' \in Stages BY <2>1 DEF Quiet, Stages, StandDown
  <2> QED BY <1>1, <2>1, <2>4, <2>5, <2>6, SameTypes DEF Scans
<1>7. CASE ReproveWord
  <2>1. Same /\ UNCHANGED <<todo, rip, spun, cands, fresh, past>> /\ stage = "word"
        /\ \/ /\ stage' = "act" /\ UNCHANGED pending
              /\ tracks' = [tracks EXCEPT ![pending].handled = TRUE]
           \/ StandDown
    BY <1>7 DEF ReproveWord, lockVars, life, scan, Same
  <2>2. pending \in DOMAIN tracks BY <1>1, <2>1 DEF Pending
  <2>3. tracks' \in Partial(Track) /\ DOMAIN tracks' = DOMAIN tracks
    BY <1>1, <2>1, <2>2, StandDownTypes DEF StandDown, Tables
  <2>4. Tables' BY <1>1, <2>1, <2>3 DEF Tables
  <2>5. Pending' BY <1>1, <1>2, <2>1, <2>3 DEF Pending, StandDown
  <2>6. Quiet' /\ stage' \in Stages BY <2>1 DEF Quiet, Stages, StandDown
  <2> QED BY <1>1, <2>1, <2>4, <2>5, <2>6, SameTypes DEF Scans
<1>8. CASE PollEnd
  <2>1. Same /\ UNCHANGED <<todo, rip, spun, fresh, pending>>
        /\ stage = "judge" /\ fresh = {} /\ stage' = "sleep"
        /\ tracks' = Kept /\ past' = Shifted /\ cands' = Empty
    BY <1>8 DEF PollEnd, lockVars, life, scan, Same, Kept, Shifted
  <2>2. Tables' BY <1>1, <2>1, KeptTypes, ShiftedTypes, EmptyPartial DEF Tables
  <2>3. Pending' BY <1>1, <2>1 DEF Pending
  <2>4. Quiet' /\ stage' \in Stages BY <2>1 DEF Quiet, Stages
  <2> QED BY <1>1, <2>1, <2>2, <2>3, <2>4, SameTypes DEF Scans
<1> QED BY <1>4, <1>5, <1>6, <1>7, <1>8

LEMMA NextTypes == Types /\ [Next]_vars => Types'
<1> SUFFICES ASSUME Types, [Next]_vars PROVE Types' OBVIOUS
<1>1. LockTypeOK /\ Flags /\ stage \in Stages /\ Scans /\ Tables /\ Pending /\ Quiet
  BY TypeParts DEF Types
<1>2. NoLock \notin Locks BY LockNullsAssumption DEF LockNullsAssumption
<1>3. CASE WakeUp \/ (\E t \in Threads : SnapshotThread(t) \/ Collect(t))
           \/ SnapshotEnd \/ CollectEnd
  BY <1>3, ScanStep
<1>4. CASE (\E l \in Locks : Judge(l)) \/ Recheck \/ ReproveOwner \/ ReproveWord \/ PollEnd
  BY <1>4, JudgeStep
<1>5. CASE (\E enabled, resolved \in BOOLEAN : Install(enabled, resolved))
           \/ OnDataLoaded \/ Stop \/ UNCHANGED vars
  <2>1. UNCHANGED <<owner, doing, want, detectOnly, todo, rip, spun, cands, fresh, pending,
                    tracks, past>>
        /\ running' \in BOOLEAN /\ active' \in BOOLEAN
        /\ \/ stage' = stage
           \/ stage = "off" /\ stage' = "sleep"
    BY <1>1, <1>5 DEF Install, OnDataLoaded, Stop, vars, lockVars, life, scan, Flags
  <2> QED BY <1>1, <2>1, TypePartsNext
          DEF Types, LockTypeOK, Flags, Stages, Scans, Tables, Pending, Quiet
<1>6. CASE GameStep
  <2>1. PICK t \in Threads : ThreadStep(t) \/ Exit(t) BY <1>6 DEF GameStep
  <2>2. LockTypeOK' BY <1>1, <2>1, ThreadTypes
  <2>3. UNCHANGED <<running, active, detectOnly, stage, todo, rip, spun, cands, fresh, pending,
                    tracks, past>>
    BY <1>6 DEF GameStep, life, scan
  <2> QED BY <1>1, <2>2, <2>3, TypePartsNext DEF Types, Flags, Scans, Tables, Pending, Quiet
<1>7. CASE HandleConfirmed
  <2>1. UNCHANGED <<doing, want, running, active, detectOnly, todo, rip, spun, cands, fresh,
                    tracks, past>>
        /\ stage = "act" /\ stage' = "judge" /\ pending' = NoLock
        /\ owner' \in {owner, [owner EXCEPT ![pending] = NoThread]}
    BY <1>7 DEF HandleConfirmed, ForceRelease, life, scan
  <2>2. LockTypeOK' BY <1>1, <2>1 DEF LockTypeOK
  <2>3. Pending' BY <1>2, <2>1 DEF Pending
  <2> QED BY <1>1, <2>1, <2>2, <2>3, TypePartsNext
          DEF Types, Flags, Stages, Scans, Tables, Quiet
<1> QED BY <1>3, <1>4, <1>5, <1>6, <1>7 DEF Next, WatchdogStep

\* The tables keep their types, and a track exists for what is being confirmed;
\* before data-loaded nothing is scanned (LeakedSpinLockBreaker.cpp 30-37, 384-392).
THEOREM QuietBefore == Spec => []QuietUntilDataLoaded
<1>1. Init => Types /\ IdleUntilDataLoaded
  BY InitTypes DEF Init, Types, Quiet, IdleUntilDataLoaded
<1>2. IdleUntilDataLoaded /\ [Next]_vars => IdleUntilDataLoaded'
  <2> SUFFICES ASSUME IdleUntilDataLoaded, [Next]_vars PROVE IdleUntilDataLoaded' OBVIOUS
  <2>1. CASE UNCHANGED <<running, active>> /\ stage \notin {"off", "sleep", "done"}
    BY <2>1 DEF IdleUntilDataLoaded
  <2>2. CASE UNCHANGED <<running, active>> /\ stage' \in {"off", "sleep", "done"}
    BY <2>2 DEF IdleUntilDataLoaded
  <2>3. CASE UNCHANGED <<running, active, stage>>
    BY <2>3 DEF IdleUntilDataLoaded
  <2>4. CASE WakeUp BY <2>4 DEF WakeUp, life, IdleUntilDataLoaded
  <2>5. CASE \E enabled, resolved \in BOOLEAN : Install(enabled, resolved)
    BY <2>5 DEF Install, IdleUntilDataLoaded
  <2>6. CASE OnDataLoaded \/ Stop
    BY <2>6 DEF OnDataLoaded, Stop, IdleUntilDataLoaded
  <2>7. CASE GameStep \/ UNCHANGED vars
    BY <2>3, <2>7 DEF GameStep, vars, life
  <2>8. CASE SnapshotEnd \/ CollectEnd \/ (\E t \in Threads : SnapshotThread(t) \/ Collect(t))
    BY <2>1, <2>8 DEF SnapshotEnd, CollectEnd, SnapshotThread, Collect, life
  <2>9. CASE (\E l \in Locks : Judge(l)) \/ Recheck \/ ReproveOwner \/ ReproveWord
             \/ HandleConfirmed \/ PollEnd
    BY <2>1, <2>9 DEF Judge, Recheck, ReproveOwner, ReproveWord, HandleConfirmed, PollEnd, life
  <2> QED BY <2>4, <2>5, <2>6, <2>7, <2>8, <2>9 DEF Next, WatchdogStep
<1>3. Types /\ IdleUntilDataLoaded => QuietUntilDataLoaded BY DEF Types, QuietUntilDataLoaded
<1> QED BY <1>1, <1>2, <1>3, NextTypes, PTL DEF Spec

-----------------------------------------------------------------------------
(* How far a track vouches for the history.                                *)

Scanning == stage \in {"off", "sleep", "snapshot", "collect"}
Judging  == stage \in {"judge", "recheck", "owner", "word", "act"}

\* Between two polls a track of age n stands for n + 1 polls, during one for n.
Vouches ==
    \A l \in DOMAIN tracks, i \in 1..DwellPolls :
        /\ Scanning /\ i <= tracks[l].age + 1 => past[l][i] = Sight(tracks[l])
        /\ Judging /\ i <= tracks[l].age => past[l][i] = Sight(tracks[l])

\* What was judged in this poll has a track of this poll.
Judged ==
    Judging => \A l \in DOMAIN cands \ fresh :
                   l \in DOMAIN tracks /\ Sight(tracks[l]) = cands[l]

Confirming ==
    /\ stage \in {"recheck", "owner", "word", "act"} =>
           pending \notin fresh /\ tracks[pending].age = DwellPolls
    /\ stage \in {"recheck", "owner", "word"} => ~tracks[pending].handled

SteadyInv == Types /\ Vouches /\ Judged /\ Confirming

LEMMA InitSteady == Init => SteadyInv
BY InitTypes, EmptyPartial
   DEF Init, SteadyInv, Types, Quiet, Vouches, Judged, Confirming, Judging

\* The steps that leave the tables alone.
LEMMA SteadyKept ==
    ASSUME SteadyInv, Types', UNCHANGED <<cands, fresh, tracks, past>>,
           \/ UNCHANGED <<pending, stage>>
           \/ stage' = "done"
           \/ Scanning /\ Scanning'
           \/ Judging /\ stage' = "judge"
           \/ pending' = pending /\ stage = "recheck" /\ stage' = "owner"
           \/ pending' = pending /\ stage = "owner" /\ stage' = "word"
    PROVE  SteadyInv'
BY DEF SteadyInv, Vouches, Judged, Confirming, Scanning, Judging

LEMMA TrackTypes ==
    ASSUME Types, NEW l \in DOMAIN tracks
    PROVE  l \in Locks /\ tracks[l] \in Track
<1>1. tracks \in Partial(Track) BY TypeParts DEF Types, Tables
<1> QED BY <1>1, PartialElim

LEMMA CollectEndSteady == SteadyInv /\ Types' /\ CollectEnd => SteadyInv'
<1> SUFFICES ASSUME SteadyInv, Types', CollectEnd PROVE SteadyInv' OBVIOUS
<1>1. /\ stage = "collect" /\ stage' = "judge" /\ fresh' = DOMAIN cands /\ cands' = cands
      /\ tracks' = Aged /\ past' = past
  BY DEF CollectEnd, Aged
<1>2. DOMAIN tracks' = DOMAIN tracks /\ \A l \in DOMAIN tracks : tracks'[l] = Older(tracks[l])
  BY <1>1 DEF Aged
<1>3. Vouches'
  <2>1. ASSUME NEW l \in DOMAIN tracks, NEW i \in 1..DwellPolls, i <= tracks'[l].age
        PROVE past'[l][i] = Sight(tracks'[l])
    <3>1. tracks[l] \in Track BY TrackTypes DEF SteadyInv
    <3>2. Sight(tracks'[l]) = Sight(tracks[l]) /\ tracks'[l].age <= tracks[l].age + 1
      BY <1>2, <3>1, TrackFields
    <3>3. tracks[l].age \in Nat /\ tracks'[l].age \in Nat /\ i \in Nat
      BY <1>2, <3>1, TrackFields, DwellAssumption DEF DwellAssumption
    <3>4. i <= tracks[l].age + 1 BY <2>1, <3>2, <3>3
    <3> QED BY <1>1, <3>2, <3>4 DEF SteadyInv, Vouches, Scanning
  <2> QED BY <1>1, <1>2, <2>1 DEF Vouches, Scanning, Judging
<1> QED BY <1>1, <1>3 DEF SteadyInv, Judged, Confirming

LEMMA JudgeSteady ==
    ASSUME SteadyInv, Types', NEW l \in Locks, Judge(l) PROVE SteadyInv'
<1>1. /\ stage = "judge" /\ l \in fresh /\ fresh' = fresh \ {l}
      /\ UNCHANGED <<cands, past>>
      /\ tracks' = WithTrack(l, Renewed(l))
      /\ \/ pending' = l /\ stage' = "recheck" /\ Ripe(Renewed(l))
         \/ stage' = "judge"
  BY DEF Judge
<1>2. Tables BY TypeParts DEF SteadyInv, Types
<1>3. l \in DOMAIN cands BY <1>1, <1>2 DEF Tables
<1>4. /\ Renewed(l) \in Track /\ Sight(Renewed(l)) = cands[l]
      /\ Renewed(l).age = 0 \/ (l \in DOMAIN tracks /\ Renewed(l) = tracks[l])
  BY <1>2, <1>3, RenewedTypes
<1>5. /\ DOMAIN tracks' = DOMAIN tracks \cup {l} /\ tracks'[l] = Renewed(l)
      /\ \A m \in DOMAIN tracks \ {l} : tracks'[m] = tracks[m]
  BY <1>1, <1>2, <1>4, WithTrackTypes DEF Tables
<1>6. Vouches'
  <2>1. ASSUME NEW m \in DOMAIN tracks', NEW i \in 1..DwellPolls, i <= tracks'[m].age
        PROVE past'[m][i] = Sight(tracks'[m])
    <3>1. CASE m # l \/ (l \in DOMAIN tracks /\ Renewed(l) = tracks[l])
      <4>1. m \in DOMAIN tracks /\ tracks'[m] = tracks[m] BY <1>5, <3>1
      <4> QED BY <1>1, <2>1, <4>1 DEF SteadyInv, Vouches, Judging
    <3>2. CASE m = l /\ Renewed(l).age = 0
      <4>1. i <= 0 /\ i \in Nat /\ i >= 1 BY <1>5, <2>1, <3>2, DwellAssumption DEF DwellAssumption
      <4> QED BY <4>1
    <3> QED BY <1>4, <3>1, <3>2
  <2>2. ~Scanning' BY <1>1 DEF Scanning
  <2> QED BY <2>1, <2>2 DEF Vouches
<1>7. Judged'
  BY <1>1, <1>4, <1>5 DEF SteadyInv, Judged, Judging
<1>8. Confirming'
  <2>1. CASE stage' = "judge" BY <2>1 DEF Confirming
  <2>2. CASE pending' = l /\ stage' = "recheck" /\ Ripe(Renewed(l))
    <3>1. Renewed(l).age \in 0..DwellPolls /\ Renewed(l).age >= DwellPolls
          /\ ~Renewed(l).handled
      BY <1>4, <2>2, TrackFields DEF Ripe
    <3>2. Renewed(l).age = DwellPolls BY <3>1, DwellAssumption DEF DwellAssumption
    <3> QED BY <1>1, <1>5, <2>2, <3>1, <3>2 DEF Confirming
  <2> QED BY <1>1, <2>1, <2>2
<1> QED BY <1>6, <1>7, <1>8 DEF SteadyInv

LEMMA StandDownSteady ==
    ASSUME SteadyInv, Types', UNCHANGED <<cands, fresh, past>>, stage \in {"owner", "word"},
           StandDown
    PROVE  SteadyInv'
<1>1. /\ tracks' = [tracks EXCEPT ![pending].age = 0] /\ stage' = "judge"
  BY DEF StandDown
<1>2. pending \in DOMAIN tracks
  <2>1. Pending BY TypeParts DEF SteadyInv, Types
  <2> QED BY <2>1 DEF Pending
<1>3. /\ DOMAIN tracks' = DOMAIN tracks
      /\ \A l \in DOMAIN tracks \ {pending} : tracks'[l] = tracks[l]
      /\ tracks'[pending].age = 0 /\ Sight(tracks'[pending]) = Sight(tracks[pending])
  <2>1. tracks[pending] \in Track BY <1>2, TrackTypes DEF SteadyInv
  <2>2. tracks'[pending] = [tracks[pending] EXCEPT !.age = 0] BY <1>1, <1>2
  <2>3. tracks'[pending].age = 0 /\ Sight(tracks'[pending]) = Sight(tracks[pending])
    BY <2>1, <2>2 DEF Track, Sight
  <2> QED BY <1>1, <2>3
<1>4. Vouches'
  <2>1. ASSUME NEW l \in DOMAIN tracks, NEW i \in 1..DwellPolls, i <= tracks'[l].age
        PROVE past'[l][i] = Sight(tracks'[l])
    <3>1. CASE l # pending BY <1>3, <2>1, <3>1 DEF SteadyInv, Vouches, Judging
    <3>2. CASE l = pending
      <4>1. i <= 0 /\ i \in Nat /\ i >= 1 BY <1>3, <2>1, <3>2, DwellAssumption DEF DwellAssumption
      <4> QED BY <4>1
    <3> QED BY <3>1, <3>2
  <2>2. ~Scanning' BY <1>1 DEF Scanning
  <2> QED BY <1>3, <2>1, <2>2 DEF Vouches
<1>5. Judged'
  <2>1. \A l \in DOMAIN tracks : Sight(tracks'[l]) = Sight(tracks[l]) BY <1>3
  <2> QED BY <1>3, <2>1 DEF SteadyInv, Judged, Judging
<1>6. Confirming' BY <1>1 DEF Confirming
<1> QED BY <1>4, <1>5, <1>6 DEF SteadyInv

LEMMA ReproveWordSteady == SteadyInv /\ Types' /\ ReproveWord => SteadyInv'
<1> SUFFICES ASSUME SteadyInv, Types', ReproveWord PROVE SteadyInv' OBVIOUS
<1>1. UNCHANGED <<cands, fresh, past>> /\ stage = "word" BY DEF ReproveWord
<1>2. CASE StandDown BY <1>1, <1>2, StandDownSteady
<1>3. CASE /\ stage' = "act" /\ UNCHANGED pending
           /\ tracks' = [tracks EXCEPT ![pending].handled = TRUE]
  <2>1. pending \in DOMAIN tracks
    <3>1. Pending BY TypeParts DEF SteadyInv, Types
    <3> QED BY <1>1, <3>1 DEF Pending
  <2>2. /\ DOMAIN tracks' = DOMAIN tracks
        /\ \A l \in DOMAIN tracks : Sight(tracks'[l]) = Sight(tracks[l])
                                    /\ tracks'[l].age = tracks[l].age
    <3>1. tracks[pending] \in Track BY <2>1, TrackTypes DEF SteadyInv
    <3>2. tracks'[pending] = [tracks[pending] EXCEPT !.handled = TRUE] BY <1>3, <2>1
    <3>3. /\ Sight(tracks'[pending]) = Sight(tracks[pending])
          /\ tracks'[pending].age = tracks[pending].age
      BY <3>1, <3>2 DEF Track, Sight
    <3>4. \A l \in DOMAIN tracks \ {pending} : tracks'[l] = tracks[l] BY <1>3
    <3> QED BY <1>3, <3>3, <3>4
  <2>3. Vouches' BY <1>1, <1>3, <2>2 DEF SteadyInv, Vouches, Scanning, Judging
  <2>4. Judged' BY <1>1, <1>3, <2>2 DEF SteadyInv, Judged, Judging
  <2>5. Confirming' BY <1>1, <1>3, <2>1, <2>2 DEF SteadyInv, Confirming
  <2> QED BY <2>3, <2>4, <2>5 DEF SteadyInv
<1> QED BY <1>2, <1>3 DEF ReproveWord

LEMMA PollEndSteady == SteadyInv /\ Types' /\ PollEnd => SteadyInv'
<1> SUFFICES ASSUME SteadyInv, Types', PollEnd PROVE SteadyInv' OBVIOUS
<1>1. /\ stage = "judge" /\ fresh = {} /\ stage' = "sleep"
      /\ tracks' = Kept /\ past' = Shifted
  BY DEF PollEnd, Kept, Shifted
<1>2. /\ DOMAIN tracks' = DOMAIN tracks \cap DOMAIN cands
      /\ \A l \in DOMAIN tracks' : tracks'[l] = tracks[l]
  BY <1>1 DEF Kept
<1>3. ASSUME NEW l \in DOMAIN tracks', NEW i \in 1..DwellPolls, i <= tracks'[l].age + 1
      PROVE past'[l][i] = Sight(tracks'[l])
  <2>1. l \in Locks /\ tracks[l] \in Track BY <1>2, TrackTypes DEF SteadyInv
  <2>2. past'[l][i] = IF i > 1 THEN past[l][i-1]
                      ELSE IF l \in DOMAIN cands THEN cands[l] ELSE Nothing
    BY <1>1, <2>1 DEF Shifted
  <2>3. tracks[l].age \in Nat /\ i \in Nat
    BY <2>1, TrackFields, DwellAssumption DEF DwellAssumption
  <2>4. CASE i > 1
    <3>1. i - 1 \in 1..DwellPolls /\ i - 1 <= tracks[l].age
      BY <1>2, <1>3, <2>3, <2>4, DwellAssumption DEF DwellAssumption
    <3>2. past[l][i - 1] = Sight(tracks[l])
      BY <1>1, <1>2, <3>1 DEF SteadyInv, Vouches, Judging
    <3> QED BY <1>2, <2>2, <2>4, <3>2
  <2>5. CASE ~(i > 1)
    <3>1. l \in DOMAIN cands /\ Sight(tracks[l]) = cands[l]
      BY <1>1, <1>2 DEF SteadyInv, Judged, Judging
    <3> QED BY <1>2, <2>2, <2>5, <3>1
  <2> QED BY <2>4, <2>5
<1>4. Vouches' BY <1>1, <1>3 DEF Vouches, Judging
<1> QED BY <1>1, <1>4 DEF SteadyInv, Judged, Judging, Confirming

LEMMA NextSteady == SteadyInv /\ [Next]_vars => SteadyInv'
<1> SUFFICES ASSUME SteadyInv, [Next]_vars PROVE SteadyInv' OBVIOUS
<1>1. Types' BY NextTypes DEF SteadyInv
<1>2. CASE UNCHANGED <<cands, fresh, tracks, past, pending, stage>>
  BY <1>1, <1>2, SteadyKept
<1>3. CASE (\E enabled, resolved \in BOOLEAN : Install(enabled, resolved)) \/ WakeUp
  <2>1. UNCHANGED <<cands, fresh, tracks, past>> /\ Scanning
        /\ stage' \in {"sleep", "snapshot", "done"}
    BY <1>3 DEF Install, WakeUp, Scanning
  <2>2. stage' = "done" \/ Scanning' BY <2>1 DEF Scanning
  <2> QED BY <1>1, <2>1, <2>2, SteadyKept
<1>4. CASE OnDataLoaded \/ Stop \/ GameStep \/ (\E t \in Threads : SnapshotThread(t))
           \/ UNCHANGED vars
  BY <1>2, <1>4 DEF OnDataLoaded, Stop, GameStep, SnapshotThread, vars
<1>5. CASE SnapshotEnd \/ (\E t \in Threads : Collect(t))
  <2>1. UNCHANGED <<fresh, tracks, past, pending>> /\ Scanning /\ Scanning' /\ ~Judging'
        /\ stage' \notin {"recheck", "owner", "word", "act"}
    BY <1>5 DEF SnapshotEnd, Collect, Scanning, Judging
  <2> QED BY <1>1, <2>1 DEF SteadyInv, Vouches, Judged, Confirming
<1>6. CASE CollectEnd BY <1>1, <1>6, CollectEndSteady
<1>7. CASE \E l \in Locks : Judge(l) BY <1>1, <1>7, JudgeSteady
<1>8. CASE Recheck
  <2>1. UNCHANGED <<cands, fresh, tracks, past>> /\ stage = "recheck"
        /\ (stage' = "done" \/ (stage' = "owner" /\ pending' = pending))
    BY <1>8 DEF Recheck
  <2> QED BY <1>1, <2>1, SteadyKept
<1>9. CASE ReproveOwner
  <2>1. UNCHANGED <<cands, fresh, past>> /\ stage = "owner"
        /\ (StandDown \/ (stage' = "word" /\ UNCHANGED <<tracks, pending>>))
    BY <1>9 DEF ReproveOwner
  <2>2. CASE StandDown BY <1>1, <2>1, <2>2, StandDownSteady
  <2>3. CASE stage' = "word" /\ UNCHANGED <<tracks, pending>>
    BY <1>1, <2>1, <2>3, SteadyKept
  <2> QED BY <2>1, <2>2, <2>3
<1>10. CASE ReproveWord BY <1>1, <1>10, ReproveWordSteady
<1>11. CASE HandleConfirmed
  <2>1. UNCHANGED <<cands, fresh, tracks, past>> /\ Judging /\ stage' = "judge"
    BY <1>11 DEF HandleConfirmed, Judging
  <2> QED BY <1>1, <2>1, SteadyKept
<1>12. CASE PollEnd BY <1>1, <1>12, PollEndSteady
<1> QED BY <1>3, <1>4, <1>5, <1>6, <1>7, <1>8, <1>9, <1>10, <1>11, <1>12
        DEF Next, WatchdogStep

\* The one step that clears a lock, and what is known when it does.
LEMMA ClearStep ==
    ASSUME SteadyInv, [Next]_vars, NEW l \in Locks, stage = "act", stage' = "judge",
           owner[l] # NoThread, owner'[l] = NoThread
    PROVE  /\ ~detectOnly
           /\ l = pending /\ owner[l] = cands[l].owner
           /\ \A i \in 1..DwellPolls : past[l][i] = cands[l]
<1>1. HandleConfirmed
  BY DEF Next, Install, OnDataLoaded, Stop, WatchdogStep, WakeUp, SnapshotThread, Collect,
         SnapshotEnd, CollectEnd, Judge, Recheck, ReproveOwner, ReproveWord, PollEnd,
         GameStep, vars
<1>2. LockTypeOK /\ Pending BY TypeParts DEF SteadyInv, Types
<1>3. ~detectOnly /\ owner' = [owner EXCEPT ![pending] = NoThread]
      /\ owner[pending] = cands[pending].owner
  BY <1>1 DEF HandleConfirmed, ForceRelease
<1>4. l = pending BY <1>2, <1>3 DEF LockTypeOK
<1>5. pending \in DOMAIN tracks /\ pending \in DOMAIN cands BY <1>2, <1>4 DEF Pending
<1>6. pending \notin fresh /\ tracks[pending].age = DwellPolls
  BY DEF SteadyInv, Confirming
<1>7. Sight(tracks[pending]) = cands[pending]
  BY <1>5, <1>6 DEF SteadyInv, Judged, Judging
<1>8. ASSUME NEW i \in 1..DwellPolls PROVE past[pending][i] = Sight(tracks[pending])
  <2>1. i <= tracks[pending].age BY <1>6, DwellAssumption DEF DwellAssumption
  <2> QED BY <1>5, <2>1 DEF SteadyInv, Vouches, Judging
<1> QED BY <1>3, <1>4, <1>7, <1>8

LEMMA ClearAction ==
    SteadyInv /\ [Next]_vars =>
        [\A l \in Locks :
            stage = "act" /\ owner[l] # NoThread /\ owner'[l] = NoThread /\ doing' = doing
            /\ want' = want /\ stage' = "judge" =>
               /\ ~detectOnly
               /\ l = pending /\ owner[l] = cands[l].owner
               /\ \A i \in 1..DwellPolls : past[l][i] = cands[l]]_vars
BY ClearStep

LEMMA ConfirmAction ==
    SteadyInv => [stage = "recheck" /\ stage' = "owner" => ~tracks[pending].handled]_vars
BY DEF SteadyInv, Confirming

\* Whatever the dwell, however many threads and locks there are and however they
\* move between any two reads: only a lock that was seen unchanged in every poll
\* of the dwell is cleared, in active mode, and a stay is acted on once
\* (LeakedSpinLockBreaker.h:31-37, .cpp 441-467).
THEOREM LeaksOnly == Spec => ActsOnLeaksOnly
<1>1. Spec => []SteadyInv BY InitSteady, NextSteady, PTL DEF Spec
<1> QED BY <1>1, ClearAction, ConfirmAction, PTL
        DEF Spec, ActsOnLeaksOnly, ClearsOnlySteadyLocks, OneConfirmation
=============================================================================
