--------------------------- MODULE WatchdogProofs ---------------------------
(***************************************************************************)
(* The safety of the watchdog for every threshold, cooldown and clock.     *)
(*                                                                         *)
(* What has to be strengthened is the relation between three times: the    *)
(* last beat of a captured thread, the snapshot that captured it, and the  *)
(* reading of the clock in the poll that may end its freeze.  Ordered and  *)
(* StuckIsOld say it; the rest follows.                                    *)
(***************************************************************************)
EXTENDS Watchdog, TLAPS

Reading == {"main", "render", "focus", "hung"}

\* Where the loop is once it has read the beat of w.
HasRead(w) == IF w = "main" THEN {"render", "focus", "hung"} ELSE {"focus", "hung"}

\* No time on record lies ahead of the clock, and a poll reads the clock after
\* the last snapshot was stamped.
Ordered == /\ state.last_snapshot_at <= clock
           /\ seen.now <= clock
           /\ loop \in Reading => state.last_snapshot_at <= seen.now

\* A thread that has not beaten since it was captured has beaten before, more
\* than a threshold before the last snapshot, and is read as it is.
StuckIsOld ==
    \A w \in stuck :
        /\ beat[w] # 0
        /\ beat[w] + Threshold < state.last_snapshot_at
        /\ loop \in HasRead(w) => seen.beat[w] = beat[w]

Inv == TypeOK /\ Ordered /\ StuckIsOld /\ LatchesExclusive /\ WarnedBeforeSnapshot

Seen  == [now : Nat, beat : [Watched -> Nat], fg : BOOLEAN]
State == [last_snapshot_at : Nat, in_freeze : BOOLEAN, suppressed_freeze : BOOLEAN,
          freeze_started_at : Nat, freeze_thread : SUBSET Watched]
-----------------------------------------------------------------------------
(***************************************************************************)
(* Type correctness.                                                       *)
(***************************************************************************)
\* The age of a heartbeat is a natural number: the subtraction is guarded.
LEMMA AgeType == ASSUME TypeOK, NEW w \in Watched PROVE Age(w) \in Nat
<1>1. seen.beat[w] \in Nat /\ seen.now \in Nat BY DEF TypeOK
<1>2. QED BY <1>1 DEF Age

\* What the game does keeps the types (MainHook and RenderHook tick).
LEMMA GameType == ASSUME TypeOK, Game PROVE TypeOK'
<1> USE ClockAssumption DEF Modes, Phases
<1>1. CASE Tick
  <2>1. clock' \in Nat /\ pumped' \in Nat BY <1>1 DEF TypeOK, Tick
  <2>2. beat' \in [Watched -> Nat] BY <1>1, <2>1 DEF TypeOK, Tick
  <2>3. stuck' \in SUBSET Watched BY <1>1 DEF TypeOK, Tick
  <2>4. QED BY <1>1, <2>1, <2>2, <2>3 DEF TypeOK, Tick
<1>2. ASSUME NEW w \in Watched, NEW m \in Modes, Resumes(w, m), pumped' \in Nat
      PROVE TypeOK'
  <2>1. mode' \in [Watched -> Modes] BY <1>2 DEF TypeOK, Resumes
  <2>2. beat' \in [Watched -> Nat] BY <1>2 DEF TypeOK, Resumes
  <2>3. stuck' \in SUBSET Watched BY <1>2 DEF TypeOK, Resumes
  <2>4. QED BY <1>2, <2>1, <2>2, <2>3 DEF TypeOK, Resumes
<1>3. ASSUME NEW w \in Watched, NEW m \in Modes, Enters(w, m) PROVE TypeOK'
  <2>1. mode' \in [Watched -> Modes] BY <1>3 DEF TypeOK, Enters
  <2>2. QED BY <1>3, <2>1 DEF TypeOK, Enters
<1>4. CASE TickMain \/ TickRender \/ WakeUp
  BY <1>2, <1>4 DEF TickMain, TickRender, WakeUp, Watched, TypeOK
<1>5. ASSUME NEW w \in Watched, Thaw(w) PROVE TypeOK'
  BY <1>2, <1>5 DEF Thaw, TypeOK
<1>6. ASSUME NEW w \in Watched, Freeze(w) PROVE TypeOK'
  BY <1>3, <1>6 DEF Freeze
<1>7. CASE FallIdle BY <1>3, <1>7 DEF FallIdle, Watched
<1>8. CASE ChangeFocus BY <1>8 DEF TypeOK, ChangeFocus
<1>9. QED BY <1>1, <1>4, <1>5, <1>6, <1>7, <1>8 DEF Game

\* One poll keeps the types: Step and MaybeLogEarlyWarning.
LEMMA PollType == ASSUME TypeOK, Poll PROVE TypeOK'
<1>1. Classify \in SUBSET Watched BY DEF Classify
<1>2. state \in State /\ seen.now \in Nat BY DEF TypeOK, State
<1>3. state' \in State
  <2>1. CASE SuppressedStall BY <2>1, <1>1, <1>2 DEF SuppressedStall, State
  <2>2. CASE CoolingDown BY <2>2, <1>2 DEF CoolingDown
  <2>3. CASE EmitSnapshot BY <2>3, <1>1, <1>2 DEF EmitSnapshot, State
  <2>4. CASE AnnotateResolve BY <2>4, <1>2 DEF AnnotateResolve, State
  <2>5. CASE ClearSuppressed BY <2>5, <1>2 DEF ClearSuppressed, State
  <2>6. CASE NoAction BY <2>6, <1>2 DEF NoAction
  <2>7. QED BY <2>1, <2>2, <2>3, <2>4, <2>5, <2>6 DEF Poll
<1>4. stuck' \in SUBSET Watched
  BY <1>1 DEF TypeOK, Poll, SuppressedStall, CoolingDown, EmitSnapshot, AnnotateResolve,
              ClearSuppressed, NoAction
<1>5. loop' \in Phases
  BY DEF Poll, SuppressedStall, CoolingDown, EmitSnapshot, AnnotateResolve,
         ClearSuppressed, NoAction, Phases
<1>6. armed' \in BOOLEAN BY Zenon DEF Poll, MaybeLogEarlyWarning
<1>7. seen' \in Seen BY DEF Poll, NoPoll, Seen
<1>8. UNCHANGED <<clock, mode, beat, pumped, focus>> BY DEF Poll, game
<1>9. QED BY <1>3, <1>4, <1>5, <1>6, <1>7, <1>8 DEF TypeOK, State, Seen

\* So does every step.
LEMMA NextType == TypeOK /\ [Next]_vars => TypeOK'
<1> SUFFICES ASSUME TypeOK, [Next]_vars PROVE TypeOK' OBVIOUS
<1> USE DEF game
<1>1. CASE Game BY <1>1, GameType
<1>2. CASE Start BY <1>2 DEF TypeOK, Start, Phases
<1>3. CASE ReadNow
  <2>1. seen' \in Seen BY <1>3 DEF TypeOK, ReadNow, Seen
  <2>2. QED BY <1>3, <2>1 DEF TypeOK, ReadNow, Phases, Seen
<1>4. ASSUME NEW w \in Watched, ReadBeat(w) PROVE TypeOK'
  <2>1. seen' \in Seen BY <1>4 DEF TypeOK, ReadBeat, Seen
  <2>2. QED BY <1>4, <2>1 DEF TypeOK, ReadBeat, Phases, Seen
<1>5. CASE ForegroundIsOurs
  <2>1. seen' \in Seen BY <1>5 DEF TypeOK, ForegroundIsOurs, Seen
  <2>2. QED BY <1>5, <2>1 DEF TypeOK, ForegroundIsOurs, Phases, Seen
<1>6. CASE Poll BY <1>6, PollType
<1>7. CASE ReportDone BY <1>7 DEF TypeOK, ReportDone, Phases
<1>8. CASE UNCHANGED vars BY <1>8 DEF TypeOK, vars
<1>9. QED BY <1>1, <1>2, <1>3, <1>4, <1>5, <1>6, <1>7, <1>8 DEF Next, Loop
-----------------------------------------------------------------------------
(***************************************************************************)
(* The invariant.                                                          *)
(***************************************************************************)
LEMMA InitInv == Init => Inv
<1> SUFFICES ASSUME Init PROVE Inv OBVIOUS
<1>1. /\ mode \in [Watched -> Modes] /\ beat \in [Watched -> Nat]
      /\ seen \in Seen /\ state \in State
  BY DEF Init, NoPoll, Healthy, Modes, Seen, State
<1>2. TypeOK BY <1>1 DEF Init, TypeOK, Phases, Seen, State
<1>3. Ordered BY DEF Init, Ordered, NoPoll, Healthy, Reading
<1>4. StuckIsOld /\ LatchesExclusive /\ WarnedBeforeSnapshot
  BY DEF Init, StuckIsOld, LatchesExclusive, WarnedBeforeSnapshot, Healthy
<1>5. QED BY <1>2, <1>3, <1>4 DEF Inv

\* The game beats, freezes and idles without touching what the loop has on
\* record; a thread that beats is no longer stuck.
LEMMA GameInv == ASSUME Inv, Game PROVE Ordered' /\ StuckIsOld'
<1>1. /\ loop' = loop /\ seen' = seen /\ state' = state
  BY DEF Game, Tick, TickMain, TickRender, WakeUp, FallIdle, ChangeFocus, Freeze, Thaw,
         Resumes, Enters
<1>2. clock \in Nat /\ clock' \in Nat /\ clock <= clock'
  BY DEF Inv, TypeOK, Game, Tick, TickMain, TickRender, WakeUp, FallIdle, ChangeFocus,
         Freeze, Thaw, Resumes, Enters
<1>3. state.last_snapshot_at \in Nat /\ seen.now \in Nat BY DEF Inv, TypeOK
<1>4. Ordered' BY <1>1, <1>2, <1>3 DEF Inv, Ordered
<1>5. stuck' \subseteq stuck /\ \A w \in stuck' : beat'[w] = beat[w]
  <2> USE DEF Inv, TypeOK
  <2>1. CASE Tick BY <2>1 DEF Tick
  <2>2. ASSUME NEW w \in Watched, NEW m \in Modes, Resumes(w, m)
        PROVE stuck' \subseteq stuck /\ \A v \in stuck' : beat'[v] = beat[v]
    BY <2>2 DEF Resumes
  <2>3. CASE TickMain \/ TickRender \/ WakeUp
    BY <2>2, <2>3 DEF TickMain, TickRender, WakeUp, Watched, Modes
  <2>4. ASSUME NEW w \in Watched, Thaw(w)
        PROVE stuck' \subseteq stuck /\ \A v \in stuck' : beat'[v] = beat[v]
    BY <2>2, <2>4 DEF Thaw, Modes
  <2>5. CASE FallIdle \/ ChangeFocus \/ \E w \in Watched : Freeze(w)
    BY <2>5 DEF FallIdle, ChangeFocus, Freeze, Enters
  <2>6. QED BY <2>1, <2>3, <2>4, <2>5 DEF Game
<1>6. StuckIsOld' BY <1>1, <1>5 DEF Inv, StuckIsOld
<1>7. QED BY <1>4, <1>6

\* The readings keep a stuck thread's beat and the order of the times.
LEMMA ReadInv ==
    ASSUME Inv,
           Start \/ ReadNow \/ ForegroundIsOurs \/ ReportDone
             \/ \E w \in Watched : ReadBeat(w)
    PROVE  Ordered' /\ StuckIsOld' /\ LatchesExclusive' /\ WarnedBeforeSnapshot'
<1> USE DEF Inv
<1>1. UNCHANGED <<clock, beat, state, stuck, armed>>
  BY DEF Start, ReadNow, ForegroundIsOurs, ReportDone, ReadBeat, game
<1>2. LatchesExclusive' BY <1>1 DEF LatchesExclusive
<1>3. WarnedBeforeSnapshot'
  BY <1>1 DEF Start, ReadNow, ForegroundIsOurs, ReportDone, ReadBeat, WarnedBeforeSnapshot,
              Watched
<1>4. /\ clock \in Nat /\ state.last_snapshot_at \in Nat /\ seen.now \in Nat
      /\ stuck \subseteq Watched
  BY DEF TypeOK
<1>5. Ordered'
  <2>1. CASE ReadNow
    <3>1. seen'.now = clock BY <2>1 DEF ReadNow, TypeOK
    <3>2. QED BY <3>1, <1>1, <1>4 DEF Ordered
  <2>2. CASE Start \/ ReportDone
    BY <2>2, <1>1, <1>4 DEF Start, ReportDone, Ordered, Reading
  <2>3. ASSUME NEW w \in Watched, ReadBeat(w) PROVE Ordered'
    <3>1. seen'.now = seen.now /\ loop \in Reading
      BY <2>3 DEF ReadBeat, TypeOK, Watched, Reading
    <3>2. QED BY <3>1, <1>1, <1>4 DEF Ordered
  <2>4. CASE ForegroundIsOurs
    <3>1. seen'.now = seen.now /\ loop \in Reading
      BY <2>4 DEF ForegroundIsOurs, TypeOK, Reading
    <3>2. QED BY <3>1, <1>1, <1>4 DEF Ordered
  <2>5. QED BY <2>1, <2>2, <2>3, <2>4
<1>6. ASSUME NEW v \in stuck, loop' \in HasRead(v) PROVE seen'.beat[v] = beat[v]
  <2>1. CASE Start \/ ReadNow \/ ReportDone
    BY <2>1, <1>6 DEF Start, ReadNow, ReportDone, HasRead
  <2>2. CASE ForegroundIsOurs
    <3>1. seen'.beat = seen.beat /\ loop \in HasRead(v)
      BY <2>2 DEF ForegroundIsOurs, TypeOK, HasRead
    <3>2. QED BY <3>1 DEF StuckIsOld
  <2>3. ASSUME NEW w \in Watched, ReadBeat(w) PROVE seen'.beat[v] = beat[v]
    <3>1. seen'.beat = [seen.beat EXCEPT ![w] = beat[w]]
      BY <2>3 DEF ReadBeat, TypeOK
    <3>2. v \in Watched /\ seen.beat \in [Watched -> Nat] BY <1>4 DEF TypeOK
    <3>3. CASE v = w BY <3>1, <3>2, <3>3
    <3>4. CASE v # w
      <4>1. loop \in HasRead(v)
        BY <2>3, <3>2, <3>4, <1>6 DEF ReadBeat, HasRead, Watched
      <4>2. QED BY <4>1, <3>1, <3>2, <3>4 DEF StuckIsOld
    <3>5. QED BY <3>3, <3>4
  <2>4. QED BY <2>1, <2>2, <2>3
<1>7. StuckIsOld' BY <1>1, <1>6 DEF StuckIsOld
<1>8. QED BY <1>2, <1>3, <1>5, <1>7

\* A stall that a poll reports is past the threshold by the reading of the clock.
LEMMA ClassifiedIsOld ==
    ASSUME TypeOK, NEW w \in Classify
    PROVE  w \in Watched /\ seen.beat[w] # 0 /\ seen.beat[w] + Threshold < seen.now
<1>1. w \in Watched /\ Age(w) > Threshold BY DEF Classify
<1>2. seen.beat[w] \in Nat /\ seen.now \in Nat BY <1>1 DEF TypeOK
<1>3. QED BY <1>1, <1>2, ThresholdAssumption DEF Age

\* A stuck thread is stalled in the eyes of every poll.
LEMMA StuckIsClassified == ASSUME Inv, loop = "hung" PROVE stuck \subseteq Classify
<1> SUFFICES ASSUME NEW w \in stuck PROVE w \in Classify OBVIOUS
<1>1. /\ w \in Watched /\ beat[w] \in Nat
      /\ seen.now \in Nat /\ state.last_snapshot_at \in Nat
  BY DEF Inv, TypeOK
<1>2. state.last_snapshot_at <= seen.now BY DEF Inv, Ordered, Reading
<1>3. beat[w] # 0 /\ beat[w] + Threshold < state.last_snapshot_at BY DEF Inv, StuckIsOld
<1>4. seen.beat[w] = beat[w] BY DEF Inv, StuckIsOld, HasRead
<1>5. Age(w) > Threshold BY <1>1, <1>2, <1>3, <1>4, ThresholdAssumption DEF Age
<1>6. QED BY <1>1, <1>5 DEF Classify

\* What Step does to the record: the cases of a poll.
LEMMA PollInv ==
    ASSUME Inv, Poll
    PROVE  Ordered' /\ StuckIsOld' /\ LatchesExclusive' /\ WarnedBeforeSnapshot'
<1> USE DEF Inv
<1>1. /\ clock' = clock /\ beat' = beat /\ loop = "hung" /\ seen'.now = 0
      /\ armed' = (canTrip /\ HalfWay)
  BY DEF Poll, game, NoPoll, MaybeLogEarlyWarning
<1>2. /\ clock \in Nat /\ state.last_snapshot_at \in Nat /\ seen.now \in Nat
      /\ stuck \subseteq Watched /\ beat \in [Watched -> Nat] /\ state \in State
  BY DEF TypeOK, State
<1>3. state.last_snapshot_at <= seen.now /\ seen.now <= clock
  BY <1>1 DEF Ordered, Reading
<1>4. CASE EmitSnapshot
  <2>1. /\ state'.last_snapshot_at = seen.now /\ state'.in_freeze
        /\ ~state'.suppressed_freeze /\ state'.freeze_thread = Classify
        /\ Classify # {} /\ canTrip /\ loop' = "capture"
        /\ stuck' = {w \in Classify : beat[w] = seen.beat[w]}
    BY <1>4 DEF EmitSnapshot
  <2>2. Ordered' BY <2>1, <1>1, <1>2, <1>3 DEF Ordered, Reading
  <2>3. StuckIsOld'
    BY <2>1, <1>1, ClassifiedIsOld DEF StuckIsOld, HasRead
  <2>4. LatchesExclusive' BY <2>1 DEF LatchesExclusive
  <2>5. PICK w \in Watched : Age(w) > Threshold BY <2>1 DEF Classify
  <2>6. Age(w) > Threshold \div 2 BY <2>5, AgeType, ThresholdAssumption
  <2>7. HalfWay BY <2>5, <2>6 DEF HalfWay
  <2>8. armed' BY <1>1, <2>1, <2>7, Zenon
  <2>9. QED BY <2>2, <2>3, <2>4, <2>8 DEF WarnedBeforeSnapshot
<1>5. ASSUME ~EmitSnapshot
      PROVE  Ordered' /\ StuckIsOld' /\ LatchesExclusive' /\ WarnedBeforeSnapshot'
  <2>1. /\ state'.last_snapshot_at = state.last_snapshot_at /\ stuck' = stuck
        /\ loop' \in {"sleep", "annotate"}
    BY <1>5, <1>2 DEF Poll, SuppressedStall, CoolingDown, AnnotateResolve, ClearSuppressed,
                      NoAction, State
  <2>2. Ordered' BY <2>1, <1>1, <1>2, <1>3 DEF Ordered, Reading
  <2>3. StuckIsOld' BY <2>1, <1>1 DEF StuckIsOld, HasRead
  <2>4. WarnedBeforeSnapshot' BY <2>1 DEF WarnedBeforeSnapshot
  <2>5. LatchesExclusive'
    <3> USE DEF LatchesExclusive
    <3>1. CASE SuppressedStall BY <3>1, <1>2 DEF SuppressedStall, State
    <3>2. CASE CoolingDown BY <3>2 DEF CoolingDown
    <3>3. CASE AnnotateResolve BY <3>3, <1>2 DEF AnnotateResolve, State
    <3>4. CASE ClearSuppressed BY <3>4, <1>2 DEF ClearSuppressed, State
    <3>5. CASE NoAction BY <3>5 DEF NoAction
    <3>6. QED BY <1>5, <3>1, <3>2, <3>3, <3>4, <3>5 DEF Poll
  <2>6. QED BY <2>2, <2>3, <2>4, <2>5
<1>6. QED BY <1>4, <1>5

LEMMA NextInv == Inv /\ [Next]_vars => Inv'
<1> SUFFICES ASSUME Inv, [Next]_vars PROVE Inv' OBVIOUS
<1>1. TypeOK' BY NextType DEF Inv
<1>2. CASE Game
  <2>1. UNCHANGED <<loop, state, armed>>
    BY <1>2 DEF Game, Tick, TickMain, TickRender, WakeUp, FallIdle, ChangeFocus, Freeze,
                Thaw, Resumes, Enters
  <2>2. LatchesExclusive' /\ WarnedBeforeSnapshot'
    BY <2>1 DEF Inv, LatchesExclusive, WarnedBeforeSnapshot
  <2>3. QED BY <1>1, <1>2, <2>2, GameInv DEF Inv
<1>3. CASE Start \/ ReadNow \/ ForegroundIsOurs \/ ReportDone
             \/ \E w \in Watched : ReadBeat(w)
  BY <1>1, <1>3, ReadInv DEF Inv
<1>4. CASE Poll BY <1>1, <1>4, PollInv DEF Inv
<1>5. CASE UNCHANGED vars
  BY <1>1, <1>5 DEF Inv, vars, game, Ordered, StuckIsOld, LatchesExclusive,
                    WarnedBeforeSnapshot
<1>6. QED BY <1>2, <1>3, <1>4, <1>5 DEF Next, Loop
-----------------------------------------------------------------------------
(***************************************************************************)
(* The theorems.                                                           *)
(***************************************************************************)
\* The invariant holds in every state the watchdog and the game reach.
THEOREM Invariance == Spec => []Inv
BY InitInv, NextInv, PTL DEF Spec

\* Every variable has its type: no age, no time on record is negative.
THEOREM TypeCorrect == Spec => []TypeOK
<1>1. Inv => TypeOK BY DEF Inv
<1>2. QED BY Invariance, <1>1, PTL

\* in_freeze and suppressed_freeze exclude each other (Watchdog.h:71-72).
THEOREM Latches == Spec => []LatchesExclusive
<1>1. Inv => LatchesExclusive BY DEF Inv
<1>2. QED BY Invariance, <1>1, PTL

\* A capture is always preceded by its early warning (Watchdog.cpp:88-92).
THEOREM Warned == Spec => []WarnedBeforeSnapshot
<1>1. Inv => WarnedBeforeSnapshot BY DEF Inv
<1>2. QED BY Invariance, <1>1, PTL

\* A captured thread that has not moved since is past the threshold, in any
\* interleaving of its beats with the readings (Watchdog.cpp:151-153).
THEOREM Stale == Spec => []CapturesAreStale
<1>1. Inv => CapturesAreStale
  <2> SUFFICES ASSUME Inv, NEW w \in stuck PROVE clock - beat[w] > Threshold
    BY DEF CapturesAreStale
  <2>1. /\ w \in Watched /\ beat[w] \in Nat /\ clock \in Nat
        /\ state.last_snapshot_at \in Nat
    BY DEF Inv, TypeOK
  <2>2. beat[w] + Threshold < state.last_snapshot_at /\ state.last_snapshot_at <= clock
    BY DEF Inv, StuckIsOld, Ordered
  <2>3. QED BY <2>1, <2>2, ThresholdAssumption
<1>2. QED BY Invariance, <1>1, PTL

\* Snapshots are at least a cooldown apart (Watchdog.h:144-150).
THEOREM Spaced == Spec => SnapshotsSpaced
<1>1. Inv /\ [Next]_vars =>
        [state'.last_snapshot_at # state.last_snapshot_at /\ state.last_snapshot_at # 0
           => state'.last_snapshot_at >= state.last_snapshot_at + Cooldown]_vars
  <2> SUFFICES ASSUME Inv, Next, state'.last_snapshot_at # state.last_snapshot_at,
                      state.last_snapshot_at # 0
               PROVE  state'.last_snapshot_at >= state.last_snapshot_at + Cooldown
    OBVIOUS
  <2>1. state' # state OBVIOUS
  <2>2. ~Game
    BY <2>1 DEF Game, Tick, TickMain, TickRender, WakeUp, FallIdle, ChangeFocus, Freeze,
                Thaw, Resumes, Enters
  <2>3. Poll
    BY <2>1, <2>2 DEF Next, Loop, Start, ReadNow, ReadBeat, ForegroundIsOurs, ReportDone
  <2>4. state \in State /\ seen.now \in Nat BY DEF Inv, TypeOK, State
  <2>5. EmitSnapshot
    BY <2>3, <2>4 DEF Poll, SuppressedStall, CoolingDown, AnnotateResolve,
                      ClearSuppressed, NoAction, State
  <2>6. state'.last_snapshot_at = seen.now /\ ~inCooldown BY <2>5 DEF EmitSnapshot
  <2>7. QED BY <2>4, <2>6, CooldownAssumption DEF inCooldown, State
<1>2. QED BY <1>1, Invariance, PTL DEF Spec, SnapshotsSpaced

\* A freeze is closed only when every thread it captured has beaten again
\* (Watchdog.h:163-170), though the beats are read one after the other.
THEOREM Resolved == Spec => ResolvedMeansBeaten
<1>1. Inv /\ [Next]_vars => [state.in_freeze /\ ~state'.in_freeze => stuck = {}]_vars
  <2> SUFFICES ASSUME Inv, Next, state.in_freeze, ~state'.in_freeze PROVE stuck = {}
    OBVIOUS
  <2>1. state' # state OBVIOUS
  <2>2. ~Game
    BY <2>1 DEF Game, Tick, TickMain, TickRender, WakeUp, FallIdle, ChangeFocus, Freeze,
                Thaw, Resumes, Enters
  <2>3. Poll
    BY <2>1, <2>2 DEF Next, Loop, Start, ReadNow, ReadBeat, ForegroundIsOurs, ReportDone
  <2>4. loop = "hung" BY <2>3 DEF Poll
  <2>5. Classify = {}
    BY <2>1, <2>3 DEF Poll, SuppressedStall, CoolingDown, EmitSnapshot, AnnotateResolve,
                ClearSuppressed, NoAction
  <2>6. QED BY <2>4, <2>5, StuckIsClassified
<1>2. QED BY <1>1, Invariance, PTL DEF Spec, ResolvedMeansBeaten
=============================================================================
