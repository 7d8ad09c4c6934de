------------------------------ MODULE Watchdog ------------------------------
(***************************************************************************)
(* The freeze detector of FreezeLogger (Watchdog.h, Watchdog.cpp): the     *)
(* heartbeats that the hooks of the main and the render thread write, and  *)
(* the loop that reads them, decides with Step whether to capture, hold,   *)
(* suppress or annotate, and keeps the early warning in the log.           *)
(*                                                                         *)
(* A reading of the clock, of the heartbeats, of the foreground window and *)
(* of the hung flag are steps of their own: the game, its window and its   *)
(* user go on between them, and while a capture runs.  Time is counted in  *)
(* units in which a healthy thread beats at least once.                    *)
(***************************************************************************)
EXTENDS Naturals

CONSTANTS
    Threshold,   \* watchdog.threshold_ms
    Cooldown,    \* watchdog.snapshot_cooldown_s
    Annotates,   \* watchdog.annotate_on_resolve
    HungAfter,   \* IsHungAppWindow: time without a message being pumped
    MaxTime      \* bound: the last value of the clock

ASSUME ThresholdAssumption == Threshold \in Nat
ASSUME CooldownAssumption  == Cooldown \in Nat
ASSUME AnnotatesAssumption == Annotates \in BOOLEAN
ASSUME ClockAssumption     == HungAfter \in Nat /\ MaxTime \in Nat \ {0}

VARIABLES
    clock,    \* GetTickCount64
    mode,     \* what each watched thread is doing
    beat,     \* g_main and g_render, 0 until the first tick
    pumped,   \* when the main window last processed a message
    focus,    \* is the foreground window ours?
    loop,     \* where the watchdog thread is
    seen,     \* the locals of the current poll
    state,    \* Watchdog::State
    armed,    \* EarlyWarn::armed
    stuck     \* threads that have not beaten since they were captured stalled

game == <<clock, mode, beat, pumped, focus>>
vars == <<game, loop, seen, state, armed, stuck>>

Watched == {"main", "render"}
Modes   == {"unhooked",  \* the hook has not run yet
            "running",
            "idle",      \* WinMain of an unfocused game: pumps, does not update
            "frozen"}
Phases  == {"off", "sleep", "main", "render", "focus", "hung", "capture", "annotate"}

\* A StalledThread is the set of the threads that are stalled.
NoPoll == [now |-> 0, beat |-> [w \in Watched |-> 0], fg |-> FALSE]
Healthy == [last_snapshot_at |-> 0, in_freeze |-> FALSE, suppressed_freeze |-> FALSE,
            freeze_started_at |-> 0, freeze_thread |-> {}]

TypeOK == /\ clock  \in Nat
          /\ mode   \in [Watched -> Modes]
          /\ beat   \in [Watched -> Nat]
          /\ pumped \in Nat
          /\ focus  \in BOOLEAN
          /\ loop   \in Phases
          /\ seen   \in [now : Nat, beat : [Watched -> Nat], fg : BOOLEAN]
          /\ state  \in [last_snapshot_at : Nat, in_freeze : BOOLEAN,
                         suppressed_freeze : BOOLEAN, freeze_started_at : Nat,
                         freeze_thread : SUBSET Watched]
          /\ armed  \in BOOLEAN
          /\ stuck  \in SUBSET Watched

Init == /\ clock  = 1
        /\ mode   = [w \in Watched |-> "unhooked"]
        /\ beat   = [w \in Watched |-> 0]
        /\ pumped = 1
        /\ focus  = TRUE
        /\ loop   = "off"
        /\ seen   = NoPoll
        /\ state  = Healthy
        /\ armed  = FALSE
        /\ stuck  = {}

(***************************************************************************)
(* The game.  A running thread beats in every unit of time; an unfocused   *)
(* game may go idle, and then draws no frames either.                      *)
(***************************************************************************)
Beats(w) == mode[w] = "running" /\ mode["main"] # "idle"

Tick ==
    /\ clock < MaxTime
    /\ clock'  = clock + 1
    /\ beat'   = [w \in Watched |-> IF Beats(w) THEN clock' ELSE beat[w]]
    /\ stuck'  = {w \in stuck : ~Beats(w)}
    /\ pumped' = IF mode["main"] = "frozen" THEN pumped ELSE clock'
    /\ UNCHANGED <<mode, focus, loop, seen, state, armed>>

\* A thread gets from mode m into Main::Update or Present and ticks.
Resumes(w, m) ==
    /\ mode[w] = m
    /\ mode'  = [mode EXCEPT ![w] = "running"]
    /\ beat'  = [beat EXCEPT ![w] = clock]
    /\ stuck' = stuck \ {w}
    /\ UNCHANGED <<clock, focus, loop, seen, state, armed>>

TickMain   == Resumes("main", "unhooked")   /\ UNCHANGED pumped
TickRender == Resumes("render", "unhooked") /\ UNCHANGED pumped
Thaw(w)    == Resumes(w, "frozen") /\ pumped' = IF w = "main" THEN clock ELSE pumped
WakeUp     == focus /\ Resumes("main", "idle") /\ UNCHANGED pumped

Enters(w, m) == /\ mode' = [mode EXCEPT ![w] = m]
                /\ UNCHANGED <<clock, beat, pumped, focus, loop, seen, state, armed, stuck>>

Freeze(w) == mode[w] \in {"running", "idle"} /\ Enters(w, "frozen")
FallIdle  == ~focus /\ mode["main"] = "running" /\ Enters("main", "idle")

ChangeFocus == /\ focus' = ~focus
               /\ UNCHANGED <<clock, mode, beat, pumped, loop, seen, state, armed, stuck>>

Game == \/ Tick \/ TickMain \/ TickRender \/ WakeUp \/ FallIdle \/ ChangeFocus
        \/ \E w \in Watched : Freeze(w) \/ Thaw(w)

(***************************************************************************)
(* Loop: sleep, then five readings, the last of them in Poll.              *)
(***************************************************************************)
\* Deviation: no sentinel for "no snapshot yet": the loop starts as if a
\* cooldown had just passed, which underflows on a machine just started.
StartBackdates ==
    /\ loop = "off" /\ loop' = "sleep"
    /\ state' = [state EXCEPT !.last_snapshot_at = clock - Cooldown]
    /\ UNCHANGED <<game, seen, armed, stuck>>

Start == /\ loop = "off" /\ loop' = "sleep"
         /\ UNCHANGED <<game, seen, state, armed, stuck>>

ReadNow == /\ loop = "sleep" /\ loop' = "main"
           /\ seen' = [seen EXCEPT !.now = clock]
           /\ UNCHANGED <<game, state, armed, stuck>>

ReadBeat(w) == /\ loop = w /\ loop' = IF w = "main" THEN "render" ELSE "focus"
               /\ seen' = [seen EXCEPT !.beat[w] = beat[w]]
               /\ UNCHANGED <<game, state, armed, stuck>>

ForegroundIsOurs == /\ loop = "focus" /\ loop' = "hung"
                    /\ seen' = [seen EXCEPT !.fg = focus]
                    /\ UNCHANGED <<game, state, armed, stuck>>

MainWindowIsHung == clock - pumped > HungAfter

(***************************************************************************)
(* Step, on the values that were read.                                     *)
(***************************************************************************)
\* Deviation: unsigned subtraction without the guard: a beat later than the
\* reading of the clock makes a huge age.
AgeUnguarded(w) == IF seen.beat[w] = 0 THEN 0
                   ELSE IF seen.now < seen.beat[w] THEN MaxTime + Threshold + 1
                   ELSE seen.now - seen.beat[w]

Age(w) == IF seen.beat[w] = 0 \/ seen.now <= seen.beat[w] THEN 0
          ELSE seen.now - seen.beat[w]

Classify == {w \in Watched : Age(w) > Threshold}

\* Deviation: the suppression latches for good: no escalation.
canTripUnlessSuppressed == (seen.fg \/ MainWindowIsHung) /\ ~state.suppressed_freeze

canTrip == seen.fg \/ MainWindowIsHung

\* Deviation: the cooldown is configured in seconds and compared as it stands.
inCooldownUnscaled == state.last_snapshot_at # 0
                      /\ seen.now - state.last_snapshot_at < Cooldown \div 2

inCooldown == state.last_snapshot_at # 0
              /\ seen.now - state.last_snapshot_at < Cooldown

\* A stall that may not trip is latched once, and nothing is written.
SuppressedStall ==
    /\ Classify # {} /\ ~state.in_freeze /\ ~canTrip
    /\ state' = IF state.suppressed_freeze THEN state
                ELSE [state EXCEPT !.suppressed_freeze = TRUE,
                                   !.freeze_thread     = Classify,
                                   !.freeze_started_at = seen.now]
    /\ loop' = "sleep" /\ UNCHANGED stuck

CoolingDown ==
    /\ Classify # {} /\ ~state.in_freeze /\ canTrip /\ inCooldown
    /\ loop' = "sleep" /\ UNCHANGED <<state, stuck>>

\* Deviation: a capture forgets that the stall had been suppressed first.
EmitSnapshotKeepsLatch ==
    /\ Classify # {} /\ ~state.in_freeze /\ canTrip /\ ~inCooldown
    /\ state' = [state EXCEPT !.last_snapshot_at = seen.now, !.in_freeze = TRUE,
                              !.freeze_thread = Classify,
                              !.freeze_started_at = seen.now]
    /\ stuck' = {w \in Classify : beat[w] = seen.beat[w]}
    /\ loop' = "capture"

EmitSnapshot ==
    /\ Classify # {} /\ ~state.in_freeze /\ canTrip /\ ~inCooldown
    /\ state' = [last_snapshot_at  |-> seen.now, in_freeze     |-> TRUE,
                 suppressed_freeze |-> FALSE,    freeze_thread |-> Classify,
                 freeze_started_at |-> seen.now]
    /\ stuck' = {w \in Classify : beat[w] = seen.beat[w]}
    /\ loop' = "capture"

\* Deviation: a resolution that looks at the main thread alone.
AnnotateResolveMain ==
    /\ \E w \in Watched : seen.beat[w] # 0
    /\ "main" \notin Classify /\ state.in_freeze
    /\ state' = [state EXCEPT !.in_freeze = FALSE, !.freeze_thread = {}]
    /\ loop' = IF Annotates THEN "annotate" ELSE "sleep"
    /\ UNCHANGED stuck

\* Deviation: the resolution is reported and the latch stays.
AnnotateResolveOnly ==
    /\ \E w \in Watched : seen.beat[w] # 0
    /\ Classify = {} /\ state.in_freeze
    /\ loop' = IF Annotates THEN "annotate" ELSE "sleep"
    /\ UNCHANGED <<state, stuck>>

AnnotateResolve ==
    /\ \E w \in Watched : seen.beat[w] # 0
    /\ Classify = {} /\ state.in_freeze
    /\ state' = [state EXCEPT !.in_freeze = FALSE, !.freeze_thread = {}]
    /\ loop' = IF Annotates THEN "annotate" ELSE "sleep"
    /\ UNCHANGED stuck

\* A suppressed stall that resolved has no report to annotate.
ClearSuppressed ==
    /\ Classify = {} /\ ~state.in_freeze /\ state.suppressed_freeze
    /\ state' = [state EXCEPT !.suppressed_freeze = FALSE, !.freeze_thread = {},
                              !.freeze_started_at = 0]
    /\ loop' = "sleep" /\ UNCHANGED stuck

NoAction ==
    /\ IF Classify = {} THEN ~state.in_freeze /\ ~state.suppressed_freeze
                        ELSE state.in_freeze
    /\ loop' = "sleep" /\ UNCHANGED <<state, stuck>>

\* MaybeLogEarlyWarning: armed while a stall that may trip is half way there.
HalfWay == \E w \in Watched : Age(w) > Threshold \div 2

\* Deviation: the warning wants the foreground, as if a hung window did not count.
MaybeLogEarlyWarningForeground == armed' = (seen.fg /\ HalfWay)

MaybeLogEarlyWarning == armed' = (canTrip /\ HalfWay)

Poll ==
    /\ loop = "hung"
    /\ \/ SuppressedStall \/ CoolingDown \/ EmitSnapshot
       \/ AnnotateResolve \/ ClearSuppressed \/ NoAction
    /\ MaybeLogEarlyWarning
    /\ seen' = NoPoll
    /\ UNCHANGED game

\* Reporter::CaptureAndWrite or AnnotateLatestResolved returns to the loop.
ReportDone == /\ loop \in {"capture", "annotate"} /\ loop' = "sleep"
              /\ UNCHANGED <<game, seen, state, armed, stuck>>

Loop == ReadNow \/ (\E w \in Watched : ReadBeat(w)) \/ ForegroundIsOurs
        \/ Poll \/ ReportDone

Next == Game \/ Start \/ Loop

\* The loop polls for ever and the reporter returns; the game owes nothing.
Spec == Init /\ [][Next]_vars /\ WF_vars(Loop)
-----------------------------------------------------------------------------
\* The two latches exclude each other (Watchdog.h:71-72), and a thread is on
\* record exactly while one of them is set, through escalation and recovery.
LatchesExclusive ==
    /\ ~(state.in_freeze /\ state.suppressed_freeze)
    /\ state.freeze_thread # {} <=> state.in_freeze \/ state.suppressed_freeze

\* No capture runs before the log holds the early warning, whatever the focus
\* did since the last poll (Watchdog.cpp:88-92).
WarnedBeforeSnapshot == loop = "capture" => armed

\* What is captured was stale: a thread that has not beaten since it was read
\* is past the threshold, whatever order its beat and the reading of the clock
\* came in.
CapturesAreStale ==
    loop = "capture" => \A w \in stuck : clock - beat[w] > Threshold

\* Two snapshots are a cooldown apart, escalated and repeated stalls included.
SnapshotsSpaced ==
    [][state'.last_snapshot_at # state.last_snapshot_at /\ state.last_snapshot_at # 0
         => state'.last_snapshot_at >= state.last_snapshot_at + Cooldown]_vars

\* A report is annotated as resolved only after every thread it found stalled
\* has beaten again: readings taken at different times do not end a freeze.
ResolvedMeansBeaten ==
    [][state.in_freeze /\ ~state'.in_freeze => stuck = {}]_vars

\* A stall the watchdog may report now.
Reportable == /\ \E w \in Watched : beat[w] # 0 /\ clock - beat[w] > Threshold
              /\ focus \/ MainWindowIsHung
              /\ state.last_snapshot_at = 0 \/ clock - state.last_snapshot_at >= Cooldown

\* A stall that stays reportable is reported, even if it was suppressed or in
\* cooldown when it was first seen (Watchdog.h:120-124).
StallsReported == (loop # "off" /\ Reportable) ~> (state.in_freeze \/ ~Reportable)

\* When every thread beats again the freeze is closed.
FreezesClosed ==
    LET Fresh == \A w \in Watched : clock - beat[w] <= Threshold
    IN  (loop # "off" /\ Fresh) ~> (~state.in_freeze \/ ~Fresh)
=============================================================================
