------------------------------ MODULE Reporter ------------------------------
(***************************************************************************)
(* The report files of FreezeLogger (Reporter.cpp) and the two threads     *)
(* that write them: the watchdog, which captures a freeze and annotates    *)
(* its end, and the thread of the test_mode hotkey, which captures on      *)
(* demand (Watchdog.cpp).  The sections of a report are one step: Section  *)
(* catches what a snapshot throws, so none of them ends a capture early.   *)
(* What Step decides is modelled in Watchdog; here it sees a freeze or     *)
(* its end.                                                                *)
(***************************************************************************)
EXTENDS Naturals, Sequences

CONSTANTS
    Keep,         \* output.keep_last_n_reports, 0 for all of them
    Annotates,    \* watchdog.annotate_on_resolve
    MaxSeconds,   \* bound: the last second a report is named after
    MaxFreezes    \* bound: freezes that are detected

ASSUME KeepAssumption   == Keep \in Nat /\ Annotates \in BOOLEAN
ASSUME ReporterBounds   == MaxSeconds \in Nat /\ MaxFreezes \in Nat

VARIABLES
    second,      \* the wall clock, as TimestampForFilename shows it
    frozen,      \* is the game frozen?
    inFreeze,    \* Watchdog::State::in_freeze
    freezes,     \* freezes detected so far; the last one is the current one
    keyDown,     \* what GetAsyncKeyState shows
    appends,     \* does a report that is there open for appending?
    wasDown,     \* HotkeyLoop's local
    doing,       \* what each writer is doing
    stalled,     \* the kind of the report a writer makes
    holder,      \* g_captureMutex
    reports,     \* the report files, from the oldest write to the newest
    lastReport,  \* g_lastReportPath
    disturbed    \* history: the latest report is not that of the freeze

clocks  == <<second, frozen, keyDown, appends>>
loops   == <<inFreeze, freezes, wasDown>>
disk    == <<reports, lastReport>>
reporterVars == <<clocks, loops, doing, stalled, holder, disk, disturbed>>

Writers == {"watchdog", "hotkey"}
Kinds   == {"main", "render", "both"}
Phases  == {"polling", "waiting", "writing", "resolving"}
NoPath  == [at |-> MaxSeconds + 1, kind |-> "manual"]
Nobody  == "nobody"

Paths == [at : 0..MaxSeconds, kind : Kinds \cup {"manual"}]

\* of: the freeze the report is about, 0 for a manual one; ends: the freezes
\* whose resolution was appended to it.
Reports == [path : Paths, of : 0..MaxFreezes, ends : SUBSET (1..MaxFreezes)]

ReporterTypeOK ==
    /\ second \in 0..MaxSeconds /\ frozen \in BOOLEAN
    /\ keyDown \in BOOLEAN /\ wasDown \in BOOLEAN /\ appends \in BOOLEAN
    /\ inFreeze \in BOOLEAN /\ freezes \in 0..MaxFreezes
    /\ doing   \in [Writers -> Phases]
    /\ stalled \in [Writers -> Kinds \cup {"manual"}]
    /\ holder  \in Writers \cup {Nobody}
    /\ reports \in Seq(Reports)
    /\ lastReport \in Paths \cup {NoPath}
    /\ disturbed \in BOOLEAN

ReporterInit ==
    /\ second = 0 /\ frozen = FALSE /\ keyDown = FALSE /\ wasDown = FALSE
    /\ appends = TRUE
    /\ inFreeze = FALSE /\ freezes = 0
    /\ doing   = [p \in Writers |-> "polling"]
    /\ stalled = [p \in Writers |-> "manual"]
    /\ holder  = Nobody
    /\ reports = <<>>
    /\ lastReport = NoPath /\ disturbed = FALSE

(***************************************************************************)
(* The game, the clock and the player, who may hold a report open in an    *)
(* editor or fill the disk.                                                *)
(***************************************************************************)
Tick     == /\ second < MaxSeconds /\ second' = second + 1
            /\ UNCHANGED <<frozen, keyDown, appends>>
Stall    == frozen' = ~frozen   /\ UNCHANGED <<second, keyDown, appends>>
PressKey == keyDown' = ~keyDown /\ UNCHANGED <<second, frozen, appends>>
Blocks   == appends' = ~appends /\ UNCHANGED <<second, frozen, keyDown>>

Others == /\ Tick \/ Stall \/ PressKey \/ Blocks
          /\ UNCHANGED <<loops, doing, stalled, holder, disk, disturbed>>

Dropped(i) == [j \in 1..Len(reports) - 1 |-> reports[IF j < i THEN j ELSE j + 1]]

\* The player removes an old report.
Deletes(i) == /\ holder = Nobody
              /\ reports' = Dropped(i)
              /\ disturbed' = (disturbed \/ reports[i].of = freezes)
              /\ UNCHANGED <<clocks, loops, doing, stalled, holder, lastReport>>

(***************************************************************************)
(* Loop and HotkeyLoop, up to the call into the reporter.                  *)
(***************************************************************************)
Calls(p, phase, kind) ==
    /\ doing[p] = "polling"
    /\ doing'   = [doing EXCEPT ![p] = phase]
    /\ stalled' = [stalled EXCEPT ![p] = kind]
    /\ UNCHANGED <<clocks, holder, disk>>

\* EmitSnapshot: Step latches in_freeze before the report exists.
EmitSnapshot(kind) ==
    /\ frozen /\ ~inFreeze /\ freezes < MaxFreezes
    /\ inFreeze' = TRUE /\ freezes' = freezes + 1
    /\ UNCHANGED wasDown /\ disturbed' = FALSE
    /\ Calls("watchdog", "waiting", kind)

AnnotateResolve ==
    /\ ~frozen /\ inFreeze
    /\ inFreeze' = FALSE
    /\ UNCHANGED <<freezes, wasDown, disturbed>>
    /\ Calls("watchdog", IF Annotates THEN "resolving" ELSE "polling",
             stalled["watchdog"])

\* A key that stays down captures once.
HotkeyLoop ==
    /\ wasDown' = keyDown
    /\ UNCHANGED <<inFreeze, freezes, disturbed>>
    /\ Calls("hotkey", IF keyDown /\ ~wasDown THEN "waiting" ELSE "polling", "manual")

(***************************************************************************)
(* CaptureImpl, under g_captureMutex.                                      *)
(***************************************************************************)
PathOf(p) == [at |-> second, kind |-> stalled[p]]

\* A path names one file at most.
Exists(path)  == \E i \in DOMAIN reports : reports[i].path = path
At(path)      == CHOOSE i \in DOMAIN reports : reports[i].path = path
Without(path) == IF Exists(path) THEN Dropped(At(path)) ELSE reports

\* The file is truncated: a report of the same kind and second is gone.
OpenReport(p) ==
    /\ doing[p] = "waiting" /\ holder = Nobody
    /\ holder' = p
    /\ doing'  = [doing EXCEPT ![p] = "writing"]
    /\ reports' = Append(Without(PathOf(p)),
                         [path |-> PathOf(p),
                          of   |-> IF p = "hotkey" THEN 0 ELSE freezes,
                          ends |-> {}])
    /\ UNCHANGED <<clocks, loops, stalled, lastReport, disturbed>>

\* No output directory, or the file does not open: return, nothing recorded.
OpenFails(p) ==
    /\ doing[p] = "waiting" /\ holder = Nobody
    /\ doing'  = [doing EXCEPT ![p] = "polling"]
    /\ disturbed' = (disturbed \/ p = "watchdog")
    /\ UNCHANGED <<clocks, loops, stalled, holder, disk>>

\* EnforceRetention keeps the reports written last.
\* Deviation: the order is turned round.
EnforceRetentionOldest ==
    reports' = IF Keep = 0 \/ Len(reports) <= Keep THEN reports
               ELSE SubSeq(reports, 1, Keep)
EnforceRetention ==
    reports' = IF Keep = 0 \/ Len(reports) <= Keep THEN reports
               ELSE SubSeq(reports, Len(reports) - Keep + 1, Len(reports))

CloseReport(p) ==
    /\ doing[p] = "writing"
    /\ lastReport' = reports[Len(reports)].path
    /\ EnforceRetention
    /\ holder' = Nobody
    /\ doing'  = [doing EXCEPT ![p] = "polling"]
    /\ disturbed' = (disturbed \/ (p = "hotkey" /\ doing["watchdog"] # "waiting"))
    /\ UNCHANGED <<clocks, loops, stalled>>

\* AnnotateLatestResolved appends to the last report there was, if it exists and
\* opens; if not, it returns and nobody tries again.
AnnotateLatestResolved ==
    /\ doing["watchdog"] = "resolving" /\ holder = Nobody
    /\ reports' =
         IF ~Exists(lastReport) \/ ~appends THEN reports
         ELSE Append(Without(lastReport),
                     [reports[At(lastReport)] EXCEPT !.ends = @ \cup {freezes}])
    /\ doing' = [doing EXCEPT !["watchdog"] = "polling"]
    /\ UNCHANGED <<clocks, loops, stalled, holder, lastReport, disturbed>>

ReporterNext ==
    \/ Others \/ AnnotateResolve \/ HotkeyLoop \/ AnnotateLatestResolved
    \/ \E i \in DOMAIN reports : Deletes(i)
    \/ \E kind \in Kinds : EmitSnapshot(kind)
    \/ \E p \in Writers : OpenReport(p) \/ OpenFails(p) \/ CloseReport(p)

ReporterSpec == ReporterInit /\ [][ReporterNext]_reporterVars
-----------------------------------------------------------------------------
Marked(n) == \E i \in DOMAIN reports : reports[i].of = n /\ n \in reports[i].ends

\* "When the heartbeat resumes, append "Resolved at T+X ms" to the existing
\* report" (dist/FreezeLogger.toml:21-22): a resolution is written into the
\* report of the freeze it ends exactly when that report opens for appending and
\* nothing disturbed it: it was opened and closed, the hotkey made no report since,
\* and the player has not deleted it.  Retention, truncation and an end that waits
\* for the mutex do no harm, and a disturbed one is never put right
\* (Reporter.cpp:256-269).  The variables keep their types all the while.
ResolutionMarksItsFreeze ==
    /\ []ReporterTypeOK
    /\ [][doing["watchdog"] = "resolving" /\ doing'["watchdog"] = "polling" =>
             (Marked(freezes)' <=> ~disturbed /\ appends)]_reporterVars
=============================================================================
