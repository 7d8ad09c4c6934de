------------------------------ MODULE TaskPool ------------------------------
(***************************************************************************)
(* The task-pool section of a report (TaskPool.cpp): the baseline is       *)
(* fetched, the frozen pool is copied link by link, both are laid side by  *)
(* side, and the threads are searched for whoever holds a pointer into the *)
(* queue that main waits for.  It runs on the watchdog while main, if it   *)
(* recovers, and the workers go on.                                        *)
(***************************************************************************)
EXTENDS TaskPoolBaseline

CONSTANT Workers   \* the other threads of the process

VARIABLES
    holds,       \* [Workers -> what a probe can read in registers and the stack window:
                 \* an entry, a handle, the instance; nothing if it cannot be opened]
    step,        \* the step of Write that comes next
    baseline,    \* the copy Latest made
    mainHandle,  \* RBX of main, None when not read
    left,        \* threads still to probe
    candidates,  \* threads named as candidate producers
    quiet        \* history: nothing moved since the section began

reportVars == <<holds, step, baseline, mainHandle, left, candidates, quiet>>
taskPoolVars == <<pool, baselineVars, reportVars>>

frozenSample == reading["watchdog"].sample

Held == Entries \cup Handles \cup (1..2)

TaskPoolTypeOK ==
    /\ JobPoolTypeOK /\ BaselineTypeOK
    /\ holds \in [Workers -> SUBSET Held]
    /\ step \in {"idle", "latest", "frozen", "attribute", "probe", "done", "unavailable"}
    /\ baseline \subseteq Sample
    /\ mainHandle \in Handles \cup {None}
    /\ left \subseteq Workers /\ candidates \subseteq Workers
    /\ quiet \in BOOLEAN

TaskPoolInit ==
    /\ single \in 0..1 /\ sub = (single # 0)
    /\ queue \in [Queues -> Entries \cup {None}]
    /\ \A p, q \in Queues : queue[p] = queue[q] /\ p # q => queue[p] = None
    /\ table \in [Entries -> Handles \cup {None}]
    /\ \A d, e \in Entries : table[d] = table[e] /\ d # e => table[d] = None
    /\ far \in {{}} \cup {{h} : h \in Handles}
    /\ mainWait = None /\ poolMoves = 0
    /\ holds = [w \in Workers |-> {}]
    /\ BaselineInit
    /\ step = "idle" /\ baseline = {} /\ mainHandle = None
    /\ left = {} /\ candidates = {} /\ quiet = FALSE

-----------------------------------------------------------------------------
\* Without the anchor there is nothing to compare.
Write ==
    /\ step = "idle"
    /\ step' = IF slot THEN "latest" ELSE "unavailable"
    /\ quiet' = TRUE
    /\ UNCHANGED <<baselineVars, baseline, mainHandle, left, holds, candidates>>

Latest ==
    /\ step = "latest" /\ step' = "frozen"
    /\ baseline' = latest
    /\ reading' = [reading EXCEPT !["watchdog"] = [Off EXCEPT !.at = "slot"]]
    /\ UNCHANGED <<slot, tick, latest, frames, age, steady, mainHandle, left, holds, candidates, quiet>>

\* Unlike the baseline, a frozen sample without an instance is kept.
BuildFrozenSample ==
    /\ step = "frozen"
    /\ \/ ReadLink("watchdog") /\ UNCHANGED step
       \/ reading["watchdog"].at = "done" /\ step' = "attribute" /\ UNCHANGED baselineVars
    /\ UNCHANGED <<baseline, mainHandle, left, holds, candidates, quiet>>

\* RBX is the handle while main waits; else it may hold anything.
ReadMainWaitHandle ==
    /\ step = "attribute"
    /\ mainHandle' \in (IF mainWait # None THEN {mainWait} ELSE Handles \cup {None})
    /\ IF mainHandle' = None THEN step' = "done" /\ UNCHANGED left
       ELSE step' = "probe" /\ left' = Workers
    /\ UNCHANGED <<baselineVars, baseline, holds, candidates, quiet>>

SampleEntries(s) == {s.entries[i] : i \in DOMAIN s.entries}
EntryHandles(samples) == UNION {{e.handle : e \in SampleEntries(s)} : s \in samples}

\* The pointers looked for: the instance, which stands for its sub_array, each entry,
\* which stands for its handle table and the heap pointers among its fields, and of
\* all handles main's own.  They are at most 83, and kMaxTargets is 160.
Targets(h) ==
    {h} \cup {e.ptr : e \in SampleEntries(frozenSample)} \cup ({frozenSample.single} \ {0})

\* What a thread holds matters only now, so it is chosen here.
ProbeThread(w) ==
    /\ step = "probe" /\ w \in left
    /\ left' = left \ {w}
    /\ \E held \in {{}} \cup {{x} : x \in Held} :
          /\ holds' = [holds EXCEPT ![w] = held]
          /\ candidates' = IF held \cap Targets(mainHandle) # {}
                           THEN candidates \cup {w} ELSE candidates
    /\ UNCHANGED <<baselineVars, step, baseline, mainHandle, quiet>>

WriteJobAttribution ==
    \/ ReadMainWaitHandle
    \/ \E w \in Workers : ProbeThread(w)
    \/ /\ step = "probe" /\ left = {} /\ step' = "done"
       /\ UNCHANGED <<baselineVars, baseline, mainHandle, left, holds, candidates, quiet>>

\* Once Latest has its copy, the captures of a main that recovered change nothing
\* the section still reads.
TaskPoolNext ==
    \/ /\ step # "done" /\ PoolMove /\ quiet' = FALSE
       /\ steady' = IF single' = 0 THEN 0 ELSE steady
       /\ UNCHANGED <<slot, tick, latest, reading, frames, age>>
       /\ UNCHANGED <<step, baseline, mainHandle, left, holds, candidates>>
    \/ step \in {"idle", "latest"} /\ BaselineStep /\ UNCHANGED <<pool, reportVars>>
    \/ (Write \/ Latest \/ BuildFrozenSample \/ WriteJobAttribution) /\ UNCHANGED pool

TaskPoolSpec == TaskPoolInit /\ [][TaskPoolNext]_taskPoolVars

-----------------------------------------------------------------------------
\* What the section says.  The owning queue: the first entry with main's handle.
\* Deviation: the last entry is left out.
OwningEntriesShort(s, h) == {i \in DOMAIN s.entries : i < Len(s.entries) /\ s.entries[i].handle = h}
OwningEntries(s, h) == {i \in DOMAIN s.entries : s.entries[i].handle = h}
PrimaryEntry(s, h) ==
    IF OwningEntries(s, h) = {} THEN 0
    ELSE CHOOSE i \in OwningEntries(s, h) : \A j \in OwningEntries(s, h) : i <= j

\* The handles that layer 4 prints: those of the frozen entries and of the baseline
\* entries at the same addresses, or of the whole baseline when nothing is left.
MatchedBaseline(b, f) ==
    {d \in UNION {SampleEntries(s) : s \in b} : \E e \in SampleEntries(f) : e.ptr = d.ptr}

ShownHandles(b, f) ==
    IF f.entries = <<>> THEN EntryHandles(b)
    ELSE {e.handle : e \in SampleEntries(f) \cup MatchedBaseline(b, f)}

\* In a true freeze, queue q, which the sample reaches, holds main's handle.
Owns(q, h) ==
    Alive /\ q < MaxEntries /\ queue[q] # None /\ table[queue[q]] = h /\ h \notin far

Freeze == step = "done" /\ quiet /\ mainWait # None

\* "Owning queue" (TaskPool.cpp:464-486): in a true freeze the entry named is the
\* one whose table holds the handle main waits for, and it is named whenever the
\* sample reaches it.
HandleAttributed ==
    Freeze =>
        LET i == PrimaryEntry(frozenSample, mainHandle) IN
        /\ (\E q \in Queues : Owns(q, mainWait)) => i # 0
        /\ i # 0 => \E q \in Queues : Owns(q, mainWait) /\ queue[q] = frozenSample.entries[i].ptr

\* "Candidate producer" (TaskPool.cpp:488-545): a thread that still holds the handle
\* main waits for is named, and so is one that holds its entry, as long as the pool
\* has it, or the instance; nobody is named who holds none of the pool's objects and
\* not that handle, be it another queue's handle.
ProducersAreNamed ==
    Freeze =>
        \A w \in Workers :
           /\ mainWait \in holds[w] => w \in candidates
           /\ \A q \in Queues : Owns(q, mainWait) /\ queue[q] \in holds[w] => w \in candidates
           /\ single # 0 /\ single \in holds[w] => w \in candidates
           /\ w \in candidates =>
                \/ mainWait \in holds[w]
                \/ single # 0 /\ single \in holds[w]
                \/ \E q \in Queues : Alive /\ queue[q] # None /\ queue[q] \in holds[w]

\* "Captured periodically ... the most recent healthy state" (TaskPoolBaseline.h:7-11):
\* once the instance has been there for a whole period the baseline is no older than
\* a period, across the wrap of the counter, and it never loses its instance.
BaselineIsRecent ==
    /\ slot /\ steady > Period /\ reading["main"].at = "off" => age <= Period /\ latest # {}
    /\ \A s \in latest : s.single # 0

\* "Scan the Layer-4 baseline blocks above for that same handle value"
\* (TaskPool.cpp:780-785) when the pool is gone or still has the entry: the handle
\* that main waits for is printed if one of the two samples has it.
HandleIsShown ==
    Freeze /\ mainWait \in EntryHandles(baseline \cup {frozenSample})
    /\ (frozenSample.entries = <<>> \/ \E q \in Queues : Owns(q, mainWait))
       => mainWait \in ShownHandles(baseline, frozenSample)

\* What the section says of a true freeze is right in all three places where it
\* names the handle: the owning queue, the producers and the two dumps.
FreezeIsAttributed == HandleAttributed /\ ProducersAreNamed /\ HandleIsShown

\* The baseline, well typed, is as recent as its gate promises.
BaselineIsSound == TaskPoolTypeOK /\ BaselineIsRecent
=============================================================================
