-------------------------- MODULE TaskPoolBaseline --------------------------
(***************************************************************************)
(* The healthy-state sample of the task pool (TaskPoolBaseline.cpp).  Main *)
(* calls MaybeCapture in every frame; every Period-th call copies the pool *)
(* link by link, while workers may change it, and publishes the copy.  The *)
(* report copies the frozen pool in the same steps (module TaskPool).      *)
(***************************************************************************)
EXTENDS JobPool, Sequences

CONSTANTS
    MaxEntries,   \* kMaxEntries: queue indices below it are sampled
    Period,       \* kCaptureEveryNTicks
    TickWrap,     \* the wrap of g_tickCount (2^32)
    MaxFrames     \* bound: frames of main

ASSUME BaselineAssumption ==
    /\ MaxEntries \in Nat /\ Period \in Nat \ {0} /\ MaxFrames \in Nat
    /\ TickWrap \in Nat /\ TickWrap > Period

VARIABLES
    slot,       \* g_singletonSlot # 0: the anchor was found
    tick,       \* g_tickCount
    latest,     \* g_latest: {sample}, {} while ~g_haveSample
    reading,    \* [{"main", "watchdog"} -> the sample being built]
    frames,     \* frames so far
    age,        \* history: frames since the last published sample
    steady      \* history: frames since the instance is there

baselineVars == <<slot, tick, latest, reading, frames, age, steady>>

Entry == [ptr : Entries, handle : Handles \cup {None}]
Sample == [single : 0..2, sub : BOOLEAN, entries : Seq(Entry)]
EmptySample == [single |-> 0, sub |-> FALSE, entries |-> <<>>]
Readers == {"main", "watchdog"}

BaselineTypeOK ==
    /\ slot \in BOOLEAN /\ tick \in 0..(TickWrap - 1)
    /\ latest \subseteq Sample
    /\ reading \in [Readers -> [at : {"off", "slot", "sub", "entries", "done"},
                                next : 0..MaxEntries, sample : Sample]]
    /\ \A r \in Readers : Len(reading[r].sample.entries) <= reading[r].next
    /\ frames \in 0..MaxFrames /\ age \in 0..MaxFrames /\ steady \in 0..MaxFrames

Off == [at |-> "off", next |-> 0, sample |-> EmptySample]

BaselineInit ==
    /\ slot \in BOOLEAN /\ tick \in {0, TickWrap - 1} /\ latest = {}
    /\ reading = [r \in Readers |-> Off]
    /\ frames = 0 /\ age = 0 /\ steady = 0

Read(r, at, next, sample) ==
    reading' = [reading EXCEPT ![r] = [at |-> at, next |-> next, sample |-> sample]]

-----------------------------------------------------------------------------
\* The links of one sample.  A link that was freed since reads as it was or faults.
ReadSingleton(r) ==
    /\ reading[r].at = "slot"
    /\ Read(r, IF single = 0 THEN "done" ELSE "sub", 0, [EmptySample EXCEPT !.single = single])

ReadSubArray(r) ==
    /\ reading[r].at = "sub"
    /\ LET s == reading[r].sample IN
       \E there \in (IF s.single = single THEN {sub} ELSE BOOLEAN) :
          Read(r, IF there THEN "entries" ELSE "done", 0, [s EXCEPT !.sub = there])

\* Null slots are skipped, and so is a slot past the array, whose read faults: an
\* entry's place in the sample is not its queue.
Captured(e) == [ptr |-> e, handle |-> IF table[e] \in far THEN None ELSE table[e]]

ReadEntry(r) ==
    /\ reading[r].at = "entries"
    /\ LET s == reading[r].sample  q == reading[r].next IN
       IF q = MaxEntries THEN Read(r, "done", q, s)
       ELSE IF q \in Queues => queue[q] = None THEN Read(r, "entries", q + 1, s)
       ELSE Read(r, "entries", q + 1, [s EXCEPT !.entries = Append(@, Captured(queue[q]))])

ReadLink(r) ==
    /\ ReadSingleton(r) \/ ReadSubArray(r) \/ ReadEntry(r)
    /\ UNCHANGED <<slot, tick, latest, frames, age, steady>>

-----------------------------------------------------------------------------
\* One call of MaybeCapture: the tick gate, and on a hit the start of a sample.
MaybeCapture ==
    /\ mainWait = None /\ reading["main"].at = "off" /\ frames < MaxFrames
    /\ frames' = frames + 1
    /\ age' = IF age < MaxFrames THEN age + 1 ELSE age
    /\ steady' = IF single = 0 THEN 0 ELSE IF steady < MaxFrames THEN steady + 1 ELSE steady
    /\ IF slot THEN /\ tick' = (tick + 1) % TickWrap
                    /\ IF tick % Period = 0 THEN Read("main", "slot", 0, EmptySample)
                                            ELSE UNCHANGED reading
               ELSE UNCHANGED <<tick, reading>>
    /\ UNCHANGED <<slot, latest>>

\* A sample without an instance is dropped and the old one stays.
\* Deviation: it is published like any other.
CommitNull ==
    /\ reading["main"].at = "done"
    /\ latest' = {reading["main"].sample} /\ age' = 0
    /\ reading' = [reading EXCEPT !["main"] = Off]
    /\ UNCHANGED <<slot, tick, frames, steady>>
Commit ==
    /\ reading["main"].at = "done"
    /\ IF reading["main"].sample.single = 0 THEN UNCHANGED <<latest, age>>
       ELSE latest' = {reading["main"].sample} /\ age' = 0
    /\ reading' = [reading EXCEPT !["main"] = Off]
    /\ UNCHANGED <<slot, tick, frames, steady>>

BuildSample == ReadLink("main")

BaselineStep == MaybeCapture \/ BuildSample \/ Commit
=============================================================================
