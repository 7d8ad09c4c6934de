# FreezeLogger in TLA+

TLA+ models of the two Skyrim plugins of this repository, the TLC runs that
check them, and TLAPS proofs about them. Paths below are relative to `src/`.

- **FreezeLogger** (`src/`) watches the game's main and render thread, and
  writes a report when one of them stops.
- **WorkerSpinLockFix** (`skyrim-freeze-fix/src/`) removes one deadlock of the
  game at its root (Phase 4) and breaks three others after the fact.

Contents: 1. inventory, 2. plan, 3. the modules and how they correspond to the
code, 4. the runs, 5. fairness, 6. proofs, 7. divergences, 8. what is not
modelled.

## 1. Inventory

### WorkerSpinLockFix

**Phase4Defer** (`Phase4Defer.cpp`). The game deadlocks because two engine
threads take LockA and LockB in both orders. The plugin wraps the function that
holds LockA (id 19369) and gates two call sites inside it. *State*: per thread
`tl_lockA_depth` and `tl_deferred`; in the engine two recursive spin locks, the
flag `kInTempChangeList` of each actor, and the list the flag speaks about.
*Operations*: `HookedLockAAcquirer`, `DrainDeferredOnExit`,
`HookedRemoveAtCycleHub`, `HookedAddInsideAddWrapper`, `Install`. *Hard*: two
locks and two threads; a flag written early and a list written late; recursion
of id 19369, and a replay that enters it again. *Correct* when no thread waits
for LockB under LockA, no deferred call is lost, doubled or reordered, flag and
list agree in the end, and every waiter proceeds.

**JobWaitBreaker** (`JobWaitBreaker.cpp`). The main thread waits in
`WaitForJobTask` for a job whose completion signal may have been lost. *State*:
five atomics of the current episode, a depth counter, `lastHandledSeq`.
*Operations*: `Detour_WaitForJobTask` on the main thread, `WatchdogLoop` on a
thread of the plugin. *Interaction*: shared memory without a lock; the watchdog
also reads the engine's job pool, which may be torn down while it is read, and
sets an engine event. *Hard*: the fields are read one by one while the next
episode is being written; the chain cannot always be read; a slow job looks like
a lost one. *Correct* when it acts on one wait that has really lasted, never
while the job is at work, and does end a wait that is lost.

**SiteABreaker, SiteARenderBreaker** (`SiteABreaker.cpp`,
`SiteARenderBreaker.cpp`). The same scheme for Singleton-A, through which the main
thread hands one job to the render worker: one breaker wraps the wait of the main
thread, the other the worker's join. *State*: five atomics each, `lastHandledSeq`;
in the engine a work-id, a pending flag and two events. *Hard*: what is captured at
entry is compared with what the wrapped function leaves; the worker may signal
between the query of the event and the breaker's `SetEvent`; two breakers may act
on the one event. *Correct* when no wait is released before its job is done or
stuck, and a stuck one ends.

**LeakedSpinLockBreaker** (`LeakedSpinLockBreaker.cpp`). Finds threads that spin
on a lock whose owner no longer runs engine code and releases the lock by a
compare-and-swap. *State*: `g_active`, set when the game has its data;
`g_tracks`, suspected locks with the time since they were first seen unchanged.
*Operations*: `Install`, `OnDataLoaded`, `WatchdogLoop` with `SnapshotThread`,
`ThreadIsSpinning`, `CollectForeignLocks`, `ReproveLeak`, `HandleConfirmed`,
`ForceRelease`. *Hard*: all evidence is stale
when it is used; a lock may be released and taken again by the same thread.
*Correct* when only a leaked lock is released, and at most once.

**Start-up, configuration, anchors** (`main.cpp`, `Hooks.cpp`, `Config.cpp`,
`SkyrimAnchors.cpp`, the `Install` functions). *Operations*: the runtime check,
the signature scan, five installs one after the other, the listener for
data-loaded. *Interaction*: hooks the entries of functions that FreezeLogger
scans for. *Hard*: every step may fail and the plugin goes on with the layers
that are left; numbers of the file are narrowed. *Correct* when no hook is left
without what it needs, and no layer sits on a function that was not proven.
**Stats** counts and prints.

### FreezeLogger

**Watchdog** (`Watchdog.h`, `Watchdog.cpp`, `Heartbeat.h`). *State*: two
heartbeats that the hooks write; `Watchdog::State` (time of the last snapshot,
two latches, the stalled threads); `EarlyWarn`. *Operations*: `Loop`, `Poll`,
`Step`, `MaybeLogEarlyWarning`. *Interaction*: calls the reporter on its own
thread; reads the focus and the hung flag of the game's window. *Hard*: five
readings at five times; focus changes in the middle of a freeze; suppression,
cooldown and recovery in every order. *Correct* when what it captures is stale
and announced, captures keep their distance, a freeze that lasts is reported, and
one that is closed is over.

**Reporter** (`Reporter.cpp`) and the **hotkey thread** (`Watchdog.cpp`). *State*:
the files in the report directory, the path of the latest report. *Operations*:
`CaptureAndWrite`, `CaptureManual`, `AnnotateLatestResolved`, `EnforceRetention`.
*Hard*: two threads, one latest report, names that repeat within a second.
*Correct* when a resolution reaches the report of its freeze, and no report that
is in use is deleted or overwritten.

**Classification** (`snapshot/Verdict.cpp`) and **main-wait audit**
(`snapshot/MainWaitProbe.cpp`). Two sections of one report that look at the same
freeze: the first observes the engine in five probes and names the freeze, the
second looks for the signature of a lost acknowledge, the owners of spin locks and
the chain of threads the main thread waits for. *State*: none but locals.
*Interaction*: they read engine memory and thread contexts while everything else
runs on; they exchange nothing. *Hard*: every probe is of another moment;
registers and stack windows hold addresses that mean nothing any more. *Correct*
when a freeze that is real is named, for what it is, by both.

**Task pool** (`TaskPoolBaseline.cpp`, `snapshot/TaskPool.cpp`). Every so many
frames the main thread copies the engine's task pool; the report copies it again
and lays both side by side. *State*: `g_tickCount`, `g_latest`. *Hard*: the pool is
torn down, rebuilt and refilled between two links of a copy; the counter wraps.
*Correct* when the baseline is recent and the report names the queue, the
producers and the handle the main thread really waits for.

**Hooks and start-up** (`main.cpp`, `MainHook.cpp`, `RenderHook.cpp`,
`SkyrimAnchors.cpp`). *Operations*: load, the scan, the hooks at post-load, the
vtable slot of `Present` when the game creates its swap chain. *Hard*: the other
plugin may have hooked a function before this one looks for it; an overlay takes
the same slot.

**Snapshots** (`snapshot/Threads.cpp`, `WaitGraph.cpp`): threads are suspended one
by one and their stacks walked. **RingBuffer**: bounded history of log lines.
**DebugTriggers**, **AddrLib**, **Symbols**, **Config**, **Logger**, the remaining
sections of a report: section 8.

`PROJECT.json` lists all components, those left out included, and every hazard
with the line it bites at and the properties that cover it.

## 2. Plan

In this order, the most important behaviour first; a line marked * is done.

| modules | composes | abstract specification | theorems |
|---|---|---|---|
| * `TempChangeList`, `Phase4Defer` | | `TempChangeList` | * type, no edge, nothing stranded, flag and list converge, order, refinement |
| * `Watchdog` | | | * type, latches, warned, stale, spaced, resolved |
| * `DependableWait`, `JobWaitBreaker` | | `DependableWait` | * type, acts on one wait, no live job is stuck, refinement (safety) |
| * `SiteA` | main thread, render worker and both breakers on the shared event | `DependableWait` | * type, main breaker never confirms, no wait ends before its job |
| * `SpinLocks`, `LeakedSpinLockBreaker` | the engine's locks and threads with the watchdog that scans them | | * quiet before data-loaded, acts on leaks only |
| * `SpinLocks`, `WaitForChain` | the same locks with the audit of a report | | * cycles are real, deadlocks are found, blame is sound, no thread twice |
| * `FreezeSites`, `Verdict`, `WaitSiteAudit`, `FreezeReport` | classification and audit over one moving engine | | * what a report says is true, complete, and the same twice |
| * `JobPool`, `TaskPoolBaseline`, `TaskPool` | pool, periodic sample and report section | | * baseline is recent, attribution is right |
| * `AnchorScan`, `StartUp` | both plugins, the loader, the game and an overlay | | * install, Phase 4, scans, `Present` |
| * `Reporter` | watchdog, hotkey and player on one directory | | * resolution reaches its report |

A * before a theorem cell: proved. Every safety property and every action property
that a run checks is stated by a theorem. What is left is liveness (section 6) and
more of what a breaker promises when nested waits are on two lists (section 7).

## 3. Modules

`MC*` modules are what TLC runs (with a symmetry set where one is used), `*Proofs`
modules hold the theorems.
Operators whose comment begins with "Deviation" are not part of any
specification: each is a definition as a plausible mistake would have it, and
stands before the definition it deviates from. Putting it in that definition's
place makes TLC report the property it is there for.

### TempChangeList
What the Phase 4 layer promises: each thread has a queue of calls that take
effect on the list one by one, in that thread's order, while the engine takes
actors off the list of its own accord (`TakeOff`).

### Phase4Defer
One variable per piece of state of the code: `depth` is `tl_lockA_depth`,
`deferred` is `tl_deferred`, `local` the vector that `DrainDeferredOnExit` moves
the queue into, `bit` the flag, `list` the bucket array, `queued` and `replayed`
the counters of `Stats`. `pc` says where a thread is between two steps that
others can see, and `outer` keeps the LockB frames that called out to id 19369,
with the drain each was part of.

A gate is one action: the flag of the actor and the thread's own queue are
written together, because nobody else can see the queue. An original (ids 40333,
40334, 40285) is several: it spins for LockB, writes the list, writes the flag
and returns, and gates of other threads come between. The engine is external: it
is modelled from the comments and call sites of `Phase4Defer.cpp` and from the case
study, by which id 40285 also clears the flag of the actors it takes off the list
(`docs/case-study/20-v2-phase3-5-findings.md:85-93`); a call of `Transfer` takes off
one or none. Id 19369 may call itself, LockB code may call out to it, and with `Reentrant` a replayed Add
may too. Both locks are recursive for their owner: the header calls the lock
non-recursive, but the wrap counts recursive entries of id 19369, which holds
LockA (`Phase4Defer.cpp:100-103`), and no thread would survive those with a lock
that is not.

Bounds: `MaxDepth` nested frames, `MaxQueued` calls of a thread. Two threads
make the deadlock, two actors make a replay that disagrees with a neighbour, two
calls make an order. The safety run has re-entry and three calls, which make a
drain inside a drain with something left in the outer one; the refinement run has
neither re-entry nor recursion, since the order is kept only without the one and
the other makes its liveness part too large.

### Watchdog
`beat` are the two heartbeats, `state` is `Watchdog::State` field by field (a
`StalledThread` is the set of stalled threads), `armed` is `EarlyWarn::armed`,
`seen` the locals of one poll. The loop reads the clock, each heartbeat and the
focus in steps of their own; the last reading, the hung window, is one step with
`Step` and `MaybeLogEarlyWarning`, which read no shared state. `EmitSnapshot`,
`SuppressedStall`, `CoolingDown`, `AnnotateResolve`, `ClearSuppressed` and
`NoAction` are the branches of `Step`.

The game is external: a thread runs and beats, freezes, thaws, or idles while the
game is not in the foreground; the window pumps messages unless the main thread is
frozen. One unit of time is one in which a healthy thread beats at least once.
`stuck` is a history variable: the threads that have not beaten since they were
captured.

Bounds: `MaxTime` is the last value of the clock. Five units hold a freeze, its
report, a recovery and a second freeze inside and outside the cooldown.

### DependableWait
What a breaker promises: a wait never ends before its job does, and it ends.

### JobWaitBreaker
`g`, `g_seq` and `g_in_wait` are the atomics of the episode (`g_episode_idx`,
`g_episode_handle`, `g_episode_start_ms`, `g_episode_seq`, `g_in_job_wait`),
`calls` the open calls, whose number is `tl_depth`, `w` the locals of the
watchdog's pass, `lastHandled` is `lastHandledSeq`. Every store of the wrap and
every load of the watchdog is an action. All atomics are taken in program order:
the stores before the release store are, and the relaxed loads are on the
platform the plugin is built for. `SampleChain` copies eight words; the copy is
one step that may fault (`Unreadable`).

Times are ages, capped at the limit they are compared with, so that the instance
is finite without a bound on the clock. Handles are named by their list. The job
pool is external: a job of a list is at work, done, or lost, with its chain
intact or torn down. `Touch` records whether an entry has changed since the first
sample (`fp1 == fp2`). `JobsProgress` says that a job at work changes its entry in
every unit of time and a runnable main thread moves: with the thresholds the
configuration ships this is what the breaker counts on. The check that pins the
wrap to the main thread is taken as passed: other threads do not reach the
stores. `episodes` is a history variable: index and age of every wait.

Bounds: `MaxEpisodes` waits, `MaxDepth` nested calls. Two waits make a stale
reading, two lists make a wrong one, a third wait makes a signal that is left
over from an earlier one, depth two is a call inside a wait.

### SiteA
`workid`, `pending`, `wake` and `ack` are the hand-shake; `g`, `g_seq` and
`g_in_wait` the atomics of each breaker, `w` the locals of its watchdog's pass,
`handled` its `lastHandledSeq`. The two breakers are one piece of code written
twice; `Watched` and `StillPending` are where they differ. `BeginWait` clears the
work-id and `EndWait` the pending flag, as the disassembly in
`snapshot/MainWaitProbe.cpp:19-36` shows, and `Dispatch` resets the ack. The address
of the singleton and the handle of the ack never change and are left out, so that
comparing them is.

A worker's join ends within a frame or never (`JoinSticks`). `Paced` says that what
can go on does so in every unit of time: it stands for thresholds of seconds against
frames of milliseconds, and without it a slow job is released like a stuck one.
`asked`, `taken` and `served` number the jobs and are history.

Bounds: `MaxDispatches` jobs. Two make a job that is asked for while a watchdog
still judges the first. The render breaker releases a stuck join once; that a
second job put to the same stuck worker is not released is outside
`StuckJoinReleases`, whose premise says so.

### SpinLocks
The engine's locks and threads as both plugins see them: `owner` is the owner word
of each lock, `doing` what a thread does (runs, spins, is parked at a place in a
system module, or is gone), `want` the lock it spins on. A thread may park or exit
with a lock in its hands. External, from what `MainWaitProbe.cpp` and
`LeakedSpinLockBreaker.cpp` assume of them; the state half of the lock word is
constant while a lock is held.

### LeakedSpinLockBreaker
`active` is `g_active`, `tracks` is `g_tracks`, `cands` the candidates of a poll,
`rip` and `spun` the copied contexts, `pending` the candidate whose confirmation is
under way. A thread is copied in one step (it is suspended), every other read of
the watchdog is a step: `ThreadIsSpinning` looks at the stack now with the pointer
of then, so that both outcomes are possible where the two moments differ
(`StackScans`), and registers may hold addresses of any other lock (`References`).
Time is counted in polls, which is how tracks age. `past` is history: what each of
the last polls saw of a lock.

Bounds: two threads, one lock, one place to park, a dwell of two polls. One lock
leaks, is released and leaks again, changes hands within the dwell and between
proof and swap. A third thread or a second place exceed what can be run in
minutes; the theorems cover them.

### WaitForChain
`todo` and `mainNamed` belong to `WriteSpinlockOwners`, the other variables are the
locals of `WriteBSSpinLockCycle` and `WriteParkedHolderDetail`: `live`, `cur`, `hop`,
`visited`, `edge`, `holder`. Every read is of its own moment. Two history variables
say when the report can be held to its word: `quiet` (no thread moved since the
audit began, which is what a freeze is) and `exact` (each hop took the lock its
thread spins on, and not another one whose address lay about). Left out: a current
thread that is the walker itself, which the walk skips and which is never an owner.

Bounds: the main thread and two workers on three locks, three hops: cycles of two
and three threads, chains that end at a parked, a running and an exited owner. With
three threads a third hop always closes a cycle; that the walk stops at the hop
limit without one is left to the theorem, which has any number of each.

### FreezeSites, Verdict, WaitSiteAudit, FreezeReport
`FreezeSites` is the engine: where the main thread is, the Singleton-A flag and
event, the pointer chain of Singleton-B, a spinning worker, the render thread's
join, and what stays in stack windows (`leftover`) and registers (`stray`).
`Verdict` is `Observe`, one action per probe that fills one part of `obs`, and
`Classify` as a function of it. `WaitSiteAudit` is `Write` of the main-wait probe
outside its lock sections, and `WriteRenderSiteA`. `FreezeReport` runs the two one
after the other, as `Reporter.cpp` does, over an engine that may move in between.
`been`, `spun`, `cuts` and `joined` are history: where the main thread was meanwhile,
what workers spun on, where the chain was cut, and whether the render thread was in
its join.

`ScanSpinlocks` looks for the lock of a spinner in 14 integer registers, which need not
hold it while the spinner sleeps in its retry, and for the retry on its stack: either
scan may come back empty, so that a worker that spins on a lock of the main thread may
be missed. `cut` is the link a walk of the chain stops at. A null pointer stops it
at every link but the last: the last is the handle, of which the code asks only
that it can be read (`Verdict.cpp:348-353`). In the audit the fields of Singleton-A may
be unreadable in any state of the engine (`fields = -1`).

What a section prints is held to the history (`ReportIsTrue`). In a freeze that is
what is so now. Of an engine that moves it says that each thing printed was so at
some moment of the report, not that all of it was at one: a class put together from
two moments is possible, and not an error the section could avoid. That a freeze is
named (`FreezesAreNamed`), that both sections agree, and what a match says of flag and
event at once are claims about a freeze (`Quiet`).

Bounds: two links of the chain of five, at most one thread in the FSMP module, one
move of the engine in a report. Cut and intact, a cut that moves and one that does
not, a move between every two probes: the probes compare no more than two moments.
What may mislead the scans (`leftover`, `stray`) is run one at a time, with the main
heartbeat alone and without a render join (`MCInit`), on which none of it bears; the theorems have no
such restriction.

### JobPool, TaskPoolBaseline, TaskPool
`JobPool` is the engine's pool: the instance, its sub-array, one entry per queue
with its handle table. `TaskPoolBaseline` is `MaybeCapture` behind its tick gate and
the sample link by link (`slot`, `tick`, `latest`; `reading` is a sample in the
making). `TaskPool` is the section: `Latest`, the frozen sample by the same steps,
the main thread's handle, the owning queue, and thread after thread the search for
producers. `age` and `steady` count frames for the history, `quiet` is as above.
`Targets` are the pointers the section looks for in other threads: the instance (and
its sub-array with it), each sampled entry (with its handle table and fields), and of
the handles only the one the main thread waits for. What a thread holds is chosen when
it is probed, since nothing reads it before;
captures of a main thread that recovers after `Latest` has its copy are left out,
since the section reads none of what they write.

Bounds: three queues of which two are sampled, two entries, two handles, one other
thread, two changes of the pool, three frames with a period of two and a counter
that wraps after five: an entry beyond the sample, a handle that moves from one
entry to another, a capture before, at and after the wrap.

### AnchorScan, StartUp
`AnchorScan` has both signature scans as functions of a text section (what is in
it of each function) and of the hooks that have already overwritten it. The byte
matching is left out: a text section says which signatures match. `StartUp` has
both plugins, which load in either order: the runtime check, `wsf` as the place in
the install of WorkerSpinLockFix, with each step succeeding or failing, `patch`,
`p4`, `layers` and `watchdogs` as what the steps leave, and on the other side
FreezeLogger's hooks, the swap chain and the overlay (`slot`, `original`,
`overlayOriginal`). The game creates its swap chain once.

Bounds: no spin site or more of them than either plugin keeps; a 32-bit range of
four values, and intervals below, at and above it, for the narrowing.

### Reporter
`reports` are the files from the oldest write to the newest, `lastReport` is
`g_lastReportPath`, `holder` the capture mutex, `doing` and `stalled` where each of
the two writers is and what it writes. `EmitSnapshot` and `AnnotateResolve` are the
calls of `Watchdog`, here with a freeze that begins and ends. `OpenReport` truncates
a file of the same name, `OpenFails` returns early, `CloseReport` records the path
and enforces retention. `appends` says whether a report can be opened for appending:
if not, `AnnotateLatestResolved` returns and the resolution is lost
(`Reporter.cpp:265-266`). A removal by retention that fails is left out. The sections are one step, which never throws: `Section`
catches. `disturbed` is history: the latest report on record is not that of the
current freeze any more.

Bounds: two freezes, three seconds, two reports kept. That makes a name that comes
twice, a report that retention removes, and a resolution after either.

## 4. Runs

| run | question |
|---|---|
| `Phase4Defer` | lock edge, stranded calls, flag and list, with re-entry and recursion |
| `Phase4DeferRefines` | order of replays, every waiter proceeds, the hooks implement `TempChangeList` |
| `Watchdog` | latches, early warning, staleness, spacing, resolution; a lasting stall is reported, a freeze that is over is closed |
| `JobWaitBreaker` | the watchdog acts on one wait, a lost wakeup ends, with faults |
| `JobWaitBreakerRefines` | nested waits on one list: the breaker implements `DependableWait`, no live job is stuck |
| `SiteA` | no wait ends before its job, a stuck join releases the main thread, the main breaker confirms nothing |
| `WaitForChain` | a reported cycle is a deadlock, a deadlock is reported, nobody is blamed wrongly |
| `LeakedSpinLockBreaker` | no scan before data-loaded, only a lock that stood still is cleared and once, a leak that lasts is confirmed |
| `FreezeReport` | nothing is printed that was not so during the report; of a freeze the class is complete, the audit's match a lost acknowledge, and the sections agree |
| `TaskPool` | the baseline is recent; queue, producers and handle named are the right ones |
| `StartUp` | what an install leaves behind, in any order and with any failure |
| `Reporter` | a resolution is written into the report of its freeze exactly when nothing came between and the report opens |

All hold. Two of them, `MainNeverConfirmed` and `ResolutionMarksItsFreeze`, state
what the code does where a document says otherwise (section 7). Threads, actors,
locks, entries and handles are interchangeable, and `Phase4Defer`, `WaitForChain` and
`TaskPool`, which have no liveness property, use that (`SYMMETRY`). Where a run switches the deadlock check off, the
modelled activity really ends: a report is written, a load is over, or a watchdog
has been stopped.

## 5. Fairness

- **Phase4Defer**: weak for the steps of the wrap, the drain and the originals,
  since a thread that is there runs on. Strong for taking a lock: a spinning
  thread retries until it is lucky, and the lock is released again and again.
  Strong, per depth, for leaving id 19369: its recursion is finite, so that each
  of its frames is left. No thread is obliged to call anything.
- **Watchdog**: weak for the loop, which sleeps a fixed time and whose captures
  return. The game owes nothing: it may stop at any step.
- **JobWaitBreaker**: weak for the main thread's steps, for the watchdog's and for
  time; strong for the two samples, since a chain that cannot be read now can be
  read later. No call and no end of a job is assumed.
- **SiteA**: the same. No job is asked for and no join returns by assumption.
- **LeakedSpinLockBreaker**: weak for the steps of the watchdog as a whole: it
  sleeps a fixed time and loops. The game owes nothing, and may keep the watchdog
  busy with other locks.
- The other specifications have no liveness property and state no fairness: a
  report and an install are finite, and what matters is what they leave.

## 6. Proofs

All theorems hold for every value of the constants, under the named assumptions
of the module: the null values are not members of the sets they complete, bounds
and times are naturals, flags are Booleans. The bounds take part as arbitrary
naturals, so that they restrict nothing.

**Phase4DeferProofs.** The locks agree with what the program counters say is held
(`DepthInv`, `LockAInv`, `LockBInv`): `tl_lockA_depth` is one more than the frames
that hold LockA while a thread is entering or leaving the wrap. A thread that
waits for LockB has depth zero by `DepthInv`, hence holds no LockA: `EdgeBroken`.

When a replayed Add calls out to id 19369, a drain runs inside a drain and the calls
of a thread lie in several vectors. `ShapeAll` counts them: what was queued is
replayed, or left in an outer frame, in the active drain or in the queue, and a
thread outside id 19369 has no frame. `NothingLeftBehind` follows. `FlagAndListConverge`
needs `FlagInv`, which says of every actor that flag and list agree, or a LockB
section is between its two writes, or the last pending call about the actor of some
thread will make the change that the flag announces (`Awaits`); `WroteInv`, that a
section between its two writes has made its change to the list. Both theorems
hold with re-entry. An actor without a process is excepted, since the original
ignores it (section 7).

`ReplaysInOrder` and `DeferralRefines` assume `~Reentrant`: with re-entry the order
really is lost (section 7). For the first, the calls in the queue and in the drain
are consecutive in their tickets, from `replayed` to `queued`. The second maps a
thread's abstract queue to the call in hand, the rest of its drain and `deferred`, in
this order; a gate appends, the write of the list (or the return without one)
takes the head, a write of `Transfer` is a `TakeOff`, and everything else stutters.

**WatchdogProofs.** `Ordered` says that no recorded time lies ahead of the clock
and that a poll reads the clock after the last snapshot was stamped; `StuckIsOld`,
that a thread that has not beaten since its capture last beat more than a
threshold before the snapshot, and that a poll reads this beat. Neither is stated
by the code, and each is needed: that a freeze is closed only after its threads
have beaten follows since a poll that finds no stall would otherwise have read a
beat the thread never made.

**JobWaitBreakerProofs.** Nothing the watchdog has copied need still be true. What
is invariant is conditional: while the numbered episode is `Intact` (the sequence
number is still the one read, and the wait is published), the copies are right. An
episode that stopped being intact never becomes so again, since numbers are not
used twice. When the watchdog finds the same number after the window, the
episode it speaks about has the index it sampled and is older than both times
(`OneWait`), whether or not the wait has ended meanwhile. From then on nothing
changes this, because an episode on record keeps its index and does not get
younger.

`NoneStuck` adds `LiveInv`: the chain of a job at work resolves, so that the second
sample finds no progress only if no entry was touched, and with jobs that progress
the window of such a job cannot have begun to run. It needs a window (`Recheck > 0`)
and nothing else; without one two samples of the same instant tell nothing.
`WaitRefines`, the safety half of `ImplementsDependableWait`, must also carry the
conclusion over to the handle, which is loaded later. `WindowInv` does: in the window
a unit of time has passed with the main thread parked on the list that is
sampled, so that its job moves and is seen to, or is lost and nobody but the
watchdog sets its event (`Dead`). `OneListAtATime` (waits do not nest, or only on one
list) is used for "parked on the list that is sampled" and cannot be dropped: section 7
has the run of events with two.

**SiteAProofs.** `NeverConfirmed` needs both samples to be told apart from the
capture. `MainInv` says that the work-id is that of the job until the main thread
parks, so that what was captured is never 0 and what a parked thread shows always
is. A first sample that still sees the captured value was taken outside the wait of
the numbered episode: the thread is not on its way to the wait any more, since a
unit of time has passed since its store (`DogInv`, the one place that uses
`Paced`). Then the episode is over or another one is published, and one of the two
looks after the window finds that out. That each breaker numbers at most one
episode per job (`CountInv`) gives the type of its counter.

`ReturnsWhenOver` is about both breakers together. SiteABreaker never acts, by the
above. For the render breaker, `StuckInv` says that an episode older than zero units
belongs to a stuck join, since everything else goes on (`Paced`), and that the
watchdog past its second look at the episode therefore speaks of one; a worker that
is stuck stays so. `JobInv` follows the hand-shake while no join is stuck: an ack that
is set is that of the job asked for last.

**LeakedSpinLockBreakerProofs.** A lock is cleared on the age of its track, while
what was promised is about the polls: they are two counts that move at different
times, the age at the beginning of a poll and the history at its end. `Vouches`
bridges them: between two polls a track of age n stands for n + 1 polls that saw
its owner at its place, in the middle of one for n. `Judged` and `Confirming` carry
that from the candidate to the swap.

**WaitForChainProofs.** `Shape` is the part that holds whatever the threads do: the
chain contains the main thread, its threads are distinct, and it has as many as it
made hops. From it alone follows that no thread is met twice. `Chained` is for a game
at rest: every thread of the chain waits for another one of it or for the last
(`Edges`), so that closing it makes a deadlock. `Found` is the other direction: as
long as the main thread is part of a deadlock the chain stays inside it, and since
its threads are distinct and one is still to come it cannot have used up the hops.
This is the one place that needs cardinalities, and that the set of threads is
finite.

**StartUpProofs.** Each property needs the place in the install it speaks about:
what is not installed yet is untouched. `Phase4Inv` gives the hooks of Phase 4 by
step; the others say that each entry has been patched only after its step, that the
targets are those of an unpatched text section, and that the slot of `Present` holds
the last of at most two hooks, each of which calls what it found.

**ReportProofs.** The sections of a report are read one after the other of an engine
that goes on. For classification and audit there are two kinds of facts. `ObsInv` and
`AuditInv` hold whatever the engine does: a site that was seen was visited (`been`),
an owner that was found was spun on (`spun`), a chain that was cut is in `cuts`, a
join in `joined`, an address that was used was resolved, a field is at its default
until its probe has run. As the histories only grow, what rested on them when it was
observed does so when it is printed, and the class and its confidence follow:
`ClassificationIsTrue` needs no freeze. `ObsTrue` and `AuditTrue` are for a freeze: as long as the engine has not
moved, each field holds what the engine's variable holds now. With all probes
done, the second kind makes the class a function of the place, which is computed
case by case (`TrueVerdict`); that the two sections agree follows from each being
right.

For the task pool, `Since` is the number of frames since the tick gate was last open,
by the remainder of the counter. At its wrap the remainder jumps, to the gate:
the distance never exceeds a period, even where the period does not divide the range of
the counter (`ModSteps`, `NextMultiple`). `BaselineInv` ties the age of the published sample
and the steadiness of the instance to it. `Mirrors` says that a sample in the making has
the entries of the queues below its position, each once, and nothing else;
`FrozenInv` keeps that of the frozen sample while nothing moves, and `ProbeInv` that a
thread that was probed is named exactly if it holds a target.

For the report files, the property is about a path and a flag of history.
`LatestInv` is what connects them: nothing disturbed the freeze and its report is
closed, and the last path names this report; or something did, and no file of
that path is of the freeze. It needs that a path names one file and a freeze has
one report (`OneEach`), which truncation, deletion, retention and the annotation keep
since each leaves a part of the files (`Part`) and adds at most one at the end; and
that a report being written is the last file, the capture mutex being held (`WriterInv`).

**What is only model-checked.** Liveness (`LostWakeupEnds`, `StuckJoinReleases`,
`LeaksAreConfirmed`, `StallsReported`, `FreezesClosed`, `EveryWaiterProceeds`, and the
fairness halves of `ImplementsTempChangeList` and `ImplementsDependableWait`): it rests
on weak and strong fairness, hence on ENABLED, which the prover does not handle. The
type invariant of `JobWaitBreaker` and the order of `QueueInv` are proved and in no run.

## 7. Divergences

Two are shown by a run, with a property that holds and says the opposite of a
document; the quoted lines are in `PROJECT.json`.

1. *The main breaker never confirms* (`SiteA`, `MainNeverConfirmed`, proved as well).
   The work-id captured before id 34554 is compared with the one id 34554 has
   cleared (`skyrim-freeze-fix/src/SiteABreaker.cpp:210`), so that no stuck wait is
   ever released by the breaker that is there for it (`SiteABreaker.h:39`).
2. *A resolution may go to another report* (`Reporter`, `ResolutionMarksItsFreeze`).
   The annotation goes to the report written last (`src/Reporter.cpp:266`), not "to
   the existing report" of the freeze (`dist/FreezeLogger.toml:21`), when the hotkey
   made one since or the report of the freeze could not be opened. If that file does not
open for appending, the resolution is in none (`:265-266`): it is not tried again.

These were met while modelling; each follows from few lines and has no run of its
own.

- *Actors without a process*: the gate sets the flag of every actor
  (`Phase4Defer.cpp:363`), the original ignores one without an AI process, so that it
  is not true of these that "both writes converge to the same final value" (`:143`).
  `FlagFollowsList` excepts them, and the runs have none.
- *A replay that re-enters*: what it defers is drained at once, ahead of older calls
  (`Phase4Defer.cpp:211`), where "per-thread call ordering is preserved" (`:203`). This
  is why `ReplayOrder` is run and proved without re-entry.
- *Alt-tab*: heartbeats are read before the focus (`src/Watchdog.cpp:154`); back from
  alt-tab an old beat meets a new focus and an idle game is captured, while alt-tab
  "must not trip the watchdog" (`docs/spec.md:757`).
- *Focus lost in mid-freeze*: a frozen render thread leaves the window responsive, so
  that losing the focus disarms the warning, and "recovered" is printed after all
  (`src/Watchdog.cpp:113`).
- *The handle*: the breaker loads it after its last look at the episode
  (`JobWaitBreaker.cpp:245`); it may be that of the next wait, though the watchdog
  "always reads a handle that belongs to this episode" (`:145`). With nested waits on
  two lists (`Idx = {i1, i2}`, `MaxDepth = 2`, jobs that progress) `ImplementsDependableWait`
  fails for this reason: the watchdog samples the outer list, whose chain is torn down
  throughout, while the main thread is parked in the nested wait; after the last look
  at the number the main thread leaves both waits and begins the next one, and the
  event of its job is set while the job is at work. On one list, or without nesting,
  this cannot happen (`WaitRefines`); the run has one list.
- *No cycle observed*: the label of `SiteAWorkerAck` says "no BSSpinLock cycle
  observed" (`Verdict.cpp:688`). A worker may be spinning on a lock of the main thread all the
  same: the scan looks for the lock in 14 integer registers (`Verdict.cpp:463-492`), and
  `MainWaitProbe.cpp:768-775` reports that all four spinners of one freeze had lost it
  there. `ReportIsTrue` therefore says nothing of the spinners under this class.
- *Duration*: the annotated duration starts at the capture and lacks the threshold
  that had passed before (`src/Watchdog.h:166`).
- *Intact jobs*: an entry that is intact and unchanged is released too, though the
  header of `JobWaitBreaker` wants the job to be gone.
- *Latest copy*: `freeze_latest.log` never gets the resolution.
- *Baseline handle*: the report advises to look for the main thread's handle among the
  baseline blocks (`src/snapshot/TaskPool.cpp:780`); of a pool that has lost that
  entry but not all, the block is not printed. `HandleIsShown` says when it is.
- *AE builds*: classification relies on SE addresses (`Verdict.cpp:49-58`), the audit
  on anchors, so that on AE a report may say "Unrecognised" and show the site.
- *Idle or not*: "plugin will run idle" (`skyrim-freeze-fix/src/main.cpp:118`) with a
  call site still redirected, after the second write threw; the gate then passes
  everything on (`GatesHaveOriginals`). The log line that names all layers as active
  (`main.cpp:128-134`) is printed with one of them.
- *Deaf*: without SKSE's messaging interface the fifth layer runs and never scans.
- *Leaks*: the owner may wake between `ReproveLeak` and the swap, or release the lock
  and take it again; the word is then equal and the lock not leaked. What is proved
  is the dwell, not that. A lock that was handled once is not retried while it stays.
- *Signature match*: the event is queried before the fields are read
  (`MainWaitProbe.cpp:2128`); a match of a game that moves joins two moments. A Site-A
  wait whose fields cannot be read gets no verdict line, and sections that are said
  to run unconditionally come after two early returns.
- *Steady lock*: two equal samples of a lock word, 150 ms apart, count as a leak; a
  release and a new acquisition in between look the same.
- *Ring buffer*: the stamp is taken before the lock (`src/RingBuffer.cpp:51`), so that
  lines of two threads may be stored against their times, where the header promises
  chronological order (`src/RingBuffer.h:28`).

## 8. Not modelled

- **Suspending walks** (`snapshot/Threads.cpp`, `WaitGraph.cpp`). What can go wrong is
  that a suspended thread owns the lock of the heap, the loader or DbgHelp that the
  walker needs next. Nothing in the code decides whether it does: a model would
  assume it and then find it. That the watchdogs of the two plugins may suspend each
  other belongs here too. That contexts are copied one thread at a time, and are old
  when they are used, is part of `WaitForChain`, `LeakedSpinLockBreaker` and
  `TaskPool`.
- **RingBuffer**: two queues under one mutex; section 7 has the one thing to say.
- **DebugTriggers**: compiled out of releases.
- **AddrLib, Symbols, Config, Logger** of FreezeLogger, and the **Stats** dump: read
  or written once, or printed; no other part relies on their state. The values that
  do matter (thresholds, intervals, switches) are constants or choices in the models.
- **Signature matching**: whether bytes match is decided by one executable. What both
  scans make of the matches is `AnchorScan`.
- **Other probes** (Papyrus, animation, engine, system, modules, dump): they format
  what they find and decide nothing.
- **Scripts and packaging**: no part of the running system.

Of the modelled components: the running flags and `Stop` of the breakers other than
the fifth (never called), load screens, null actors (the flag is skipped, the call
deferred or passed on like any other), the log line of the early warning and its
rate, the hints and wording of a report.
