--------------------------- MODULE JobWaitBreaker ---------------------------
(***************************************************************************)
(* The second layer of WorkerSpinLockFix (JobWaitBreaker.cpp).  The main   *)
(* thread waits in WaitForJobTask for a job whose completion signal may be *)
(* lost.  A wrap around the call publishes the wait as an episode, field by*)
(* field and without a lock; a watchdog thread reads the fields one by one,*)
(* samples the job chain twice, and sets the event the wait is stuck on.   *)
(*                                                                         *)
(* The job pool is modelled from the way JobWaitBreaker.cpp walks it: one  *)
(* manual-reset event per job list, reset when a job is published; the job *)
(* makes progress, completes, or is lost, and its list may be torn down.   *)
(* Handles are named by the list they belong to.  Times are ages: an age   *)
(* is only ever compared with a limit, and is kept up to that limit.       *)
(***************************************************************************)
EXTENDS Naturals, Sequences, SequencesExt

CONSTANTS
    Idx,           \* job lists
    NoIdx,         \* no list, no handle
    Dwell,         \* job_wait_breaker.dwell_threshold_ms
    Recheck,       \* job_wait_breaker.recheck_window_ms
    DetectOnly,    \* job_wait_breaker.detect_only
    Faults,        \* may a walk of the chain fault?
    JobsProgress,  \* does a job at work, and a main thread that can run, move
                   \* in every unit of time?
    MaxDepth,      \* bound: nested calls of WaitForJobTask
    MaxEpisodes    \* bound: waits of the main thread

ASSUME NoIdxAssumption  == NoIdx \notin Idx
ASSUME TimesAssumption  == Dwell \in Nat /\ Recheck \in Nat
ASSUME FlagsAssumption  == {DetectOnly, Faults, JobsProgress} \subseteq BOOLEAN
ASSUME BoundsAssumption == MaxDepth \in Nat \ {0} /\ MaxEpisodes \in Nat

VARIABLES
    main,         \* where the main thread is, see MainPcs
    calls,        \* indices of its open WaitForJobTask calls; tl_depth is its length
    g,            \* g_episode_idx, g_episode_handle, and the age of g_episode_start_ms
    g_seq,        \* g_episode_seq
    g_in_wait,    \* g_in_job_wait
    job,          \* the job published last in each list
    chain,        \* SampleChain's view of each list
    event,        \* is the completion event of each list signalled?
    dog,          \* where the watchdog thread is, see DogPcs
    w,            \* the locals of the watchdog's current pass
    lastHandled,  \* lastHandledSeq
    episodes      \* history: index and age of every episode

wrap == <<main, calls, g, g_seq, g_in_wait>>
pool == <<job, chain, event>>
vars == <<wrap, pool, dog, w, lastHandled, episodes>>

MainPcs == {"out",      \* elsewhere in Main::Update
            "idx", "handle", "start", "seq", "open",  \* the next store of the wrap
            "inside",   \* in WaitForJobTask, the chain not read yet
            "parked",   \* in WaitForSingleObject
            "ret"}      \* WaitForJobTask returned to the wrap
DogPcs  == {"sleep", "seq", "start", "idx", "check", "same1", "sample1",
            "recheck", "same2", "sample2", "handle", "signal"}
Fates   == {"working", "done", "lost"}
Chains  == {"Resolved", "TornDown"}
AnyIdx  == Idx \cup {NoIdx}

\* same: the entry has not changed since the first sample (fp1 == fp2).
NoPass == [seq |-> 0, age |-> 0, idx |-> NoIdx, s1 |-> "TornDown", same |-> FALSE,
           left |-> 0, handle |-> NoIdx]

TypeOK == /\ main \in MainPcs /\ calls \in Seq(Idx) /\ Len(calls) <= MaxDepth
          /\ g \in [idx : AnyIdx, handle : AnyIdx, age : 0..Dwell]
          /\ g_seq \in 0..MaxEpisodes /\ g_in_wait \in BOOLEAN
          /\ job \in [Idx -> Fates] /\ chain \in [Idx -> Chains]
          /\ event \in [Idx -> BOOLEAN]
          /\ dog \in DogPcs /\ lastHandled \in 0..g_seq
          /\ w \in [seq : 0..g_seq, age : 0..Dwell, idx : AnyIdx, s1 : Chains,
                    same : BOOLEAN, left : 0..Recheck, handle : AnyIdx]
          /\ episodes \in Seq([idx : Idx, age : 0..(Dwell + Recheck)])

Init == /\ main = "out" /\ calls = <<>>
        /\ g = [idx |-> NoIdx, handle |-> NoIdx, age |-> 0]
        /\ g_seq = 0 /\ g_in_wait = FALSE
        /\ job   = [i \in Idx |-> "done"]
        /\ chain = [i \in Idx |-> "TornDown"]
        /\ event = [i \in Idx |-> FALSE]
        /\ dog = "sleep" /\ w = NoPass /\ lastHandled = 0
        /\ episodes = <<>>

(***************************************************************************)
(* The job pool.                                                           *)
(***************************************************************************)
Touch(i) == w' = [w EXCEPT !.same = @ /\ w.idx # i]

\* A frame of Main::Update hands a new job to the workers.
Publish(i) ==
    /\ main = "out" /\ job[i] # "working"
    /\ job'   = [job   EXCEPT ![i] = "working"]
    /\ chain' = [chain EXCEPT ![i] = "Resolved"]
    /\ event' = [event EXCEPT ![i] = FALSE]
    /\ Touch(i)
    /\ UNCHANGED <<wrap, dog, lastHandled, episodes>>

Progress(i) == /\ job[i] = "working" /\ Touch(i)
               /\ UNCHANGED <<wrap, pool, dog, lastHandled, episodes>>

Complete(i) ==
    /\ job[i] = "working"
    /\ job'   = [job   EXCEPT ![i] = "done"]
    /\ event' = [event EXCEPT ![i] = TRUE]
    /\ \E c \in Chains : chain' = [chain EXCEPT ![i] = c]
    /\ Touch(i)
    /\ UNCHANGED <<wrap, dog, lastHandled, episodes>>

\* The signal is lost: with the list torn down, or with the entry left as it is.
Lose(i) ==
    /\ job[i] = "working"
    /\ job' = [job EXCEPT ![i] = "lost"]
    /\ \E c \in Chains : chain' = [chain EXCEPT ![i] = c]
    /\ UNCHANGED <<wrap, event, dog, w, lastHandled, episodes>>

Pool == \E i \in Idx : Publish(i) \/ Progress(i) \/ Complete(i) \/ Lose(i)

(***************************************************************************)
(* Detour_WaitForJobTask on the main thread.  The outermost call stores the*)
(* episode, one field per step; a nested one only counts the depth.        *)
(***************************************************************************)
Goto(pc) == main' = pc

Call(i) ==
    /\ \/ main = "out" /\ Len(episodes) < MaxEpisodes /\ Goto("idx")
       \/ main = "inside" /\ Len(calls) < MaxDepth /\ Goto("inside")
    /\ calls' = Append(calls, i)
    /\ UNCHANGED <<g, g_seq, g_in_wait, pool, dog, w, lastHandled, episodes>>

StoreIdx == /\ main = "idx" /\ Goto("handle")
            /\ g' = [g EXCEPT !.idx = calls[1]]
            /\ UNCHANGED <<calls, g_seq, g_in_wait, pool, dog, w, lastHandled, episodes>>

DeriveWaitHandle(i) == IF chain[i] = "TornDown" THEN {NoIdx}
                       ELSE {i} \cup (IF Faults THEN {NoIdx} ELSE {})

StoreHandle ==
    /\ main = "handle" /\ Goto("start")
    /\ \E h \in DeriveWaitHandle(calls[1]) : g' = [g EXCEPT !.handle = h]
    /\ UNCHANGED <<calls, g_seq, g_in_wait, pool, dog, w, lastHandled, episodes>>

StoreStart ==
    /\ main = "start" /\ Goto("seq")
    /\ g' = [g EXCEPT !.age = 0]
    /\ episodes' = Append(episodes, [idx |-> calls[1], age |-> 0])
    /\ UNCHANGED <<calls, g_seq, g_in_wait, pool, dog, w, lastHandled>>

BumpSeq == /\ main = "seq" /\ Goto("open")
           /\ g_seq' = g_seq + 1
           /\ UNCHANGED <<calls, g, g_in_wait, pool, dog, w, lastHandled, episodes>>

Open == /\ main = "open" /\ Goto("inside")
        /\ g_in_wait' = TRUE
        /\ UNCHANGED <<calls, g, g_seq, pool, dog, w, lastHandled, episodes>>

\* The original: a torn chain is not waited for.
ReadChain == /\ main = "inside"
             /\ Goto(IF chain[Last(calls)] = "TornDown" THEN "ret" ELSE "parked")
             /\ UNCHANGED <<calls, g, g_seq, g_in_wait, pool, dog, w, lastHandled, episodes>>

Wake == /\ main = "parked" /\ event[Last(calls)] /\ Goto("ret")
        /\ UNCHANGED <<calls, g, g_seq, g_in_wait, pool, dog, w, lastHandled, episodes>>

Leave ==
    /\ main = "ret"
    /\ calls' = Front(calls)
    /\ g_in_wait' = (g_in_wait /\ Len(calls) > 1)
    /\ Goto(IF Len(calls) = 1 THEN "out" ELSE "inside")
    /\ UNCHANGED <<g, g_seq, pool, dog, w, lastHandled, episodes>>

Store   == StoreIdx \/ StoreHandle \/ StoreStart \/ BumpSeq \/ Open
GoesOn  == Store \/ ReadChain \/ Wake \/ Leave
Waiter  == GoesOn \/ \E i \in Idx : Call(i)

(***************************************************************************)
(* WatchdogLoop.  A pass that finds anything amiss sleeps and starts over. *)
(***************************************************************************)
Step(pc)  == dog' = pc
StandDown == Step("sleep") /\ w' = NoPass
Watches   == UNCHANGED <<wrap, pool, lastHandled, episodes>>

PollEnds  == /\ dog = "sleep" /\ g_in_wait /\ Step("seq")
             /\ UNCHANGED w /\ Watches
ReadSeq   == /\ dog = "seq" /\ Step("start")
             /\ w' = [w EXCEPT !.seq = g_seq] /\ Watches
ReadStart == /\ dog = "start" /\ Step("idx")
             /\ w' = [w EXCEPT !.age = g.age] /\ Watches
ReadIdx   == /\ dog = "idx" /\ Step("check")
             /\ w' = [w EXCEPT !.idx = g.idx] /\ Watches

Parked == w.seq # lastHandled /\ w.age >= Dwell

\* Parked for Dwell, and the wait still open.
Check == /\ dog = "check"
         /\ IF Parked /\ g_in_wait THEN Step("same1") /\ UNCHANGED w ELSE StandDown
         /\ Watches

\* Deviation: the sequence number is not compared after the window.
SameEpisodeOnce == dog = "same2" \/ g_seq = w.seq

SameEpisode == g_seq = w.seq

Same1 == /\ dog = "same1"
         /\ IF SameEpisode THEN Step("sample1") /\ UNCHANGED w ELSE StandDown
         /\ Watches

Unreadable == Faults /\ dog \in {"sample1", "sample2"} /\ StandDown /\ Watches

Sample1 == /\ dog = "sample1" /\ Step("recheck")
           /\ w' = [w EXCEPT !.s1 = chain[w.idx], !.same = TRUE, !.left = Recheck]
           /\ Watches

WindowOver == /\ dog = "recheck" /\ w.left = 0
              /\ IF g_in_wait THEN Step("same2") /\ UNCHANGED w ELSE StandDown
              /\ Watches

Same2 == /\ dog = "same2"
         /\ IF SameEpisode THEN Step("sample2") /\ UNCHANGED w ELSE StandDown
         /\ Watches

\* Deviation: any entry that is still there counts as stalled.
NoProgressLoose == chain[w.idx] = w.s1

\* Torn down in both samples, or intact and unchanged.
NoProgress == chain[w.idx] = w.s1 /\ (w.s1 = "TornDown" \/ w.same)

\* Deviation: the episode counts as handled before its progress is judged.
Sample2HandlesFirst ==
    /\ dog = "sample2"
    /\ lastHandled' = w.seq
    /\ IF ~NoProgress \/ DetectOnly THEN StandDown ELSE Step("handle") /\ UNCHANGED w
    /\ UNCHANGED <<wrap, pool, episodes>>

Sample2 ==
    /\ dog = "sample2"
    /\ IF ~NoProgress THEN StandDown /\ UNCHANGED lastHandled
       ELSE /\ lastHandled' = w.seq
            /\ IF DetectOnly THEN StandDown ELSE Step("handle") /\ UNCHANGED w
    /\ UNCHANGED <<wrap, pool, episodes>>

ReadHandle ==
    /\ dog = "handle"
    /\ IF g.handle = NoIdx THEN StandDown
       ELSE Step("signal") /\ w' = [w EXCEPT !.handle = g.handle]
    /\ Watches

SetEvent == /\ dog = "signal" /\ StandDown
            /\ event' = [event EXCEPT ![w.handle] = TRUE]
            /\ UNCHANGED <<wrap, job, chain, lastHandled, episodes>>

Dog == \/ PollEnds \/ ReadSeq \/ ReadStart \/ ReadIdx \/ Check \/ Same1 \/ Unreadable
       \/ Sample1 \/ WindowOver \/ Same2 \/ Sample2 \/ ReadHandle \/ SetEvent

(***************************************************************************)
(* Time.                                                                   *)
(***************************************************************************)
Older(age, limit) == IF age < limit THEN age + 1 ELSE age

MainAtRest == main = "out" \/ (main = "parked" /\ ~event[Last(calls)])

Tick ==
    /\ JobsProgress => MainAtRest
    /\ g' = [g EXCEPT !.age = Older(@, Dwell)]
    /\ w' = [w EXCEPT !.age  = Older(@, Dwell),
                      !.left = IF @ > 0 THEN @ - 1 ELSE 0,
                      !.same = @ /\ ~(JobsProgress /\ job[w.idx] = "working")]
    /\ episodes' = IF main \in {"out", "idx", "handle", "start"} THEN episodes
                   ELSE [episodes EXCEPT ![Len(episodes)].age =
                                            Older(@, Dwell + Recheck)]
    /\ UNCHANGED <<main, calls, g_seq, g_in_wait, pool, dog, lastHandled>>

Next == Pool \/ Waiter \/ Dog \/ Tick

(***************************************************************************)
(* Both threads are scheduled, time passes, and the chain can be read now  *)
(* and then.  The main thread need not call, nor a job end.                *)
(***************************************************************************)
Fairness == /\ WF_vars(GoesOn) /\ WF_vars(Dog) /\ WF_vars(Tick)
            /\ SF_vars(Sample1) /\ SF_vars(Sample2)

Spec == Init /\ [][Next]_vars /\ Fairness
-----------------------------------------------------------------------------
\* Whatever the threads do between its loads, what the watchdog acts on is one
\* wait: the index it samples is the index of the episode it numbers, and that
\* wait has lasted for the dwell threshold and the window on top of it.
ActsOnOneWait ==
    dog \in {"sample2", "handle", "signal"} =>
        /\ episodes[w.seq].idx = w.idx
        /\ episodes[w.seq].age >= Dwell + Recheck

\* While jobs progress, none is declared stuck before it has ended
\* (JobWaitBreaker.cpp:194-198).
NoLiveJobIsStuck ==
    [][dog' = "handle" /\ dog # "handle" => job[w.idx] # "working"]_vars

\* The breaker turns WaitForJobTask into a wait that never outlives its job and
\* never ends before it.
Abstract == INSTANCE DependableWait WITH
               waiting <- IF main = "parked" THEN Last(calls) ELSE NoIdx

ImplementsDependableWait == Abstract!Spec

\* A wait whose signal is lost ends, whatever was read or torn down in between,
\* provided its handle could be derived when it began.
LostWakeupEnds ==
    (/\ main = "parked" /\ Len(calls) = 1
     /\ g.handle = calls[1] /\ job[calls[1]] = "lost") ~> main # "parked"
=============================================================================
