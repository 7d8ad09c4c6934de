-------------------------------- MODULE SiteA --------------------------------
(***************************************************************************)
(* The third and fourth layer of WorkerSpinLockFix (SiteABreaker.cpp,      *)
(* SiteARenderBreaker.cpp) on the hand-shake they share, Singleton-A.  The *)
(* main thread asks the render worker for one job and waits for its ack in *)
(* id 34554; the worker joins the sub-tasks of the job in id 34557 and then*)
(* signals.  A wrap around each of the two functions publishes an episode; *)
(* a watchdog thread of its own reads it, samples Singleton-A twice, and   *)
(* sets the ack.                                                           *)
(*                                                                         *)
(* The two breakers are the same code but for what opens an episode and    *)
(* for the pending flag; they are indexed by the thread they watch.  The   *)
(* hand-shake is modelled from the disassembly in MainWaitProbe.cpp:19-36  *)
(* and case-study 29; the ack is reset when a job is asked for.  The two   *)
(* functions wait and do not call themselves, so that tl_depth is 0 or 1.  *)
(* Times are ages, kept up to the limit they are compared with.            *)
(***************************************************************************)
EXTENDS Naturals

CONSTANTS
    Armed,          \* the breakers that are installed
    Dwell,          \* dwell_threshold_ms of both
    Recheck,        \* recheck_window_ms of both
    DetectOnly,     \* detect_only of both
    Faults,         \* may a read of Singleton-A fault?
    Paced,          \* does whatever can go on do so in every unit of time?
    MaxDispatches   \* bound: jobs the main thread asks for

Breakers == {"main", "render"}

ASSUME ArmedAssumption == Armed \subseteq Breakers
ASSUME TimesAssumption == Dwell \in Nat \ {0} /\ Recheck \in Nat
ASSUME FlagsAssumption == {DetectOnly, Faults, Paced} \subseteq BOOLEAN
ASSUME BoundAssumption == MaxDispatches \in Nat

VARIABLES
    pc,        \* where the two engine threads are, see Pcs
    workid,    \* Singleton-A[+0x68]
    pending,   \* Singleton-A[+0x6c]
    wake,      \* the auto-reset event [+0x58]
    ack,       \* the manual-reset event [+0x60]
    g,         \* g_episode_workid and the age of g_episode_start_ms
    g_seq,     \* g_episode_seq
    g_in_wait, \* g_in_wait
    dog,       \* where each watchdog thread is, see DogPcs
    w,         \* the locals of its current pass
    handled,   \* its lastHandledSeq
    asked,     \* history: jobs asked for
    taken,     \* history: the job the worker took last
    served     \* history: the job the worker acknowledged last

shake   == <<workid, pending, wake, ack>>
episode == <<g, g_seq, g_in_wait>>
watch   == <<dog, w, handled>>
jobs    == <<asked, taken, served>>
vars    == <<pc, shake, episode, watch, jobs>>

Pcs    == {"out",     \* main: elsewhere; render: waiting for the wake
           "enter", "start", "seq", "open",  \* in the wrap, before its next store
           "inside",  \* in id 34554, before the wait; in id 34557
           "parked",  \* main: in WaitForSingleObjectEx; render: for ever in a join
           "ret",     \* back in the wrap
           "ack"}     \* render: about to signal
DogPcs == {"sleep", "seq", "start", "wid", "check", "same1", "sample1", "recheck",
           "same2", "sample2", "query", "signal"}

\* id 34553 and id 34552 write one of these; id 34554 clears it.
WorkIds == {1, 2}

NoPass == [seq |-> 0, age |-> 0, wid |-> 0, s1 |-> 0, left |-> 0]

TypeOK == /\ pc \in [Breakers -> Pcs]
          /\ workid \in WorkIds \cup {0} /\ pending \in BOOLEAN
          /\ wake \in BOOLEAN /\ ack \in BOOLEAN
          /\ g \in [Breakers -> [wid : WorkIds \cup {0}, age : 0..Dwell]]
          /\ g_seq \in [Breakers -> 0..MaxDispatches]
          /\ g_in_wait \in [Breakers -> BOOLEAN]
          /\ dog \in [Breakers -> DogPcs]
          /\ w \in [Breakers -> [seq : 0..MaxDispatches, age : 0..Dwell,
                                 wid : WorkIds \cup {0}, s1 : WorkIds \cup {0},
                                 left : 0..Recheck]]
          /\ handled \in [Breakers -> 0..MaxDispatches]
          /\ asked \in 0..MaxDispatches /\ taken \in 0..asked /\ served \in 0..taken

Init == /\ pc = [b \in Breakers |-> "out"]
        /\ workid = 0 /\ pending = FALSE /\ wake = FALSE /\ ack = FALSE
        /\ g = [b \in Breakers |-> [wid |-> 0, age |-> 0]]
        /\ g_seq = [b \in Breakers |-> 0]
        /\ g_in_wait = [b \in Breakers |-> FALSE]
        /\ dog = [b \in Breakers |-> "sleep"]
        /\ w = [b \in Breakers |-> NoPass]
        /\ handled = [b \in Breakers |-> 0]
        /\ asked = 0 /\ taken = 0 /\ served = 0

Goto(t, l) == pc' = [pc EXCEPT ![t] = l]

(***************************************************************************)
(* The engine.  The main thread asks for a job and calls id 34554, which   *)
(* waits when a job is pending; the worker takes the wake, calls id 34557, *)
(* and signals.  A join whose sub-task is gone never returns.              *)
(***************************************************************************)
Dispatch ==
    /\ pc["main"] = "out" /\ ~pending /\ asked < MaxDispatches
    /\ \E id \in WorkIds : workid' = id
    /\ pending' = TRUE /\ wake' = TRUE /\ ack' = FALSE
    /\ asked' = asked + 1
    /\ Goto("main", "enter")
    /\ UNCHANGED <<episode, watch, taken, served>>

\* id 34554 is also called with nothing pending.
CallIdle ==
    /\ pc["main"] = "out" /\ Goto("main", "enter")
    /\ UNCHANGED <<shake, episode, watch, jobs>>

TakeWake ==
    /\ pc["render"] = "out" /\ wake
    /\ wake' = FALSE /\ taken' = asked
    /\ Goto("render", "enter")
    /\ UNCHANGED <<workid, pending, ack, episode, watch, asked, served>>

BeginWait ==
    /\ pc["main"] = "inside"
    /\ IF pending THEN workid' = 0 /\ Goto("main", "parked")
                  ELSE Goto("main", "ret") /\ UNCHANGED workid
    /\ UNCHANGED <<pending, wake, ack, episode, watch, jobs>>

EndWait ==
    /\ pc["main"] = "parked" /\ ack
    /\ pending' = FALSE /\ Goto("main", "ret")
    /\ UNCHANGED <<workid, wake, ack, episode, watch, jobs>>

Join(l) == /\ pc["render"] = "inside" /\ Goto("render", l)
           /\ UNCHANGED <<shake, episode, watch, jobs>>

JoinReturns == Join("ret")
JoinSticks  == Join("parked")

Signal ==
    /\ pc["render"] = "ack"
    /\ ack' = TRUE /\ served' = taken
    /\ Goto("render", "out")
    /\ UNCHANGED <<workid, pending, wake, episode, watch, asked, taken>>

(***************************************************************************)
(* Detour_SiteA and Detour_RenderTask: the outermost call stores the       *)
(* episode, when Singleton-A can be read and, on the main thread, a wait is*)
(* scheduled.  The handle of the ack never changes and is left out.        *)
(***************************************************************************)
\* Deviation: an episode is opened though no wait is scheduled.
WatchedIdle(b) == b \in Armed

Watched(b) == b \in Armed /\ (b = "main" => pending)

Enter(b) ==
    /\ pc[b] = "enter"
    /\ \/ Watched(b) /\ Goto(b, "start") /\ g' = [g EXCEPT ![b].wid = workid]
       \/ /\ ~Watched(b) \/ Faults
          /\ Goto(b, "inside") /\ UNCHANGED g
    /\ UNCHANGED <<shake, g_seq, g_in_wait, watch, jobs>>

StoreStart(b) ==
    /\ pc[b] = "start" /\ Goto(b, "seq")
    /\ g' = [g EXCEPT ![b].age = 0]
    /\ UNCHANGED <<shake, g_seq, g_in_wait, watch, jobs>>

BumpSeq(b) ==
    /\ pc[b] = "seq" /\ Goto(b, "open")
    /\ g_seq' = [g_seq EXCEPT ![b] = @ + 1]
    /\ UNCHANGED <<shake, g, g_in_wait, watch, jobs>>

Open(b) ==
    /\ pc[b] = "open" /\ Goto(b, "inside")
    /\ g_in_wait' = [g_in_wait EXCEPT ![b] = TRUE]
    /\ UNCHANGED <<shake, g, g_seq, watch, jobs>>

\* Deviation: the epilogue leaves the episode open.
LeaveOpen(b) ==
    /\ pc[b] = "ret" /\ Goto(b, IF b = "main" THEN "out" ELSE "ack")
    /\ UNCHANGED <<shake, episode, watch, jobs>>

Leave(b) ==
    /\ pc[b] = "ret" /\ Goto(b, IF b = "main" THEN "out" ELSE "ack")
    /\ g_in_wait' = [g_in_wait EXCEPT ![b] = FALSE]
    /\ UNCHANGED <<shake, g, g_seq, watch, jobs>>

Wrap(b) == Enter(b) \/ StoreStart(b) \/ BumpSeq(b) \/ Open(b) \/ Leave(b)

\* What the engine does once it has been asked.
GoesOn == TakeWake \/ BeginWait \/ EndWait \/ Signal \/ \E b \in Breakers : Wrap(b)

(***************************************************************************)
(* The two WatchdogLoops.  A pass that finds anything amiss sleeps and     *)
(* starts over.                                                            *)
(***************************************************************************)
Step(b, l)   == dog' = [dog EXCEPT ![b] = l]
StandDown(b) == Step(b, "sleep") /\ w' = [w EXCEPT ![b] = NoPass]
Watches      == UNCHANGED <<pc, shake, episode, handled, jobs>>

PollEnds(b)  == /\ dog[b] = "sleep" /\ g_in_wait[b] /\ Step(b, "seq")
                /\ UNCHANGED w /\ Watches
ReadSeq(b)   == /\ dog[b] = "seq" /\ Step(b, "start")
                /\ w' = [w EXCEPT ![b].seq = g_seq[b]] /\ Watches
ReadStart(b) == /\ dog[b] = "start" /\ Step(b, "wid")
                /\ w' = [w EXCEPT ![b].age = g[b].age] /\ Watches
ReadWid(b)   == /\ dog[b] = "wid" /\ Step(b, "check")
                /\ w' = [w EXCEPT ![b].wid = g[b].wid] /\ Watches

LongEnough(b) == w[b].seq # handled[b] /\ w[b].age >= Dwell

Check(b) == /\ dog[b] = "check"
            /\ IF LongEnough(b) /\ g_in_wait[b] THEN Step(b, "same1") /\ UNCHANGED w
                                                ELSE StandDown(b)
            /\ Watches

SameEpisode(b) == g_seq[b] = w[b].seq

Same1(b) == /\ dog[b] = "same1"
            /\ IF SameEpisode(b) THEN Step(b, "sample1") /\ UNCHANGED w ELSE StandDown(b)
            /\ Watches

\* The render breaker does not look at the pending flag.
StillPending(b) == b = "main" => pending

Unreadable(b) == Faults /\ dog[b] \in {"sample1", "sample2"} /\ StandDown(b) /\ Watches

\* Deviation: the episode counts as handled before it is confirmed.
Sample1Handles(b) ==
    /\ dog[b] = "sample1" /\ StillPending(b)
    /\ Step(b, "recheck")
    /\ w' = [w EXCEPT ![b].s1 = workid, ![b].left = Recheck]
    /\ handled' = [handled EXCEPT ![b] = w[b].seq]
    /\ UNCHANGED <<pc, shake, episode, jobs>>

Sample1(b) == /\ dog[b] = "sample1"
              /\ IF StillPending(b)
                 THEN /\ Step(b, "recheck")
                      /\ w' = [w EXCEPT ![b].s1 = workid, ![b].left = Recheck]
                 ELSE StandDown(b)
              /\ Watches

WindowOver(b) == /\ dog[b] = "recheck" /\ w[b].left = 0
                 /\ IF g_in_wait[b] THEN Step(b, "same2") /\ UNCHANGED w ELSE StandDown(b)
                 /\ Watches

Same2(b) == /\ dog[b] = "same2"
            /\ IF SameEpisode(b) THEN Step(b, "sample2") /\ UNCHANGED w ELSE StandDown(b)
            /\ Watches

\* Deviation: the samples are compared with each other, not with the entry.
ZeroProgressSamples(b) == w[b].s1 = workid

ZeroProgress(b) == w[b].s1 = workid /\ workid = w[b].wid

Sample2(b) == /\ dog[b] = "sample2"
              /\ IF StillPending(b) /\ ZeroProgress(b)
                 THEN Step(b, "query") /\ UNCHANGED w
                 ELSE StandDown(b)
              /\ Watches

\* NtQueryEvent: a thread whose ack is signalled is about to wake.
Query(b) ==
    /\ dog[b] = "query"
    /\ IF ack THEN StandDown(b) /\ UNCHANGED handled
       ELSE /\ handled' = [handled EXCEPT ![b] = w[b].seq]
            /\ IF DetectOnly THEN StandDown(b) ELSE Step(b, "signal") /\ UNCHANGED w
    /\ UNCHANGED <<pc, shake, episode, jobs>>

SetEvent(b) == /\ dog[b] = "signal" /\ StandDown(b)
               /\ ack' = TRUE
               /\ UNCHANGED <<pc, workid, pending, wake, episode, handled, jobs>>

Dog(b) == \/ PollEnds(b) \/ ReadSeq(b) \/ ReadStart(b) \/ ReadWid(b) \/ Check(b)
          \/ Same1(b) \/ Unreadable(b) \/ Sample1(b) \/ WindowOver(b) \/ Same2(b)
          \/ Sample2(b) \/ Query(b) \/ SetEvent(b)

(***************************************************************************)
(* Time.  A job that is not stuck takes a frame, which is less than a unit.*)
(***************************************************************************)
Older(age, limit) == IF age < limit THEN age + 1 ELSE age

AtRest == /\ pc["main"] = "out" \/ (pc["main"] = "parked" /\ ~ack)
          /\ pc["render"] = "parked" \/ (pc["render"] = "out" /\ ~wake)

Tick ==
    /\ Paced => AtRest
    /\ g' = [b \in Breakers |-> [g[b] EXCEPT !.age = Older(@, Dwell)]]
    /\ w' = [b \in Breakers |-> [w[b] EXCEPT !.age  = Older(@, Dwell),
                                             !.left = IF @ > 0 THEN @ - 1 ELSE 0]]
    /\ UNCHANGED <<pc, shake, g_seq, g_in_wait, dog, handled, jobs>>

Next == \/ Dispatch \/ CallIdle \/ JoinReturns \/ JoinSticks
        \/ GoesOn \/ (\E b \in Breakers : Dog(b)) \/ Tick

(***************************************************************************)
(* All four threads are scheduled, time passes, and Singleton-A can be read*)
(* now and then.  The main thread need not ask, nor a join return.         *)
(***************************************************************************)
Fairness ==
    /\ WF_vars(TakeWake) /\ WF_vars(BeginWait) /\ WF_vars(EndWait) /\ WF_vars(Signal)
    /\ WF_vars(Tick)
    /\ \A b \in Breakers : /\ WF_vars(Wrap(b)) /\ WF_vars(Dog(b))
                           /\ SF_vars(Sample1(b)) /\ SF_vars(Sample2(b))

Spec == Init /\ [][Next]_vars /\ Fairness
-----------------------------------------------------------------------------
Stuck == pc["render"] = "parked"

Abstract == INSTANCE DependableWait WITH
               Idx     <- {"A"},
               NoIdx   <- "none",
               waiting <- IF pc["main"] = "parked" THEN "A" ELSE "none",
               job     <- [i \in {"A"} |-> IF served = asked THEN "done"
                                           ELSE IF Stuck THEN "lost" ELSE "working"]

\* While jobs take a frame or for ever, no breaker and no late signal lets the
\* main thread go on before its job is acknowledged or its worker stuck, not
\* even between the query of the ack and its SetEvent ("no healthy frame is
\* ever touched", SiteABreaker.h:44-46).
ReturnsOnlyWhenOver == Abstract!Safety

\* The work-id that id 34554 clears before it waits is the one the wrap of the
\* main thread has captured (SiteABreaker.cpp:147,210): two samples that agree
\* never agree with the entry, and SiteABreaker confirms nothing.
MainNeverConfirmed == dog["main"] \notin {"query", "signal"}

\* In active mode the render breaker releases the main thread from a stuck join,
\* however often a read faults; but once only, and only if the join began after
\* id 34554 had cleared the work-id (SiteARenderBreaker.cpp:202,229).
StuckJoinReleases ==
    (/\ Stuck /\ pc["main"] = "parked" /\ g_in_wait["render"]
     /\ g["render"].wid = 0 /\ handled["render"] # g_seq["render"])
        ~> pc["main"] # "parked"
=============================================================================
