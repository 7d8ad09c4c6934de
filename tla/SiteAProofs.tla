----------------------------- MODULE SiteAProofs -----------------------------
(***************************************************************************)
(* SiteABreaker never confirms a stuck wait, for any thresholds and any    *)
(* number of jobs, as long as the main thread, once it has stored an       *)
(* episode, reaches the wait before time passes (Paced).                   *)
(*                                                                         *)
(* The id captured at entry is one that was asked with, never 0.  To be    *)
(* confirmed, both samples have to find it: the first outside the wait, so *)
(* that it belongs to a later episode than the one that was numbered, or   *)
(* to none; then the look at the number after the window fails.            *)
(***************************************************************************)
EXTENDS SiteA, TLAPS

Storing == {"enter", "start", "seq"}

\* Each episode takes a job of its own: of the main thread and of the worker.
CountInv ==
    /\ g_seq["main"] <= asked
    /\ pc["main"] \in Storing /\ pending => g_seq["main"] < asked
    /\ g_seq["render"] <= asked
    /\ pc["render"] \in Storing => g_seq["render"] < asked
    /\ wake => g_seq["render"] < asked
    /\ pc["render"] \in Storing /\ wake => g_seq["render"] + 1 < asked

\* The work-id is that of the job until the main thread is parked.
MainInv ==
    /\ pending => pc["main"] \in {"enter", "start", "seq", "open", "inside", "parked"}
    /\ pending /\ pc["main"] # "parked" => workid # 0
    /\ pc["main"] = "parked" => workid = 0
    /\ pc["main"] \in {"start", "seq", "open"} => pending
    /\ g_in_wait["main"] => pc["main"] \in {"inside", "parked", "ret"}

\* The main thread is between the store of its number and the wait.
Approach == pc["main"] = "open" \/ (pc["main"] = "inside" /\ g_in_wait["main"])

Current == w["main"].seq = g_seq["main"]

\* What the watchdog of the main thread has read.
DogInv ==
    /\ pc["main"] \in {"start", "seq", "open"} \/ g_in_wait["main"] \/ dog["main"] # "sleep"
          => g["main"].wid # 0
    /\ dog["main"] \notin {"sleep", "seq", "start", "wid"} => w["main"].wid # 0
    /\ w["main"].seq <= g_seq["main"]
    /\ pc["main"] = "seq" \/ Approach => g["main"].age = 0
    /\ dog["main"] \in {"wid", "check"} /\ Current /\ Approach => w["main"].age = 0
    /\ dog["main"] \in {"same1", "sample1", "recheck", "same2", "sample2"} /\ Current
          => ~Approach
    /\ dog["main"] \in {"recheck", "same2", "sample2"} /\ w["main"].s1 # 0 /\ Current
          => ~g_in_wait["main"]
    /\ dog["main"] = "same2" /\ w["main"].s1 # 0 => ~Current
    /\ dog["main"] = "sample2" => w["main"].s1 = 0
    /\ MainNeverConfirmed

Base == TypeOK /\ CountInv /\ MainInv

Inv == Base /\ DogInv
-----------------------------------------------------------------------------
Flags == /\ pending \in BOOLEAN /\ wake \in BOOLEAN /\ ack \in BOOLEAN
         /\ g_in_wait \in [Breakers -> BOOLEAN]

Fields == [wid : WorkIds \cup {0}, age : 0..Dwell]
Pass   == [seq : 0..MaxDispatches, age : 0..Dwell, wid : WorkIds \cup {0},
           s1 : WorkIds \cup {0}, left : 0..Recheck]

LEMMA InitInv == Init => Inv
<1> SUFFICES ASSUME Init PROVE Inv OBVIOUS
<1> USE TimesAssumption, BoundAssumption DEF Init
<1>1. TypeOK
  <2>1. [wid |-> 0, age |-> 0] \in Fields BY DEF Fields
  <2>2. NoPass \in Pass BY DEF NoPass, Pass
  <2>3. g \in [Breakers -> Fields] /\ w \in [Breakers -> Pass] BY <2>1, <2>2
  <2>4. /\ pc \in [Breakers -> Pcs] /\ dog \in [Breakers -> DogPcs]
        /\ g_seq \in [Breakers -> 0..MaxDispatches]
        /\ handled \in [Breakers -> 0..MaxDispatches]
    BY DEF Pcs, DogPcs
  <2>5. Flags BY DEF Flags
  <2>6. asked \in 0..MaxDispatches /\ taken \in 0..asked /\ served \in 0..taken
    OBVIOUS
  <2> QED BY <2>3, <2>4, <2>5, <2>6 DEF TypeOK, Fields, Pass, Flags
<1>2. CountInv BY DEF CountInv, Breakers, Storing
<1>3. MainInv BY DEF MainInv, Breakers
<1>4. DogInv BY DEF DogInv, Breakers, NoPass, Approach, Current, MainNeverConfirmed
<1> QED BY <1>1, <1>2, <1>3, <1>4 DEF Inv, Base

LEMMA CountStep == Base /\ Next => CountInv'
<1> SUFFICES ASSUME Base, Next PROVE CountInv' OBVIOUS
<1> USE DEF CountInv, Storing, Breakers
<1>0. /\ pc \in [Breakers -> Pcs] /\ asked \in Nat /\ g_seq \in [Breakers -> Nat]
      /\ CountInv
  BY BoundAssumption DEF Base, TypeOK
<1>m. pc["main"] \in {"start", "seq", "open"} => pending BY DEF Base, MainInv
<1>1. CASE Dispatch BY <1>0, <1>1 DEF Dispatch, Goto, episode
<1>2. CASE CallIdle
  <2>1. ~pending => CountInv' BY <1>0, <1>2 DEF CallIdle, Goto, episode, shake, jobs
  <2>2. ~pending BY <1>2 DEF CallIdle, Base, MainInv
  <2> QED BY <2>1, <2>2
<1>3. CASE TakeWake BY <1>0, <1>3 DEF TakeWake, Goto, episode
<1>4. CASE BeginWait BY <1>0, <1>4 DEF BeginWait, Goto, episode, jobs
<1>5. CASE EndWait BY <1>0, <1>5 DEF EndWait, Goto, episode, jobs
<1>6. CASE Signal BY <1>0, <1>6 DEF Signal, Goto, episode
<1>7. CASE JoinReturns \/ JoinSticks
  BY <1>0, <1>7 DEF JoinReturns, JoinSticks, Join, Goto, episode, shake, jobs
<1>8. ASSUME NEW b \in Breakers, Enter(b) PROVE CountInv'
  <2>1. CASE b = "main"
    BY <1>0, <1>8, <2>1 DEF Enter, Watched, Goto, shake, jobs
  <2>2. CASE b = "render"
    BY <1>0, <1>8, <2>2 DEF Enter, Watched, Goto, shake, jobs
  <2> QED BY <2>1, <2>2
<1>9. ASSUME NEW b \in Breakers, StoreStart(b) PROVE CountInv'
  BY <1>0, <1>9 DEF StoreStart, Goto, shake, jobs
<1>10. ASSUME NEW b \in Breakers, BumpSeq(b) PROVE CountInv'
  <2>1. CASE b = "main" BY <1>0, <1>m, <1>10, <2>1 DEF BumpSeq, Goto, shake, jobs
  <2>2. CASE b = "render" BY <1>0, <1>10, <2>2 DEF BumpSeq, Goto, shake, jobs
  <2> QED BY <2>1, <2>2
<1>11. ASSUME NEW b \in Breakers, Open(b) PROVE CountInv'
  BY <1>0, <1>11 DEF Open, Goto, shake, jobs
<1>12. ASSUME NEW b \in Breakers, Leave(b) PROVE CountInv'
  BY <1>0, <1>12 DEF Leave, Goto, shake, jobs
<1>13. ASSUME NEW b \in Breakers, Dog(b) PROVE CountInv'
  <2>1. UNCHANGED <<pc, pending, wake, g_seq, asked>>
    BY <1>13 DEF Dog, PollEnds, ReadSeq, ReadStart, ReadWid, Check, Same1, Unreadable,
       Sample1, WindowOver, Same2, Sample2, Query, SetEvent, Watches, shake, episode, jobs
  <2> QED BY <1>0, <2>1
<1>14. CASE Tick BY <1>0, <1>14 DEF Tick, shake, jobs
<1> QED BY <1>1, <1>2, <1>3, <1>4, <1>5, <1>6, <1>7, <1>8, <1>9, <1>10, <1>11, <1>12,
           <1>13, <1>14 DEF Next, GoesOn, Wrap

LEMMA MainStep == Base /\ Next => MainInv'
<1> SUFFICES ASSUME Base, Next PROVE MainInv' OBVIOUS
<1> USE DEF MainInv, Breakers
<1>0. /\ pc \in [Breakers -> Pcs] /\ g_in_wait \in [Breakers -> BOOLEAN] /\ MainInv
  BY DEF Base, TypeOK
<1>1. CASE Dispatch BY <1>0, <1>1 DEF Dispatch, Goto, episode, WorkIds
<1>2. CASE CallIdle BY <1>0, <1>2 DEF CallIdle, Goto, episode, shake
<1>3. CASE TakeWake BY <1>0, <1>3 DEF TakeWake, Goto, episode
<1>4. CASE BeginWait BY <1>0, <1>4 DEF BeginWait, Goto, episode
<1>5. CASE EndWait BY <1>0, <1>5 DEF EndWait, Goto, episode
<1>6. CASE Signal BY <1>0, <1>6 DEF Signal, Goto, episode
<1>7. CASE JoinReturns \/ JoinSticks
  BY <1>0, <1>7 DEF JoinReturns, JoinSticks, Join, Goto, episode, shake
<1>8. ASSUME NEW b \in Breakers, Enter(b) PROVE MainInv'
  BY <1>0, <1>8 DEF Enter, Watched, Goto, shake
<1>9. ASSUME NEW b \in Breakers, StoreStart(b) PROVE MainInv'
  BY <1>0, <1>9 DEF StoreStart, Goto, shake
<1>10. ASSUME NEW b \in Breakers, BumpSeq(b) PROVE MainInv'
  BY <1>0, <1>10 DEF BumpSeq, Goto, shake
<1>11. ASSUME NEW b \in Breakers, Open(b) PROVE MainInv'
  BY <1>0, <1>11 DEF Open, Goto, shake
<1>12. ASSUME NEW b \in Breakers, Leave(b) PROVE MainInv'
  BY <1>0, <1>12 DEF Leave, Goto, shake
<1>13. ASSUME NEW b \in Breakers, Dog(b) PROVE MainInv'
  <2>1. UNCHANGED <<pc, pending, workid, g_in_wait>>
    BY <1>13 DEF Dog, PollEnds, ReadSeq, ReadStart, ReadWid, Check, Same1, Unreadable,
       Sample1, WindowOver, Same2, Sample2, Query, SetEvent, Watches, shake, episode
  <2> QED BY <1>0, <2>1
<1>14. CASE Tick BY <1>0, <1>14 DEF Tick, shake
<1> QED BY <1>1, <1>2, <1>3, <1>4, <1>5, <1>6, <1>7, <1>8, <1>9, <1>10, <1>11, <1>12,
           <1>13, <1>14 DEF Next, GoesOn, Wrap

\* What DogInv speaks about.
DogView == <<pc["main"], g["main"], g_seq["main"], g_in_wait["main"], dog["main"],
             w["main"]>>

LEMMA ViewStep == DogInv /\ UNCHANGED DogView => DogInv'
BY DEF DogInv, DogView, Approach, Current, MainNeverConfirmed

LEMMA OtherSteps ==
    ASSUME Inv,
           \/ TakeWake \/ Signal \/ JoinReturns \/ JoinSticks
           \/ Wrap("render") \/ Dog("render")
    PROVE  DogInv'
<1>0. /\ pc \in [Breakers -> Pcs] /\ dog \in [Breakers -> DogPcs]
      /\ g \in [Breakers -> Fields] /\ w \in [Breakers -> Pass]
      /\ g_seq \in [Breakers -> 0..MaxDispatches] /\ g_in_wait \in [Breakers -> BOOLEAN]
  BY DEF Inv, Base, TypeOK, Fields, Pass
<1>1. CASE TakeWake \/ Signal \/ JoinReturns \/ JoinSticks
  <2>1. UNCHANGED DogView
    BY <1>0, <1>1 DEF TakeWake, Signal, JoinReturns, JoinSticks, Join, Goto, DogView,
       episode, watch, Breakers
  <2> QED BY <2>1, ViewStep DEF Inv, Base
<1>2. CASE Wrap("render")
  <2>1. UNCHANGED DogView
    BY <1>0, <1>2 DEF Wrap, Enter, StoreStart, BumpSeq, Open, Leave, Goto, DogView,
       watch, Breakers
  <2> QED BY <2>1, ViewStep DEF Inv, Base
<1>3. CASE Dog("render")
  <2>1. /\ UNCHANGED <<pc, g, g_seq, g_in_wait>>
        /\ w'["main"] = w["main"] /\ dog'["main"] = dog["main"]
    BY <1>0, <1>3 DEF Dog, PollEnds, ReadSeq, ReadStart, ReadWid, Check, Same1,
       Unreadable, Sample1, WindowOver, Same2, Sample2, Query, SetEvent, Watches,
       StandDown, Step, episode, Breakers
  <2>2. UNCHANGED DogView BY <2>1 DEF DogView
  <2> QED BY <2>2, ViewStep DEF Inv, Base
<1> QED BY <1>1, <1>2, <1>3

LEMMA EngineSteps ==
    ASSUME Inv, Dispatch \/ CallIdle \/ BeginWait \/ EndWait \/ Wrap("main")
    PROVE  DogInv'
<1> USE DEF DogInv, Approach, Current, MainNeverConfirmed, Breakers
<1>0. /\ pc \in [Breakers -> Pcs] /\ g \in [Breakers -> Fields]
      /\ g_seq \in [Breakers -> Nat] /\ g_in_wait \in [Breakers -> BOOLEAN]
      /\ w["main"].seq \in Nat /\ DogInv
  BY BoundAssumption DEF Inv, Base, TypeOK, Fields
<1>m. MainInv BY DEF Inv, Base
<1>1. CASE Dispatch \/ CallIdle \/ BeginWait \/ EndWait
  <2>1. UNCHANGED <<g, g_seq, g_in_wait, dog, w>>
    BY <1>1 DEF Dispatch, CallIdle, BeginWait, EndWait, episode, watch
  <2>2. pc'["main"] \in {"enter", "parked", "ret"}
    BY <1>0, <1>1 DEF Dispatch, CallIdle, BeginWait, EndWait, Goto
  <2> QED BY <1>0, <2>1, <2>2
<1>2. CASE Enter("main")
  <2>1. UNCHANGED <<g_seq, g_in_wait, dog, w>> BY <1>2 DEF Enter, watch
  <2>2. CASE pc'["main"] = "start"
    <3>1. g'["main"].wid = workid /\ workid # 0
      BY <1>0, <1>m, <1>2, <2>2 DEF Enter, Watched, Goto, MainInv, Fields
    <3>2. ~g_in_wait["main"] BY <1>m, <1>2 DEF Enter, MainInv
    <3> QED BY <1>0, <2>1, <2>2, <3>1, <3>2
  <2>3. CASE pc'["main"] = "inside" /\ UNCHANGED g
    <3>1. ~g_in_wait["main"] BY <1>m, <1>2 DEF Enter, MainInv
    <3> QED BY <1>0, <2>1, <2>3, <3>1
  <2> QED BY <1>0, <1>2, <2>2, <2>3 DEF Enter, Goto
<1>3. CASE StoreStart("main")
  <2>1. UNCHANGED <<g_seq, g_in_wait, dog, w>> BY <1>3 DEF StoreStart, watch
  <2>2. /\ pc["main"] = "start" /\ pc'["main"] = "seq"
        /\ g'["main"].age = 0 /\ g'["main"].wid = g["main"].wid
    BY <1>0, <1>3 DEF StoreStart, Goto, Fields
  <2> QED BY <1>0, <2>1, <2>2
<1>4. CASE BumpSeq("main")
  <2>1. UNCHANGED <<g, g_in_wait, dog, w>> BY <1>4 DEF BumpSeq, watch
  <2>2. /\ pc["main"] = "seq" /\ pc'["main"] = "open"
        /\ g_seq'["main"] = g_seq["main"] + 1
    BY <1>0, <1>4 DEF BumpSeq, Goto
  <2> QED BY <1>0, <2>1, <2>2
<1>5. CASE Open("main")
  <2>1. UNCHANGED <<g, g_seq, dog, w>> BY <1>5 DEF Open, watch
  <2>2. pc["main"] = "open" /\ pc'["main"] = "inside" /\ g_in_wait'["main"]
    BY <1>0, <1>5 DEF Open, Goto
  <2> QED BY <1>0, <2>1, <2>2
<1>6. CASE Leave("main")
  <2>1. UNCHANGED <<g, g_seq, dog, w>> BY <1>6 DEF Leave, watch
  <2>2. pc["main"] = "ret" /\ pc'["main"] = "out" /\ ~g_in_wait'["main"]
    BY <1>0, <1>6 DEF Leave, Goto
  <2> QED BY <1>0, <2>1, <2>2
<1> QED BY <1>1, <1>2, <1>3, <1>4, <1>5, <1>6 DEF Wrap

LEMMA WatchdogSteps == ASSUME Inv, Dog("main") PROVE DogInv'
<1> USE DEF DogInv, Approach, Current, MainNeverConfirmed, Breakers
<1>0. /\ dog \in [Breakers -> DogPcs] /\ w \in [Breakers -> Pass]
      /\ g \in [Breakers -> Fields] /\ g_seq \in [Breakers -> Nat]
      /\ w["main"].seq \in Nat /\ Dwell \in Nat \ {0} /\ DogInv
  BY BoundAssumption, TimesAssumption DEF Inv, Base, TypeOK, Fields, Pass
<1>m. MainInv BY DEF Inv, Base
<1>1. UNCHANGED <<pc, workid, pending, g, g_seq, g_in_wait>>
  BY DEF Dog, PollEnds, ReadSeq, ReadStart, ReadWid, Check, Same1, Unreadable, Sample1,
     WindowOver, Same2, Sample2, Query, SetEvent, Watches, episode, shake
<1>2. ASSUME StandDown("main") PROVE DogInv'
  <2>1. dog'["main"] = "sleep" /\ w'["main"].seq = 0
    BY <1>0, <1>2 DEF StandDown, Step, NoPass
  <2> QED BY <1>0, <1>1, <2>1
<1>3. ASSUME UNCHANGED w, NEW l \in DogPcs, Step("main", l)
      PROVE  dog'["main"] = l /\ w'["main"] = w["main"]
  BY <1>0, <1>3 DEF Step
<1>4. CASE PollEnds("main")
  <2>1. dog'["main"] = "seq" /\ w'["main"] = w["main"] /\ g_in_wait["main"]
    BY <1>3, <1>4 DEF PollEnds, DogPcs
  <2> QED BY <1>0, <1>1, <2>1
<1>5. CASE ReadSeq("main")
  <2>1. /\ dog["main"] = "seq" /\ dog'["main"] = "start"
        /\ w'["main"].seq = g_seq["main"]
    BY <1>0, <1>5 DEF ReadSeq, Step, Pass
  <2> QED BY <1>0, <1>1, <2>1
<1>6. CASE ReadStart("main")
  <2>1. /\ dog["main"] = "start" /\ dog'["main"] = "wid"
        /\ w'["main"].seq = w["main"].seq /\ w'["main"].age = g["main"].age
    BY <1>0, <1>6 DEF ReadStart, Step, Pass
  <2> QED BY <1>0, <1>1, <2>1
<1>7. CASE ReadWid("main")
  <2>1. /\ dog["main"] = "wid" /\ dog'["main"] = "check"
        /\ w'["main"].seq = w["main"].seq /\ w'["main"].age = w["main"].age
        /\ w'["main"].wid = g["main"].wid
    BY <1>0, <1>7 DEF ReadWid, Step, Pass
  <2> QED BY <1>0, <1>1, <2>1
<1>8. CASE Check("main")
  <2>1. CASE LongEnough("main") /\ g_in_wait["main"]
    <3>1. dog["main"] = "check" /\ dog'["main"] = "same1" /\ w'["main"] = w["main"]
      BY <1>3, <1>8, <2>1 DEF Check, DogPcs
    <3>2. w["main"].age # 0 BY <1>0, <2>1 DEF LongEnough
    <3> QED BY <1>0, <1>1, <3>1, <3>2
  <2> QED BY <1>2, <1>8, <2>1 DEF Check
<1>9. CASE Same1("main")
  <2>1. CASE SameEpisode("main")
    <3>1. dog["main"] = "same1" /\ dog'["main"] = "sample1" /\ w'["main"] = w["main"]
      BY <1>3, <1>9, <2>1 DEF Same1, DogPcs
    <3> QED BY <1>0, <1>1, <3>1
  <2> QED BY <1>2, <1>9, <2>1 DEF Same1
<1>10. CASE Unreadable("main") BY <1>2, <1>10 DEF Unreadable
<1>11. CASE Sample1("main")
  <2>1. CASE StillPending("main")
    <3>1. /\ dog["main"] = "sample1" /\ dog'["main"] = "recheck"
          /\ w'["main"].seq = w["main"].seq /\ w'["main"].wid = w["main"].wid
      BY <1>0, <1>11, <2>1 DEF Sample1, Step, Pass
    <3>2. w'["main"].s1 = workid /\ pending
      BY <1>0, <1>11, <2>1 DEF Sample1, StillPending, Pass
    \* A work-id that can still be seen was sampled outside the wait.
    <3>3. workid # 0 /\ g_in_wait["main"] => Approach
      BY <1>m, <3>2 DEF MainInv
    <3> QED BY <1>0, <1>1, <3>1, <3>2, <3>3
  <2> QED BY <1>2, <1>11, <2>1 DEF Sample1
<1>12. CASE WindowOver("main")
  <2>1. CASE g_in_wait["main"]
    <3>1. dog["main"] = "recheck" /\ dog'["main"] = "same2" /\ w'["main"] = w["main"]
      BY <1>3, <1>12, <2>1 DEF WindowOver, DogPcs
    <3> QED BY <1>0, <1>1, <2>1, <3>1
  <2> QED BY <1>2, <1>12, <2>1 DEF WindowOver
<1>13. CASE Same2("main")
  <2>1. CASE SameEpisode("main")
    <3>1. dog["main"] = "same2" /\ dog'["main"] = "sample2" /\ w'["main"] = w["main"]
      BY <1>3, <1>13, <2>1 DEF Same2, DogPcs
    <3>2. w["main"].s1 = 0 BY <1>0, <2>1, <3>1 DEF SameEpisode
    <3> QED BY <1>0, <1>1, <3>1, <3>2
  <2> QED BY <1>2, <1>13, <2>1 DEF Same2
<1>14. CASE Sample2("main")
  <2>1. ~ZeroProgress("main") BY <1>0, <1>14 DEF Sample2, ZeroProgress
  <2> QED BY <1>2, <1>14, <2>1 DEF Sample2
<1>15. ~Query("main") /\ ~SetEvent("main") BY <1>0 DEF Query, SetEvent
<1> QED BY <1>4, <1>5, <1>6, <1>7, <1>8, <1>9, <1>10, <1>11, <1>12, <1>13, <1>14, <1>15
        DEF Dog

LEMMA TickStep == ASSUME Inv, Paced, Tick PROVE DogInv'
<1> USE DEF DogInv, Approach, Current, MainNeverConfirmed, Breakers
<1>0. /\ w \in [Breakers -> Pass] /\ g \in [Breakers -> Fields] /\ DogInv
  BY DEF Inv, Base, TypeOK, Fields, Pass
<1>1. UNCHANGED <<pc, g_seq, g_in_wait, dog>> BY DEF Tick
<1>2. pc["main"] \in {"out", "parked"} BY DEF Tick, AtRest
<1>3. g'["main"].wid = g["main"].wid BY <1>0 DEF Tick, Fields
<1>4. /\ w'["main"].seq = w["main"].seq /\ w'["main"].wid = w["main"].wid
      /\ w'["main"].s1 = w["main"].s1
  BY <1>0 DEF Tick, Pass
<1> QED BY <1>0, <1>1, <1>2, <1>3, <1>4

LEMMA DogStep == Inv /\ Paced /\ Next => DogInv'
<1> SUFFICES ASSUME Inv, Paced, Next PROVE DogInv' OBVIOUS
<1> QED BY OtherSteps, EngineSteps, WatchdogSteps, TickStep DEF Next, GoesOn, Breakers

\* Actions that store into the fields of an episode or the locals of a pass.
LEMMA RecordStep == Base /\ Next => g' \in [Breakers -> Fields] /\ w' \in [Breakers -> Pass]
<1> SUFFICES ASSUME Base, Next
             PROVE  g' \in [Breakers -> Fields] /\ w' \in [Breakers -> Pass]
  OBVIOUS
<1>0. /\ g \in [Breakers -> Fields] /\ w \in [Breakers -> Pass]
      /\ g_seq \in [Breakers -> 0..MaxDispatches] /\ workid \in WorkIds \cup {0}
      /\ Dwell \in Nat /\ Recheck \in Nat /\ MaxDispatches \in Nat
  BY TimesAssumption, BoundAssumption DEF Base, TypeOK, Fields, Pass
<1>1. NoPass \in Pass BY <1>0 DEF NoPass, Pass
<1>2. CASE Dispatch \/ CallIdle \/ TakeWake \/ BeginWait \/ EndWait \/ Signal
           \/ JoinReturns \/ JoinSticks
  <2>1. UNCHANGED <<g, w>>
    BY <1>2 DEF Dispatch, CallIdle, TakeWake, BeginWait, EndWait, Signal, JoinReturns,
       JoinSticks, Join, episode, watch
  <2> QED BY <1>0, <2>1
<1>3. ASSUME NEW b \in Breakers, Wrap(b)
      PROVE  g' \in [Breakers -> Fields] /\ w' \in [Breakers -> Pass]
  <2>1. w' = w BY <1>3 DEF Wrap, Enter, StoreStart, BumpSeq, Open, Leave, watch
  <2>2. \/ g' = g
        \/ g' = [g EXCEPT ![b].wid = workid]
        \/ g' = [g EXCEPT ![b].age = 0]
    BY <1>3 DEF Wrap, Enter, StoreStart, BumpSeq, Open, Leave
  <2>3. g' \in [Breakers -> Fields] BY <1>0, <2>2 DEF Fields
  <2> QED BY <1>0, <2>1, <2>3
<1>4. ASSUME NEW b \in Breakers, Dog(b)
      PROVE  g' \in [Breakers -> Fields] /\ w' \in [Breakers -> Pass]
  <2>1. g' = g
    BY <1>4 DEF Dog, PollEnds, ReadSeq, ReadStart, ReadWid, Check, Same1, Unreadable,
       Sample1, WindowOver, Same2, Sample2, Query, SetEvent, Watches, episode
  <2> SUFFICES w' \in [Breakers -> Pass] BY <1>0, <2>1
  <2>2. \/ w' = w
        \/ w' = [w EXCEPT ![b] = NoPass]
        \/ w' = [w EXCEPT ![b].seq = g_seq[b]]
        \/ w' = [w EXCEPT ![b].age = g[b].age]
        \/ w' = [w EXCEPT ![b].wid = g[b].wid]
        \/ w' = [w EXCEPT ![b].s1 = workid, ![b].left = Recheck]
    BY <1>4 DEF Dog, PollEnds, ReadSeq, ReadStart, ReadWid, Check, Same1, Unreadable,
       Sample1, WindowOver, Same2, Sample2, Query, SetEvent, StandDown
  <2>3. g[b].age \in 0..Dwell /\ g[b].wid \in WorkIds \cup {0} BY <1>0 DEF Fields
  <2>4. CASE w' = w BY <1>0, <2>4
  <2>5. CASE w' = [w EXCEPT ![b] = NoPass] BY <1>0, <1>1, <2>5
  <2>6. CASE w' = [w EXCEPT ![b].seq = g_seq[b]] BY <1>0, <2>6 DEF Pass
  <2>7. CASE w' = [w EXCEPT ![b].age = g[b].age] BY <1>0, <2>3, <2>7 DEF Pass
  <2>8. CASE w' = [w EXCEPT ![b].wid = g[b].wid] BY <1>0, <2>3, <2>8 DEF Pass
  <2>9. CASE w' = [w EXCEPT ![b].s1 = workid, ![b].left = Recheck]
    <3> DEFINE sampled == [w[b] EXCEPT !.s1 = workid]
               again   == [sampled EXCEPT !.left = Recheck]
    <3>1. w[b] \in Pass /\ Recheck \in 0..Recheck BY <1>0
    <3>2. sampled \in Pass BY <1>0, <3>1 DEF Pass
    <3>3. again \in Pass
      <4> HIDE DEF sampled
      <4> QED BY <3>1, <3>2 DEF Pass
    <3>4. w' = [w EXCEPT ![b] = again] BY <1>0, <2>9
    <3> HIDE DEF again
    <3> QED BY <1>0, <3>3, <3>4
  <2> QED BY <2>2, <2>4, <2>5, <2>6, <2>7, <2>8, <2>9
<1>5. CASE Tick
  <2>1. ASSUME NEW age \in 0..Dwell PROVE Older(age, Dwell) \in 0..Dwell
    BY <1>0, <2>1 DEF Older
  <2>2. ASSUME NEW b \in Breakers
        PROVE  /\ [g[b] EXCEPT !.age = Older(@, Dwell)] \in Fields
               /\ [w[b] EXCEPT !.age = Older(@, Dwell),
                               !.left = IF @ > 0 THEN @ - 1 ELSE 0] \in Pass
    <3>1. g[b] \in Fields /\ w[b] \in Pass BY <1>0, <2>2
    <3>2. Older(g[b].age, Dwell) \in 0..Dwell /\ Older(w[b].age, Dwell) \in 0..Dwell
      BY <2>1, <3>1 DEF Fields, Pass
    <3>3. (IF w[b].left > 0 THEN w[b].left - 1 ELSE 0) \in 0..Recheck
      BY <1>0, <3>1 DEF Pass
    <3> QED BY <3>1, <3>2, <3>3 DEF Fields, Pass
  <2> QED BY <1>5, <2>2 DEF Tick
<1> QED BY <1>2, <1>3, <1>4, <1>5 DEF Next, GoesOn

LEMMA TypeStep == Base /\ Next => TypeOK'
<1> SUFFICES ASSUME Base, Next PROVE TypeOK' OBVIOUS
<1>0. /\ pc \in [Breakers -> Pcs] /\ dog \in [Breakers -> DogPcs]
      /\ g_seq \in [Breakers -> 0..MaxDispatches] /\ handled \in [Breakers -> 0..MaxDispatches]
      /\ w \in [Breakers -> Pass] /\ g_in_wait \in [Breakers -> BOOLEAN]
      /\ asked \in 0..MaxDispatches /\ taken \in 0..asked /\ served \in 0..taken
      /\ workid \in WorkIds \cup {0} /\ MaxDispatches \in Nat
  BY BoundAssumption DEF Base, TypeOK, Pass
<1>1. pc' \in [Breakers -> Pcs]
  <2>1. \/ pc' = pc
        \/ \E t \in Breakers, l \in Pcs : pc' = [pc EXCEPT ![t] = l]
    BY DEF Next, Dispatch, CallIdle, JoinReturns, JoinSticks, Join, GoesOn, TakeWake,
       BeginWait, EndWait, Signal, Wrap, Enter, StoreStart, BumpSeq, Open, Leave, Goto,
       Dog, PollEnds, ReadSeq, ReadStart, ReadWid, Check, Same1, Unreadable, Sample1,
       WindowOver, Same2, Sample2, Query, SetEvent, Watches, Tick, Pcs, Breakers
  <2> QED BY <1>0, <2>1
<1>2. dog' \in [Breakers -> DogPcs]
  <2>1. \/ dog' = dog
        \/ \E b \in Breakers, l \in DogPcs : dog' = [dog EXCEPT ![b] = l]
    BY DEF Next, Dispatch, CallIdle, JoinReturns, JoinSticks, Join, GoesOn, TakeWake,
       BeginWait, EndWait, Signal, Wrap, Enter, StoreStart, BumpSeq, Open, Leave, watch,
       Dog, PollEnds, ReadSeq, ReadStart, ReadWid, Check, Same1, Unreadable, Sample1,
       WindowOver, Same2, Sample2, Query, SetEvent, StandDown, Step, Tick, DogPcs
  <2> QED BY <1>0, <2>1
<1>3. g_seq' \in [Breakers -> 0..MaxDispatches]
  <2>1. \/ g_seq' = g_seq
        \/ \E b \in Breakers : BumpSeq(b)
    BY DEF Next, Dispatch, CallIdle, JoinReturns, JoinSticks, Join, GoesOn, TakeWake,
       BeginWait, EndWait, Signal, Wrap, Enter, StoreStart, Open, Leave, episode,
       Dog, PollEnds, ReadSeq, ReadStart, ReadWid, Check, Same1, Unreadable, Sample1,
       WindowOver, Same2, Sample2, Query, SetEvent, Watches, Tick
  <2>2. ASSUME NEW b \in Breakers, BumpSeq(b) PROVE g_seq[b] < MaxDispatches
    <3>1. b = "main" => pending BY <2>2 DEF BumpSeq, Base, MainInv
    <3>2. g_seq[b] < asked
      BY <1>0, <2>2, <3>1 DEF BumpSeq, Base, CountInv, Storing, Breakers
    <3> QED BY <1>0, <3>2
  <2>3. ASSUME NEW b \in Breakers, BumpSeq(b)
        PROVE  g_seq' \in [Breakers -> 0..MaxDispatches]
    <3>1. g_seq[b] < MaxDispatches BY <2>2, <2>3
    <3> QED BY <1>0, <2>3, <3>1 DEF BumpSeq
  <2> QED BY <1>0, <2>1, <2>3
<1>4. handled' \in [Breakers -> 0..MaxDispatches]
  <2>1. \/ handled' = handled
        \/ \E b \in Breakers : handled' = [handled EXCEPT ![b] = w[b].seq]
    BY DEF Next, Dispatch, CallIdle, JoinReturns, JoinSticks, Join, GoesOn, TakeWake,
       BeginWait, EndWait, Signal, Wrap, Enter, StoreStart, BumpSeq, Open, Leave, watch,
       Dog, PollEnds, ReadSeq, ReadStart, ReadWid, Check, Same1, Unreadable, Sample1,
       WindowOver, Same2, Sample2, Query, SetEvent, Watches, Tick
  <2>2. \A b \in Breakers : w[b].seq \in 0..MaxDispatches BY <1>0 DEF Pass
  <2> QED BY <1>0, <2>1, <2>2
<1>5. /\ asked' \in 0..MaxDispatches /\ taken' \in 0..asked' /\ served' \in 0..taken'
  <2>1. \/ UNCHANGED jobs
        \/ asked < MaxDispatches /\ asked' = asked + 1 /\ UNCHANGED <<taken, served>>
        \/ taken' = asked /\ UNCHANGED <<asked, served>>
        \/ served' = taken /\ UNCHANGED <<asked, taken>>
    BY DEF Next, Dispatch, CallIdle, JoinReturns, JoinSticks, Join, GoesOn, TakeWake,
       BeginWait, EndWait, Signal, Wrap, Enter, StoreStart, BumpSeq, Open, Leave, jobs,
       Dog, PollEnds, ReadSeq, ReadStart, ReadWid, Check, Same1, Unreadable, Sample1,
       WindowOver, Same2, Sample2, Query, SetEvent, Watches, Tick
  <2> QED BY <1>0, <2>1 DEF jobs
<1>6. workid' \in WorkIds \cup {0}
  <2>1. workid' = workid \/ workid' = 0 \/ workid' \in WorkIds
    BY DEF Next, Dispatch, CallIdle, JoinReturns, JoinSticks, Join, GoesOn, TakeWake,
       BeginWait, EndWait, Signal, Wrap, Enter, StoreStart, BumpSeq, Open, Leave, shake,
       Dog, PollEnds, ReadSeq, ReadStart, ReadWid, Check, Same1, Unreadable, Sample1,
       WindowOver, Same2, Sample2, Query, SetEvent, Watches, Tick
  <2> QED BY <1>0, <2>1
<1>7. Flags'
  <2>0. Flags BY DEF Base, TypeOK, Flags
  <2>1. CASE Dispatch \/ CallIdle \/ TakeWake \/ BeginWait \/ EndWait \/ Signal
             \/ JoinReturns \/ JoinSticks \/ Tick
    BY <2>0, <2>1, Zenon DEF Dispatch, CallIdle, TakeWake, BeginWait, EndWait, Signal,
       JoinReturns, JoinSticks, Join, Tick, shake, episode, Flags
  <2>2. ASSUME NEW b \in Breakers, Wrap(b) PROVE Flags'
    <3>1. \/ g_in_wait' = g_in_wait
          \/ g_in_wait' = [g_in_wait EXCEPT ![b] = TRUE]
          \/ g_in_wait' = [g_in_wait EXCEPT ![b] = FALSE]
      BY <2>2 DEF Wrap, Enter, StoreStart, BumpSeq, Open, Leave
    <3>2. g_in_wait' \in [Breakers -> BOOLEAN] BY <1>0, <3>1
    <3>3. UNCHANGED shake BY <2>2 DEF Wrap, Enter, StoreStart, BumpSeq, Open, Leave
    <3> QED BY <2>0, <3>2, <3>3, Zenon DEF Flags, shake
  <2>3. ASSUME NEW b \in Breakers, Dog(b) PROVE Flags'
    <3>1. UNCHANGED <<pending, wake, g_in_wait>> /\ (ack' = ack \/ ack' = TRUE)
      BY <2>3 DEF Dog, PollEnds, ReadSeq, ReadStart, ReadWid, Check, Same1, Unreadable,
         Sample1, WindowOver, Same2, Sample2, Query, SetEvent, Watches, shake, episode
    <3> QED BY <2>0, <3>1, Zenon DEF Flags
  <2> QED BY <2>1, <2>2, <2>3 DEF Next, GoesOn
<1> QED
  BY <1>1, <1>2, <1>3, <1>4, <1>5, <1>6, <1>7, RecordStep DEF TypeOK, Flags, Fields, Pass
-----------------------------------------------------------------------------
LEMMA BaseStutter == Base /\ UNCHANGED vars => Base'
BY DEF Base, TypeOK, CountInv, MainInv, Storing, vars, shake, episode, watch, jobs

LEMMA BaseHolds == Spec => []Base
<1>1. Init => Base BY InitInv DEF Inv
<1>2. Base /\ [Next]_vars => Base'
  BY TypeStep, CountStep, MainStep, BaseStutter DEF Base
<1> QED BY <1>1, <1>2, PTL DEF Spec

\* Every variable keeps its type; in particular each breaker numbers no more
\* episodes than there are jobs (SiteABreaker.cpp:145-150).
THEOREM TypeCorrect == Spec => []TypeOK
<1>1. Base => TypeOK BY DEF Base
<1> QED BY <1>1, BaseHolds, PTL

\* SiteABreaker never finds its condition fulfilled, whatever the thresholds:
\* the id it compares with was cleared by the wait it watches
\* (SiteABreaker.cpp:147,210).
THEOREM NeverConfirmed == ASSUME Paced PROVE Spec => []MainNeverConfirmed
<1>1. Init => DogInv BY InitInv DEF Inv
<1>2. DogInv /\ UNCHANGED vars => DogInv'
  <2>1. UNCHANGED vars => UNCHANGED DogView
    BY DEF vars, DogView, episode, watch
  <2> QED BY <2>1, ViewStep
<1>3. Base /\ DogInv /\ [Next]_vars => DogInv' BY <1>2, DogStep DEF Inv
<1>4. DogInv => MainNeverConfirmed BY DEF DogInv
<1> QED BY <1>1, <1>3, <1>4, BaseHolds, PTL DEF Spec
-----------------------------------------------------------------------------
(***************************************************************************)
(* No breaker lets the main thread go on before its time.  SiteABreaker    *)
(* never acts.  The render breaker acts on an episode that has lasted for  *)
(* the dwell threshold, and nothing but a stuck join lasts for any time:   *)
(* where it has passed its second look, the worker is stuck, and a stuck   *)
(* worker stays so.  Without a stuck join the ack is the worker's own, and *)
(* it is signalled for the job that was asked for last.                    *)
(***************************************************************************)
Live == pc["render"] = "open" \/ g_in_wait["render"]

RenderCurrent == w["render"].seq = g_seq["render"]

\* What the watchdog of the render worker has read.
StuckInv ==
    /\ g_in_wait["render"] => pc["render"] \in {"inside", "parked", "ret"}
    /\ w["render"].seq <= g_seq["render"]
    /\ pc["render"] = "seq" \/ Live => Stuck \/ g["render"].age = 0
    /\ dog["render"] \in {"wid", "check"} /\ RenderCurrent /\ Live =>
          Stuck \/ w["render"].age = 0
    /\ dog["render"] = "same1" /\ RenderCurrent => Stuck
    /\ dog["render"] \in {"sample1", "recheck", "same2", "sample2", "query", "signal"} =>
          Stuck

\* Where the job is that was asked for last, unless a join is stuck.
JobInv ==
    /\ ack => Stuck \/ (served = asked /\ pc["render"] = "out" /\ ~wake)
    /\ pc["render"] # "out" => Stuck \/ (taken = asked /\ ~wake /\ ~ack /\ pending)
    /\ wake => Stuck \/ (~ack /\ pending)
    /\ ~pending => Stuck \/ served = asked
    /\ pc["render"] # "out" \/ wake => served < asked

RenderView == <<pc["render"], g["render"], g_seq["render"], g_in_wait["render"],
                dog["render"], w["render"]>>

LEMMA InitOver == Init => StuckInv /\ JobInv
  BY DEF Init, StuckInv, JobInv, Live, RenderCurrent, NoPass, Breakers

LEMMA RenderViewStep == StuckInv /\ UNCHANGED RenderView => StuckInv'
  BY DEF StuckInv, RenderView, Live, RenderCurrent, Stuck

LEMMA StuckWrap == ASSUME Base, StuckInv, Wrap("render") PROVE StuckInv'
<1> USE DEF StuckInv, Live, RenderCurrent, Stuck, Breakers
<1>0. /\ pc \in [Breakers -> Pcs] /\ g \in [Breakers -> Fields]
      /\ g_seq \in [Breakers -> Nat] /\ g_in_wait \in [Breakers -> BOOLEAN]
      /\ w["render"].seq \in Nat
  BY BoundAssumption DEF Base, TypeOK, Fields
<1>1. CASE Enter("render")
  <2>1. UNCHANGED <<g_seq, g_in_wait, dog, w>> BY <1>1 DEF Enter, watch
  <2>2. /\ pc["render"] = "enter" /\ pc'["render"] \in {"start", "inside"}
        /\ ~g_in_wait["render"]
    BY <1>0, <1>1 DEF Enter, Goto
  <2> QED BY <1>0, <2>1, <2>2
<1>2. CASE StoreStart("render")
  <2>1. UNCHANGED <<g_seq, g_in_wait, dog, w>> BY <1>2 DEF StoreStart, watch
  <2>2. /\ pc["render"] = "start" /\ pc'["render"] = "seq" /\ g'["render"].age = 0
    BY <1>0, <1>2 DEF StoreStart, Goto, Fields
  <2> QED BY <1>0, <2>1, <2>2
<1>3. CASE BumpSeq("render")
  <2>1. UNCHANGED <<g, g_in_wait, dog, w>> BY <1>3 DEF BumpSeq, watch
  <2>2. /\ pc["render"] = "seq" /\ pc'["render"] = "open"
        /\ g_seq'["render"] = g_seq["render"] + 1
    BY <1>0, <1>3 DEF BumpSeq, Goto
  <2> QED BY <1>0, <2>1, <2>2
<1>4. CASE Open("render")
  <2>1. UNCHANGED <<g, g_seq, dog, w>> BY <1>4 DEF Open, watch
  <2>2. pc["render"] = "open" /\ pc'["render"] = "inside" /\ g_in_wait'["render"]
    BY <1>0, <1>4 DEF Open, Goto
  <2> QED BY <1>0, <2>1, <2>2
<1>5. CASE Leave("render")
  <2>1. UNCHANGED <<g, g_seq, dog, w>> BY <1>5 DEF Leave, watch
  <2>2. pc["render"] = "ret" /\ pc'["render"] = "ack" /\ ~g_in_wait'["render"]
    BY <1>0, <1>5 DEF Leave, Goto
  <2> QED BY <1>0, <2>1, <2>2
<1> QED BY <1>1, <1>2, <1>3, <1>4, <1>5 DEF Wrap

LEMMA StuckDog == ASSUME Base, StuckInv, Dog("render") PROVE StuckInv'
<1> USE DEF StuckInv, Live, RenderCurrent, Stuck, Breakers
<1>0. /\ dog \in [Breakers -> DogPcs] /\ w \in [Breakers -> Pass]
      /\ g \in [Breakers -> Fields] /\ g_seq \in [Breakers -> Nat]
      /\ w["render"].seq \in Nat /\ Dwell \in Nat \ {0}
  BY BoundAssumption, TimesAssumption DEF Base, TypeOK, Fields, Pass
<1>1. UNCHANGED <<pc, g, g_seq, g_in_wait>>
  BY DEF Dog, PollEnds, ReadSeq, ReadStart, ReadWid, Check, Same1, Unreadable, Sample1,
     WindowOver, Same2, Sample2, Query, SetEvent, Watches, episode
<1>2. ASSUME StandDown("render") PROVE StuckInv'
  <2>1. dog'["render"] = "sleep" /\ w'["render"].seq = 0
    BY <1>0, <1>2 DEF StandDown, Step, NoPass
  <2> QED BY <1>0, <1>1, <2>1
<1>3. ASSUME UNCHANGED w, NEW l \in DogPcs, Step("render", l)
      PROVE  dog'["render"] = l /\ w'["render"] = w["render"]
  BY <1>0, <1>3 DEF Step
<1>4. CASE PollEnds("render")
  <2>1. dog'["render"] = "seq" /\ w'["render"] = w["render"]
    BY <1>3, <1>4 DEF PollEnds, DogPcs
  <2> QED BY <1>0, <1>1, <2>1
<1>5. CASE ReadSeq("render")
  <2>1. dog'["render"] = "start" /\ w'["render"].seq = g_seq["render"]
    BY <1>0, <1>5 DEF ReadSeq, Step, Pass
  <2> QED BY <1>0, <1>1, <2>1
<1>6. CASE ReadStart("render")
  <2>1. /\ dog'["render"] = "wid" /\ w'["render"].seq = w["render"].seq
        /\ w'["render"].age = g["render"].age
    BY <1>0, <1>6 DEF ReadStart, Step, Pass
  <2> QED BY <1>0, <1>1, <2>1
<1>7. CASE ReadWid("render")
  <2>1. /\ dog["render"] = "wid" /\ dog'["render"] = "check"
        /\ w'["render"].seq = w["render"].seq /\ w'["render"].age = w["render"].age
    BY <1>0, <1>7 DEF ReadWid, Step, Pass
  <2> QED BY <1>0, <1>1, <2>1
<1>8. CASE Check("render")
  <2>1. CASE LongEnough("render") /\ g_in_wait["render"]
    <3>1. /\ dog["render"] = "check" /\ dog'["render"] = "same1"
          /\ w'["render"] = w["render"]
      BY <1>3, <1>8, <2>1 DEF Check, DogPcs
    <3>2. w["render"].age # 0 BY <1>0, <2>1 DEF LongEnough
    <3> QED BY <1>0, <1>1, <2>1, <3>1, <3>2
  <2> QED BY <1>2, <1>8, <2>1 DEF Check
<1>9. CASE Same1("render")
  <2>1. CASE SameEpisode("render")
    <3>1. /\ dog["render"] = "same1" /\ dog'["render"] = "sample1"
          /\ w'["render"] = w["render"]
      BY <1>3, <1>9, <2>1 DEF Same1, DogPcs
    <3> QED BY <1>0, <1>1, <2>1, <3>1 DEF SameEpisode
  <2> QED BY <1>2, <1>9, <2>1 DEF Same1
<1>10. CASE Unreadable("render") BY <1>2, <1>10 DEF Unreadable
<1>11. CASE Sample1("render")
  <2>1. CASE StillPending("render")
    <3>1. /\ dog["render"] = "sample1" /\ dog'["render"] = "recheck"
          /\ w'["render"].seq = w["render"].seq
      BY <1>0, <1>11, <2>1 DEF Sample1, Step, Pass
    <3> QED BY <1>0, <1>1, <3>1
  <2> QED BY <1>2, <1>11, <2>1 DEF Sample1
<1>12. CASE WindowOver("render")
  <2>1. CASE g_in_wait["render"]
    <3>1. /\ dog["render"] = "recheck" /\ dog'["render"] = "same2"
          /\ w'["render"] = w["render"]
      BY <1>3, <1>12, <2>1 DEF WindowOver, DogPcs
    <3> QED BY <1>0, <1>1, <3>1
  <2> QED BY <1>2, <1>12, <2>1 DEF WindowOver
<1>13. CASE Same2("render")
  <2>1. CASE SameEpisode("render")
    <3>1. /\ dog["render"] = "same2" /\ dog'["render"] = "sample2"
          /\ w'["render"] = w["render"]
      BY <1>3, <1>13, <2>1 DEF Same2, DogPcs
    <3> QED BY <1>0, <1>1, <3>1
  <2> QED BY <1>2, <1>13, <2>1 DEF Same2
<1>14. CASE Sample2("render")
  <2>1. CASE StillPending("render") /\ ZeroProgress("render")
    <3>1. /\ dog["render"] = "sample2" /\ dog'["render"] = "query"
          /\ w'["render"] = w["render"]
      BY <1>3, <1>14, <2>1 DEF Sample2, DogPcs
    <3> QED BY <1>0, <1>1, <3>1
  <2> QED BY <1>2, <1>14, <2>1 DEF Sample2
<1>15. CASE Query("render")
  <2>1. CASE Step("render", "signal") /\ UNCHANGED w
    <3>1. /\ dog["render"] = "query" /\ dog'["render"] = "signal"
          /\ w'["render"] = w["render"]
      BY <1>3, <1>15, <2>1 DEF Query, DogPcs
    <3> QED BY <1>0, <1>1, <3>1
  <2> QED BY <1>2, <1>15, <2>1 DEF Query
<1>16. CASE SetEvent("render") BY <1>2, <1>16 DEF SetEvent
<1> QED BY <1>4, <1>5, <1>6, <1>7, <1>8, <1>9, <1>10, <1>11, <1>12, <1>13, <1>14, <1>15,
           <1>16 DEF Dog

LEMMA StuckStep == Base /\ StuckInv /\ Paced /\ [Next]_vars => StuckInv'
<1> SUFFICES ASSUME Base, StuckInv, Paced, [Next]_vars PROVE StuckInv' OBVIOUS
<1>0. /\ pc \in [Breakers -> Pcs] /\ dog \in [Breakers -> DogPcs]
      /\ g \in [Breakers -> Fields] /\ w \in [Breakers -> Pass]
      /\ g_seq \in [Breakers -> 0..MaxDispatches] /\ g_in_wait \in [Breakers -> BOOLEAN]
  BY DEF Base, TypeOK, Fields, Pass
<1>1. CASE Dispatch \/ CallIdle \/ BeginWait \/ EndWait
  <2>1. UNCHANGED RenderView
    BY <1>0, <1>1 DEF Dispatch, CallIdle, BeginWait, EndWait, Goto, RenderView, episode,
       watch, Breakers
  <2> QED BY <2>1, RenderViewStep
<1>2. CASE Wrap("main")
  <2>1. UNCHANGED RenderView
    BY <1>0, <1>2 DEF Wrap, Enter, StoreStart, BumpSeq, Open, Leave, Goto, RenderView,
       watch, Breakers
  <2> QED BY <2>1, RenderViewStep
<1>3. CASE Dog("main")
  <2>1. /\ UNCHANGED <<pc, g, g_seq, g_in_wait>>
        /\ w'["render"] = w["render"] /\ dog'["render"] = dog["render"]
    BY <1>0, <1>3 DEF Dog, PollEnds, ReadSeq, ReadStart, ReadWid, Check, Same1,
       Unreadable, Sample1, WindowOver, Same2, Sample2, Query, SetEvent, Watches,
       StandDown, Step, episode, Breakers
  <2>2. UNCHANGED RenderView BY <2>1 DEF RenderView
  <2> QED BY <2>2, RenderViewStep
<1>4. CASE TakeWake \/ Signal \/ JoinReturns \/ JoinSticks
  <2>1. UNCHANGED <<g, g_seq, g_in_wait, dog, w>>
    BY <1>4 DEF TakeWake, Signal, JoinReturns, JoinSticks, Join, episode, watch
  <2>2. \/ pc["render"] = "out" /\ pc'["render"] = "enter"
        \/ pc["render"] = "ack" /\ pc'["render"] = "out"
        \/ pc["render"] = "inside" /\ pc'["render"] \in {"ret", "parked"}
    BY <1>0, <1>4 DEF TakeWake, Signal, JoinReturns, JoinSticks, Join, Goto, Breakers
  <2> QED BY <2>1, <2>2 DEF StuckInv, Live, RenderCurrent, Stuck
<1>5. CASE Tick
  <2>1. UNCHANGED <<pc, g_seq, g_in_wait, dog>> BY <1>5 DEF Tick
  <2>2. pc["render"] \in {"out", "parked"} BY <1>5 DEF Tick, AtRest
  <2>3. w'["render"].seq = w["render"].seq BY <1>0, <1>5 DEF Tick, Pass, Breakers
  <2> QED BY <2>1, <2>2, <2>3 DEF StuckInv, Live, RenderCurrent, Stuck
<1>6. CASE UNCHANGED vars
  <2>1. UNCHANGED RenderView BY <1>6 DEF vars, RenderView, episode, watch
  <2> QED BY <2>1, RenderViewStep
<1> QED BY <1>1, <1>2, <1>3, <1>4, <1>5, <1>6, StuckWrap, StuckDog
        DEF Next, GoesOn, Breakers

\* The watchdogs change nothing of the hand-shake but the ack, and that only when
\* the worker is stuck.
LEMMA DogsAreCareful ==
    ASSUME StuckInv, MainNeverConfirmed, NEW b \in Breakers, Dog(b)
    PROVE  /\ UNCHANGED <<pc, pending, wake, jobs>>
           /\ ack' = ack \/ Stuck
<1>1. UNCHANGED <<pc, pending, wake, jobs>> /\ (ack' = ack \/ dog[b] = "signal")
  BY DEF Dog, PollEnds, ReadSeq, ReadStart, ReadWid, Check, Same1, Unreadable, Sample1,
     WindowOver, Same2, Sample2, Query, SetEvent, Watches, shake
<1>2. dog[b] = "signal" => Stuck BY DEF StuckInv, MainNeverConfirmed, Breakers
<1> QED BY <1>1, <1>2

\* The wraps change nothing of the hand-shake, and nobody begins to wait, goes on,
\* or gets stuck in them.
LEMMA WrapsAreSilent ==
    ASSUME Base, NEW b \in Breakers, Wrap(b)
    PROVE  /\ UNCHANGED <<shake, jobs>>
           /\ \A t \in Breakers :
                 /\ pc[t] = "out" => pc'[t] = "out"
                 /\ pc[t] = "parked" <=> pc'[t] = "parked"
           /\ pc'["render"] = "out" => pc["render"] = "out"
<1>1. pc \in [Breakers -> Pcs] BY DEF Base, TypeOK
<1>2. UNCHANGED <<shake, jobs>>
  BY DEF Wrap, Enter, StoreStart, BumpSeq, Open, Leave
<1>3. PICK l \in {"start", "seq", "open", "inside", "out", "ack"} :
         /\ pc' = [pc EXCEPT ![b] = l] /\ pc[b] \notin {"out", "parked"}
         /\ b = "render" => l # "out"
  BY DEF Wrap, Enter, StoreStart, BumpSeq, Open, Leave, Goto, Breakers
<1> QED BY <1>1, <1>2, <1>3 DEF Breakers

LEMMA JobStep ==
    ASSUME Base, StuckInv, JobInv, MainNeverConfirmed, [Next]_vars
    PROVE  JobInv'
<1> USE DEF JobInv, Stuck, Breakers
<1>0. /\ pc \in [Breakers -> Pcs] /\ asked \in Nat /\ taken \in 0..asked
      /\ served \in 0..taken
  BY BoundAssumption DEF Base, TypeOK
<1>1. CASE Dispatch
  <2>1. /\ ~pending /\ pending' /\ wake' /\ ~ack' /\ asked' = asked + 1
        /\ UNCHANGED <<taken, served>> /\ pc'["render"] = pc["render"]
    BY <1>0, <1>1 DEF Dispatch, Goto
  <2> QED BY <1>0, <2>1
<1>2. CASE CallIdle
  <2>1. UNCHANGED <<pending, wake, ack, asked, taken, served>> /\ pc'["render"] = pc["render"]
    BY <1>0, <1>2 DEF CallIdle, Goto, shake, jobs
  <2> QED BY <2>1
<1>3. CASE TakeWake
  <2>1. /\ pc["render"] = "out" /\ wake /\ ~wake' /\ taken' = asked
        /\ UNCHANGED <<pending, ack, asked, served>> /\ pc'["render"] = "enter"
    BY <1>0, <1>3 DEF TakeWake, Goto
  <2> QED BY <1>0, <2>1
<1>4. CASE BeginWait
  <2>1. UNCHANGED <<pending, wake, ack, asked, taken, served>> /\ pc'["render"] = pc["render"]
    BY <1>0, <1>4 DEF BeginWait, Goto, jobs
  <2> QED BY <2>1
<1>5. CASE EndWait
  <2>1. /\ ack /\ UNCHANGED <<wake, ack, asked, taken, served>>
        /\ ~pending' /\ pc'["render"] = pc["render"]
    BY <1>0, <1>5 DEF EndWait, Goto, jobs
  <2> QED BY <2>1
<1>6. CASE JoinReturns \/ JoinSticks
  <2>1. /\ pc["render"] = "inside" /\ pc'["render"] \in {"ret", "parked"}
        /\ UNCHANGED <<pending, wake, ack, asked, taken, served>>
    BY <1>0, <1>6 DEF JoinReturns, JoinSticks, Join, Goto, shake, jobs
  <2> QED BY <2>1
<1>7. CASE Signal
  <2>1. /\ pc["render"] = "ack" /\ pc'["render"] = "out" /\ ack' /\ served' = taken
        /\ UNCHANGED <<pending, wake, asked, taken>>
    BY <1>0, <1>7 DEF Signal, Goto
  <2> QED BY <1>0, <2>1
<1>8. ASSUME NEW b \in Breakers, Wrap(b) PROVE JobInv'
  <2>1. UNCHANGED <<pending, wake, ack, asked, taken, served>>
    BY <1>8, WrapsAreSilent DEF shake, jobs
  <2>2. /\ pc["render"] = "out" <=> pc'["render"] = "out"
        /\ pc["render"] = "parked" <=> pc'["render"] = "parked"
    BY <1>8, WrapsAreSilent
  <2> QED BY <2>1, <2>2
<1>9. ASSUME NEW b \in Breakers, Dog(b) PROVE JobInv'
  <2>1. UNCHANGED <<pc, pending, wake, asked, taken, served>> /\ (ack' = ack \/ Stuck)
    BY <1>9, DogsAreCareful DEF jobs
  <2> QED BY <2>1
<1>10. CASE Tick BY <1>10 DEF Tick, shake, jobs
<1>11. CASE UNCHANGED vars BY <1>11 DEF vars, shake, jobs
<1> QED BY <1>1, <1>2, <1>3, <1>4, <1>5, <1>6, <1>7, <1>8, <1>9, <1>10, <1>11
        DEF Next, GoesOn

LEMMA InitMaps == Init => Abstract!Init
  BY DEF Init, Abstract!Init, Breakers

\* Every step of the hand-shake and its breakers is a step of the dependable wait
\* or a stutter.
LEMMA StepMaps ==
    ASSUME Base, StuckInv, JobInv, MainNeverConfirmed, [Next]_vars
    PROVE  [Abstract!Next]_(Abstract!vars)
<1> USE DEF Abstract!vars, Abstract!Next, Stuck, Breakers
<1>0. /\ pc \in [Breakers -> Pcs] /\ asked \in Nat /\ taken \in 0..asked
      /\ served \in 0..taken
  BY BoundAssumption DEF Base, TypeOK
<1>a. JobInv OBVIOUS
<1>b. ASSUME UNCHANGED <<asked, served>>,
             pc["main"] = "parked" <=> pc'["main"] = "parked",
             pc["render"] = "parked" <=> pc'["render"] = "parked"
      PROVE  [Abstract!Next]_(Abstract!vars)
  BY <1>b
<1>1. CASE Dispatch
  <2>1. /\ ~pending /\ asked' = asked + 1 /\ served' = served
        /\ pc["main"] = "out" /\ pc'["main"] = "enter" /\ pc'["render"] = pc["render"]
    BY <1>0, <1>1 DEF Dispatch, Goto
  <2>2. asked' # served BY <1>0, <2>1
  <2>3. CASE Stuck
    <3>1. served # asked BY <1>0, <1>a, <2>3 DEF JobInv
    <3> QED BY <2>1, <2>2, <2>3, <3>1
  <2>4. CASE ~Stuck
    <3>1. served = asked BY <1>a, <2>1, <2>4 DEF JobInv
    <3>2. Abstract!Publish("A") BY <2>1, <2>2, <2>4, <3>1 DEF Abstract!Publish
    <3> QED BY <3>2
  <2> QED BY <2>3, <2>4
<1>2. CASE CallIdle BY <1>0, <1>b, <1>2 DEF CallIdle, Goto, jobs
<1>3. CASE TakeWake BY <1>0, <1>b, <1>3 DEF TakeWake, Goto
<1>4. CASE BeginWait
  <2>1. /\ pc["main"] = "inside" /\ pc'["main"] \in {"parked", "ret"}
        /\ pc'["render"] = pc["render"] /\ UNCHANGED <<asked, served>>
    BY <1>0, <1>4 DEF BeginWait, Goto, jobs
  <2>2. CASE pc'["main"] = "ret" BY <1>b, <2>1, <2>2
  <2>3. CASE pc'["main"] = "parked"
    <3>1. Abstract!Wait("A") BY <2>1, <2>3 DEF Abstract!Wait
    <3> QED BY <3>1
  <2> QED BY <2>1, <2>2, <2>3
<1>5. CASE EndWait
  <2>1. /\ pc["main"] = "parked" /\ ack /\ pc'["main"] = "ret"
        /\ pc'["render"] = pc["render"] /\ UNCHANGED <<asked, served>>
    BY <1>0, <1>5 DEF EndWait, Goto, jobs
  <2>2. Stuck \/ served = asked BY <1>a, <2>1 DEF JobInv
  <2>3. Abstract!Return BY <2>1, <2>2 DEF Abstract!Return
  <2> QED BY <2>3
<1>6. CASE JoinReturns
  BY <1>0, <1>b, <1>6 DEF JoinReturns, Join, Goto, jobs
<1>7. CASE JoinSticks
  <2>1. /\ pc["render"] = "inside" /\ pc'["render"] = "parked"
        /\ pc'["main"] = pc["main"] /\ UNCHANGED <<asked, served>>
    BY <1>0, <1>7 DEF JoinSticks, Join, Goto, jobs
  <2>2. served # asked BY <1>0, <1>a, <2>1 DEF JobInv
  <2>3. Abstract!Finish("A", "lost") BY <2>1, <2>2 DEF Abstract!Finish
  <2> QED BY <2>3
<1>8. CASE Signal
  <2>1. /\ pc["render"] = "ack" /\ pc'["render"] = "out"
        /\ pc'["main"] = pc["main"] /\ asked' = asked /\ served' = taken
    BY <1>0, <1>8 DEF Signal, Goto
  <2>2. served # asked /\ taken = asked BY <1>0, <1>a, <2>1 DEF JobInv
  <2>3. Abstract!Finish("A", "done") BY <2>1, <2>2 DEF Abstract!Finish
  <2> QED BY <2>3
<1>9. ASSUME NEW b \in Breakers, Wrap(b) PROVE [Abstract!Next]_(Abstract!vars)
  BY <1>b, <1>9, WrapsAreSilent DEF jobs
<1>10. ASSUME NEW b \in Breakers, Dog(b) PROVE [Abstract!Next]_(Abstract!vars)
  BY <1>b, <1>10, DogsAreCareful DEF jobs
<1>11. CASE Tick BY <1>b, <1>11 DEF Tick, jobs
<1>12. CASE UNCHANGED vars BY <1>b, <1>12 DEF vars, jobs
<1> QED BY <1>1, <1>2, <1>3, <1>4, <1>5, <1>6, <1>7, <1>8, <1>9, <1>10, <1>11, <1>12
        DEF Next, GoesOn

\* Neither breaker, nor a late signal, lets the main thread go on before its job is
\* acknowledged or its worker stuck, if whatever can go on does so in every unit of
\* time: "no healthy frame is ever touched" (SiteABreaker.h:44-46), for any
\* thresholds, both breakers and any number of jobs
\* (SiteARenderBreaker.cpp:175-260).
THEOREM ReturnsWhenOver == Paced => (Spec => ReturnsOnlyWhenOver)
<1> SUFFICES ASSUME Paced PROVE Spec => ReturnsOnlyWhenOver OBVIOUS
<1>1. Base /\ StuckInv /\ [Next]_vars => StuckInv' BY StuckStep
<1>2. Base /\ StuckInv /\ JobInv /\ MainNeverConfirmed /\ [Next]_vars =>
        JobInv' /\ [Abstract!Next]_(Abstract!vars)
  BY JobStep, StepMaps
<1>3. Spec => []MainNeverConfirmed BY NeverConfirmed
<1>4. Spec => []StuckInv BY BaseHolds, InitOver, <1>1, PTL DEF Spec
<1>5. Spec => []JobInv BY BaseHolds, InitOver, <1>2, <1>3, <1>4, PTL DEF Spec
<1>6. Spec => Abstract!Init /\ [][Abstract!Next]_(Abstract!vars)
  BY BaseHolds, InitMaps, <1>2, <1>3, <1>4, <1>5, PTL DEF Spec
<1> QED BY <1>6, PTL DEF ReturnsOnlyWhenOver, Abstract!Safety
=============================================================================
