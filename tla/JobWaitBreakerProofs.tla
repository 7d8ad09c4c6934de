------------------------ MODULE JobWaitBreakerProofs ------------------------
(***************************************************************************)
(* The watchdog of JobWaitBreaker acts on one wait, for any number of job  *)
(* lists and waits, any thresholds and any depth of nesting.               *)
(*                                                                         *)
(* Nothing the watchdog has read need still be true when it is used.  What *)
(* holds is conditional: as long as the episode it numbered is Intact, its *)
(* copies of the other fields are right.  An episode that is not intact    *)
(* never becomes so again, and a wait that is found open under the same    *)
(* number was intact at that moment: this is what the second look proves.  *)
(***************************************************************************)
EXTENDS JobWaitBreaker, SequenceTheorems, TLAPS

Published == {"open", "inside", "parked", "ret"}
Waiting   == {"inside", "parked", "ret"}
Storing   == {"idx", "handle", "start", "seq", "open"}

\* The episode the watchdog has numbered is the current one, and published.
Intact == g_seq = w.seq /\ main \in Published

\* The wrap: how far it is determines the fields (JobWaitBreaker.cpp:143-165).
WrapInv ==
    /\ Len(episodes) = IF main = "seq" THEN g_seq + 1 ELSE g_seq
    /\ Len(episodes) <= MaxEpisodes
    /\ main \in {"idx", "handle", "start"} => Len(episodes) < MaxEpisodes
    /\ g_in_wait <=> main \in Waiting
    /\ main = "out" <=> calls = <<>>
    /\ main \in Storing => Len(calls) = 1
    /\ main # "out" /\ main # "idx" => g.idx = calls[1]
    /\ main = "seq" \/ main \in Published =>
          /\ episodes[Len(episodes)].idx = calls[1]
          /\ g.age <= episodes[Len(episodes)].age
    /\ main \in Published => g_seq > 0
    /\ g_seq > 0 => g.idx \in Idx

\* Where the watchdog is once it has read the fields of an episode.
HasSeq   == DogPcs \ {"sleep", "seq"}
HasStart == HasSeq \ {"start"}
HasIdx   == HasStart \ {"idx"}
Acts     == {"sample2", "handle", "signal"}

Numbered == episodes[w.seq]

OneWait == Numbered.idx = w.idx /\ Numbered.age >= Dwell + Recheck

\* The watchdog's copies are right while the episode is intact.
DogInv ==
    /\ dog # "sleep" => g_seq > 0
    /\ dog \in HasSeq => w.seq > 0
    /\ dog \in HasIdx => w.idx \in Idx
    /\ dog \in HasStart /\ Intact => w.age <= Numbered.age
    /\ dog \in HasIdx /\ Intact => Numbered.idx = w.idx
    /\ dog \in {"same1", "sample1"} /\ Intact => Numbered.age >= Dwell
    /\ dog = "recheck" /\ Intact => Numbered.age + w.left >= Dwell + Recheck
    /\ dog = "same2" /\ g_seq = w.seq => OneWait
    /\ dog \in Acts => OneWait

Inv == TypeOK /\ WrapInv /\ DogInv

Fields  == [idx : AnyIdx, handle : AnyIdx, age : 0..Dwell]
Pass    == [seq : 0..g_seq, age : 0..Dwell, idx : AnyIdx, s1 : Chains,
            same : BOOLEAN, left : 0..Recheck, handle : AnyIdx]
Episode == [idx : Idx, age : 0..(Dwell + Recheck)]
-----------------------------------------------------------------------------
(***************************************************************************)
(* The first state, and steps that leave the wrap and the watchdog alone.  *)
(***************************************************************************)
LEMMA InitInv == Init => Inv
<1> SUFFICES ASSUME Init PROVE Inv OBVIOUS
<1> USE NoIdxAssumption, TimesAssumption, BoundsAssumption DEF Init
<1>1. TypeOK
  <2>0. calls = <<>> /\ episodes = <<>> /\ 0 <= MaxDepth OBVIOUS
  <2>1. calls \in Seq(Idx) /\ Len(calls) <= MaxDepth /\ episodes \in Seq(Episode)
    <3>1. calls \in Seq(Idx) BY <2>0
    <3>2. episodes \in Seq(Episode) BY <2>0
    <3>3. Len(calls) <= MaxDepth BY <2>0
    <3>4. QED BY <3>1, <3>2, <3>3
  <2>2. g \in Fields BY DEF Fields, AnyIdx
  <2>3. w \in Pass BY DEF Pass, NoPass, AnyIdx, Chains
  <2>4. /\ job \in [Idx -> Fates] /\ chain \in [Idx -> Chains]
        /\ event \in [Idx -> BOOLEAN]
    BY DEF Fates, Chains
  <2>5. g_seq \in 0..MaxEpisodes /\ lastHandled \in 0..g_seq
    OBVIOUS
  <2>8. g_in_wait \in BOOLEAN BY Zenon
  <2>6. main \in MainPcs /\ dog \in DogPcs BY DEF MainPcs, DogPcs
  <2>7. QED BY <2>1, <2>2, <2>3, <2>4, <2>5, <2>6, <2>8 DEF TypeOK, Fields, Pass, Episode
<1>2. WrapInv BY DEF WrapInv, Waiting, Storing, Published
<1>3. DogInv BY DEF DogInv, HasSeq, HasStart, HasIdx, Acts, DogPcs
<1>4. QED BY <1>1, <1>2, <1>3 DEF Inv

\* A step of the job pool writes none of the fields the invariant speaks of.
LEMMA PoolInv == ASSUME Inv, Pool PROVE Inv'
<1>1. PICK i \in Idx : Publish(i) \/ Progress(i) \/ Complete(i) \/ Lose(i) BY DEF Pool
<1>2. UNCHANGED <<main, calls, g, g_seq, g_in_wait, dog, lastHandled, episodes>>
  BY <1>1 DEF Publish, Progress, Complete, Lose, wrap, pool
<1>3. w \in Pass BY DEF Inv, TypeOK, Pass
<1>4. w' \in Pass /\ w'.seq = w.seq /\ w'.age = w.age /\ w'.idx = w.idx /\ w'.left = w.left
  BY <1>1, <1>3 DEF Publish, Progress, Complete, Lose, Touch, Pass
<1>5. /\ job' \in [Idx -> Fates] /\ chain' \in [Idx -> Chains]
      /\ event' \in [Idx -> BOOLEAN]
  <2>1. /\ job \in [Idx -> Fates] /\ chain \in [Idx -> Chains]
        /\ event \in [Idx -> BOOLEAN]
    BY DEF Inv, TypeOK
  <2>2. CASE Publish(i) BY <2>1, <2>2 DEF Publish, Fates, Chains
  <2>3. CASE Progress(i) BY <2>1, <2>3 DEF Progress, pool
  <2>4. CASE Complete(i) BY <2>1, <2>4 DEF Complete, Fates
  <2>5. CASE Lose(i) BY <2>1, <2>5 DEF Lose, Fates
  <2>6. QED BY <1>1, <2>2, <2>3, <2>4, <2>5
<1>6. TypeOK' BY <1>2, <1>4, <1>5 DEF Inv, TypeOK, Pass
<1>7. WrapInv' BY <1>2 DEF Inv, WrapInv
<1>8. DogInv' BY <1>2, <1>4 DEF Inv, DogInv, Intact, OneWait, Numbered
<1>9. QED BY <1>6, <1>7, <1>8 DEF Inv
-----------------------------------------------------------------------------
(***************************************************************************)
(* Steps of the main thread.                                               *)
(***************************************************************************)
\* What the invariant says of the variables of the main thread.
LEMMA Types ==
    ASSUME Inv
    PROVE  /\ calls \in Seq(Idx) /\ Len(calls) \in Nat /\ Len(calls) <= MaxDepth
           /\ g \in Fields /\ g_seq \in Nat /\ g_seq <= MaxEpisodes
           /\ episodes \in Seq(Episode) /\ Len(episodes) \in Nat
           /\ w \in Pass /\ w.seq \in Nat /\ w.seq <= g_seq
           /\ MaxEpisodes \in Nat /\ MaxDepth \in Nat /\ MaxDepth > 0
           /\ Dwell \in Nat /\ Recheck \in Nat
<1> USE TimesAssumption, BoundsAssumption
<1>1. /\ calls \in Seq(Idx) /\ Len(calls) <= MaxDepth /\ g \in Fields
      /\ g_seq \in 0..MaxEpisodes /\ episodes \in Seq(Episode) /\ w \in Pass
  BY DEF Inv, TypeOK, Fields, Episode, Pass
<1>2. w.seq \in 0..g_seq BY <1>1 DEF Pass
<1>3. QED BY <1>1, <1>2

\* A step of the main thread leaves the watchdog's locals alone; whatever it
\* does to the episodes, it keeps those that are numbered, and an episode that
\* is not intact does not become so.
LEMMA WaiterDog ==
    ASSUME Inv, UNCHANGED <<dog, w>>, g_seq <= g_seq', g_seq' \in Nat,
           w.seq > 0 => episodes'[w.seq] = episodes[w.seq],
           Intact' => Intact
    PROVE  DogInv'
<1>1. w.seq \in Nat /\ w.seq <= g_seq /\ g_seq \in Nat BY Types
<1>2. (g_seq = w.seq)' => g_seq = w.seq BY <1>1
<1>3. dog \in HasSeq => w.seq > 0 BY DEF Inv, DogInv
<1>4. dog \in HasSeq => Numbered' = Numbered BY <1>3 DEF Numbered
<1>5. /\ HasIdx \subseteq HasStart /\ HasStart \subseteq HasSeq /\ Acts \subseteq HasSeq
      /\ {"same1", "sample1", "recheck", "same2"} \subseteq HasSeq
      /\ "sleep" \notin HasSeq
  BY DEF HasIdx, HasStart, HasSeq, Acts, DogPcs
<1>6. dog \in HasSeq /\ OneWait => OneWait' BY <1>4 DEF OneWait
<1>7. dog # "sleep" => g_seq' > 0 BY <1>1 DEF Inv, DogInv
<1>8. dog = "same2" /\ (g_seq = w.seq)' => OneWait'
  BY <1>2, <1>5, <1>6 DEF Inv, DogInv
<1>9. dog \in Acts => OneWait' BY <1>5, <1>6 DEF Inv, DogInv
<1>10. QED BY <1>3, <1>4, <1>5, <1>7, <1>8, <1>9 DEF Inv, DogInv

\* Leaving a nested call keeps the outermost index.
LEMMA FrontCalls ==
    ASSUME NEW s \in Seq(Idx), Len(s) > 0
    PROVE  /\ Front(s) \in Seq(Idx) /\ Len(Front(s)) = Len(s) - 1
           /\ Len(s) > 1 => Front(s)[1] = s[1]
           /\ Len(s) = 1 => Front(s) = <<>>
<1>1. Len(s) \in Nat \ {0} /\ \A i \in 1..Len(s) : s[i] \in Idx OBVIOUS
<1>2. /\ Front(s) \in Seq(Idx) /\ Len(Front(s)) = Len(s) - 1
      /\ \A i \in 1..(Len(s) - 1) : Front(s)[i] = s[i]
  <2> DEFINE n == Len(s) - 1
  <2>0. n \in Nat BY <1>1
  <2>1. \A i \in 1..n : s[i] \in Idx BY <1>1
  <2> HIDE DEF n
  <2>a. /\ SubSeq(s, 1, n) \in Seq(Idx)
        /\ Len(SubSeq(s, 1, n)) = IF 1 <= n THEN n - 1 + 1 ELSE 0
    BY <2>0, <2>1, SubSeqProperties
  <2>b. Len(SubSeq(s, 1, n)) = n BY <2>0, <2>a
  <2>2. /\ SubSeq(s, 1, Len(s) - 1) \in Seq(Idx)
        /\ Len(SubSeq(s, 1, Len(s) - 1)) = Len(s) - 1
    BY <2>a, <2>b DEF n
  <2>3. ASSUME NEW i \in 1..(Len(s) - 1) PROVE SubSeq(s, 1, Len(s) - 1)[i] = s[i]
    BY <1>1, <2>1, SubSeqProperties DEF n
  <2>4. QED BY <2>2, <2>3 DEF Front
<1>3. Len(s) = 1 => Len(Front(s)) = 0 BY <1>2
<1>4. Len(s) = 1 => Front(s) = <<>> BY <1>2, <1>3, EmptySeq
<1>5. QED BY <1>1, <1>2, <1>4

LEMMA WaiterInv == ASSUME Inv, Waiter PROVE Inv'
<1> USE DEF MainPcs
<1>a. /\ calls \in Seq(Idx) /\ Len(calls) \in Nat /\ Len(calls) <= MaxDepth
      /\ g \in Fields /\ g_seq \in Nat /\ g_seq <= MaxEpisodes
      /\ episodes \in Seq(Episode) /\ Len(episodes) \in Nat
      /\ w \in Pass /\ w.seq \in Nat /\ w.seq <= g_seq
      /\ MaxEpisodes \in Nat /\ MaxDepth \in Nat /\ MaxDepth > 0
      /\ Dwell \in Nat /\ Recheck \in Nat
  BY Types
<1>b. Len(calls) > 0 => calls[1] \in Idx BY <1>a
<1> USE <1>a, <1>b
<1> UNCHANGED <<dog, w, lastHandled, job, chain, event>>
  BY DEF Waiter, GoesOn, Store, StoreIdx, StoreHandle, StoreStart, BumpSeq, Open,
         ReadChain, Wake, Leave, Call, pool
<1>1. ASSUME NEW i \in Idx, Call(i) PROVE Inv'
  <2>1. /\ calls' = Append(calls, i)
        /\ UNCHANGED <<g, g_seq, g_in_wait, episodes>>
        /\ \/ main = "out" /\ main' = "idx" /\ Len(episodes) < MaxEpisodes
           \/ main = "inside" /\ main' = "inside" /\ Len(calls) < MaxDepth
    BY <1>1 DEF Call, Goto
  <2>2. /\ calls' \in Seq(Idx) /\ Len(calls') = Len(calls) + 1
        /\ Len(calls) > 0 => calls'[1] = calls[1]
    BY <2>1
  <2>3. calls' # <<>> BY <2>2
  <2>4. main = "out" => Len(calls) = 0 BY DEF Inv, WrapInv
  <2>5. main = "inside" => Len(calls) > 0 BY DEF Inv, WrapInv
  <2>6. TypeOK' BY <2>1, <2>2, <2>4 DEF Inv, TypeOK
  <2>7. WrapInv'
    BY <2>1, <2>2, <2>3, <2>4, <2>5 DEF Inv, WrapInv, Waiting, Storing, Published
  <2>8. Intact' => Intact BY <2>1 DEF Intact, Published
  <2>9. DogInv' BY <2>1, <2>8, WaiterDog
  <2>10. QED BY <2>6, <2>7, <2>9 DEF Inv
<1>2. CASE StoreIdx
  <2>1. /\ main = "idx" /\ main' = "handle" /\ g' = [g EXCEPT !.idx = calls[1]]
        /\ UNCHANGED <<calls, g_seq, g_in_wait, episodes>>
    BY <1>2 DEF StoreIdx, Goto
  <2>2. Len(calls) = 1 BY <2>1 DEF Inv, WrapInv, Storing
  <2>3. calls[1] \in Idx BY <2>2
  <2>4. g' \in Fields /\ g'.idx = calls[1] BY <2>1, <2>3 DEF Fields, AnyIdx
  <2>5. TypeOK' BY <2>1, <2>4 DEF Inv, TypeOK, Fields
  <2>6. WrapInv' BY <2>1, <2>2, <2>3, <2>4 DEF Inv, WrapInv, Waiting, Storing, Published
  <2>7. DogInv' BY <2>1, WaiterDog DEF Intact, Published
  <2>8. QED BY <2>5, <2>6, <2>7 DEF Inv
<1>3. CASE StoreHandle
  <2>1. PICK h \in DeriveWaitHandle(calls[1]) :
          /\ main = "handle" /\ main' = "start" /\ g' = [g EXCEPT !.handle = h]
          /\ UNCHANGED <<calls, g_seq, g_in_wait, episodes>>
    BY <1>3 DEF StoreHandle, Goto
  <2>2. Len(calls) = 1 BY <2>1 DEF Inv, WrapInv, Storing
  <2>3. h \in AnyIdx BY <2>2 DEF DeriveWaitHandle, AnyIdx
  <2>4. g' \in Fields /\ g'.idx = g.idx BY <2>1, <2>3 DEF Fields
  <2>5. TypeOK' BY <2>1, <2>4 DEF Inv, TypeOK, Fields
  <2>6. WrapInv' BY <2>1, <2>4 DEF Inv, WrapInv, Waiting, Storing, Published
  <2>7. DogInv' BY <2>1, WaiterDog DEF Intact, Published
  <2>8. QED BY <2>5, <2>6, <2>7 DEF Inv
<1>4. CASE StoreStart
  <2>1. /\ main = "start" /\ main' = "seq" /\ g' = [g EXCEPT !.age = 0]
        /\ episodes' = Append(episodes, [idx |-> calls[1], age |-> 0])
        /\ UNCHANGED <<calls, g_seq, g_in_wait>>
    BY <1>4 DEF StoreStart, Goto
  <2>2. Len(calls) = 1 /\ Len(episodes) = g_seq /\ Len(episodes) < MaxEpisodes
    BY <2>1 DEF Inv, WrapInv, Storing
  <2>3. [idx |-> calls[1], age |-> 0] \in Episode BY <2>2 DEF Episode
  <2>4. /\ episodes' \in Seq(Episode) /\ Len(episodes') = Len(episodes) + 1
        /\ episodes'[Len(episodes')] = [idx |-> calls[1], age |-> 0]
        /\ \A n \in 1..Len(episodes) : episodes'[n] = episodes[n]
    BY <2>1, <2>3
  <2>5. g' \in Fields /\ g'.idx = g.idx /\ g'.age = 0
    <3>1. 0 \in 0..Dwell OBVIOUS
    <3>2. QED BY <2>1, <3>1 DEF Fields
  <2>6. TypeOK' BY <2>1, <2>4, <2>5 DEF Inv, TypeOK, Fields, Episode
  <2>7. WrapInv'
    BY <2>1, <2>2, <2>4, <2>5 DEF Inv, WrapInv, Waiting, Storing, Published
  <2>8. w.seq > 0 => episodes'[w.seq] = episodes[w.seq] BY <2>2, <2>4
  <2>9. DogInv'
    <3>1. ~Intact' BY <2>1 DEF Intact, Published
    <3>2. g_seq' \in Nat /\ g_seq <= g_seq' BY <2>1
    <3>3. QED BY <2>8, <3>1, <3>2, WaiterDog
  <2>10. QED BY <2>6, <2>7, <2>9 DEF Inv
<1>5. CASE BumpSeq
  <2>1. /\ main = "seq" /\ main' = "open" /\ g_seq' = g_seq + 1
        /\ UNCHANGED <<calls, g, g_in_wait, episodes>>
    BY <1>5 DEF BumpSeq, Goto
  <2>2. Len(episodes) = g_seq + 1 /\ g_seq + 1 <= MaxEpisodes
        /\ Len(calls) = 1 /\ g.idx = calls[1]
    BY <2>1 DEF Inv, WrapInv, Storing
  <2>3. w \in Pass' /\ lastHandled \in 0..g_seq'
    <3>1. w.seq \in 0..g_seq' BY <2>1
    <3>2. w \in Pass' BY <3>1 DEF Pass
    <3>3. lastHandled \in 0..g_seq BY DEF Inv, TypeOK
    <3>4. QED BY <2>1, <3>2, <3>3
  <2>4. TypeOK' BY <2>1, <2>2, <2>3 DEF Inv, TypeOK, Pass
  <2>5. calls[1] \in Idx BY <2>2
  <2>6. WrapInv'
    BY <2>1, <2>2, <2>5 DEF Inv, WrapInv, Waiting, Storing, Published
  <2>7. ~Intact' BY <2>1 DEF Intact
  <2>8. DogInv' BY <2>1, <2>7, WaiterDog
  <2>9. QED BY <2>4, <2>6, <2>8 DEF Inv
<1>6. CASE Open \/ ReadChain \/ Wake
  <2>1. /\ main \in {"open", "inside", "parked"} /\ main' \in {"inside", "parked", "ret"}
        /\ main = "open" => g_in_wait' = TRUE
        /\ main # "open" => g_in_wait' = g_in_wait
        /\ UNCHANGED <<calls, g, g_seq, episodes>>
    BY <1>6 DEF Open, ReadChain, Wake, Goto
  <2>2. g_in_wait' = TRUE
    BY <2>1 DEF Inv, WrapInv, TypeOK, Waiting
  <2>3. TypeOK' BY <2>1, <2>2 DEF Inv, TypeOK
  <2>4. WrapInv' BY <2>1, <2>2 DEF Inv, WrapInv, Waiting, Storing, Published
  <2>5. DogInv' BY <2>1, WaiterDog DEF Intact, Published
  <2>6. QED BY <2>3, <2>4, <2>5 DEF Inv
<1>7. CASE Leave
  <2>1. /\ main = "ret" /\ calls' = Front(calls)
        /\ g_in_wait' = (g_in_wait /\ Len(calls) > 1)
        /\ main' = IF Len(calls) = 1 THEN "out" ELSE "inside"
        /\ UNCHANGED <<g, g_seq, episodes>>
    BY <1>7 DEF Leave, Goto
  <2>2. Len(calls) > 0 /\ g_in_wait BY <2>1 DEF Inv, WrapInv, Waiting
  <2>3. /\ calls' \in Seq(Idx) /\ Len(calls') = Len(calls) - 1
        /\ Len(calls) > 1 => calls'[1] = calls[1]
        /\ Len(calls) = 1 => calls' = <<>>
    BY <2>1, <2>2, FrontCalls
  <2>4. g_in_wait' <=> Len(calls) > 1 BY <2>1, <2>2
  <2>5. g_in_wait' \in BOOLEAN BY <2>1, Zenon
  <2>6. TypeOK' BY <2>1, <2>3, <2>5 DEF Inv, TypeOK
  <2>7. WrapInv'
    BY <2>1, <2>2, <2>3, <2>4 DEF Inv, WrapInv, Waiting, Storing, Published
  <2>8. DogInv' BY <2>1, WaiterDog DEF Intact, Published
  <2>9. QED BY <2>6, <2>7, <2>8 DEF Inv
<1>8. QED BY <1>1, <1>2, <1>3, <1>4, <1>5, <1>6, <1>7 DEF Waiter, GoesOn, Store
-----------------------------------------------------------------------------
(***************************************************************************)
(* Steps of the watchdog.                                                  *)
(***************************************************************************)
\* A pass that stands down keeps nothing that could be wrong.
LEMMA DownInv ==
    ASSUME Inv, StandDown, UNCHANGED <<wrap, job, chain, episodes>>,
           lastHandled' \in 0..g_seq, event' \in [Idx -> BOOLEAN]
    PROVE  Inv'
<1>1. dog' = "sleep" /\ w' = NoPass /\ UNCHANGED <<main, calls, g, g_seq, g_in_wait>>
  BY DEF StandDown, Step, wrap
<1>2. g_seq \in Nat /\ Dwell \in Nat /\ Recheck \in Nat BY Types
<1>3. NoPass \in Pass BY <1>2 DEF NoPass, Pass, AnyIdx, Chains
<1>4. w' \in Pass' BY <1>1, <1>3 DEF Pass
<1>5. TypeOK' BY <1>1, <1>4 DEF Inv, TypeOK, Pass, DogPcs
<1>6. WrapInv' BY <1>1 DEF Inv, WrapInv
<1>7. DogInv' BY <1>1 DEF DogInv, HasSeq, HasStart, HasIdx, Acts
<1>8. QED BY <1>5, <1>6, <1>7 DEF Inv

\* A step that goes on keeps the types and the wrap; the rest is for each step.
LEMMA OnInv ==
    ASSUME Inv, UNCHANGED <<wrap, job, chain, event, episodes>>,
           dog' \in DogPcs, w' \in Pass, lastHandled' \in 0..g_seq, DogInv'
    PROVE  Inv'
<1>1. UNCHANGED <<main, calls, g, g_seq, g_in_wait>> BY DEF wrap
<1>2. w' \in Pass' BY <1>1 DEF Pass
<1>3. TypeOK' BY <1>1, <1>2 DEF Inv, TypeOK, Pass
<1>4. WrapInv' BY <1>1 DEF Inv, WrapInv
<1>5. QED BY <1>3, <1>4 DEF Inv

\* The wait that is found open under the number of an intact episode.
LEMMA OpenIsIntact ==
    ASSUME Inv, g_in_wait, g_seq = w.seq PROVE Intact
  BY DEF Inv, WrapInv, Waiting, Published, Intact

LEMMA DogStepInv == ASSUME Inv, Dog PROVE Inv'
<1> USE DEF DogPcs
<1>a. /\ g \in Fields /\ g.age \in Nat /\ g_seq \in Nat /\ w \in Pass /\ w.seq \in Nat
      /\ w.seq <= g_seq /\ lastHandled \in 0..g_seq /\ Dwell \in Nat /\ Recheck \in Nat
      /\ event \in [Idx -> BOOLEAN] /\ episodes \in Seq(Episode)
      /\ Len(episodes) \in Nat /\ g_seq <= Len(episodes)
  <2>1. g \in Fields /\ w \in Pass /\ episodes \in Seq(Episode) /\ g_seq \in Nat
        /\ w.seq \in Nat /\ w.seq <= g_seq /\ Dwell \in Nat /\ Recheck \in Nat
        /\ Len(episodes) \in Nat
    BY Types
  <2>2. g.age \in Nat BY <2>1 DEF Fields
  <2>3. lastHandled \in 0..g_seq /\ event \in [Idx -> BOOLEAN] BY DEF Inv, TypeOK
  <2>4. g_seq <= Len(episodes) BY <2>1 DEF Inv, WrapInv
  <2>5. QED BY <2>1, <2>2, <2>3, <2>4
<1>b. ASSUME w.seq > 0 PROVE Numbered \in Episode /\ Numbered.age \in Nat
  <2>1. Numbered \in Episode BY <1>a, <1>b DEF Numbered
  <2>2. Numbered.age \in Nat BY <1>a, <2>1 DEF Episode
  <2>3. QED BY <2>1, <2>2
<1>c. w.age \in Nat /\ w.left \in Nat BY <1>a DEF Pass
<1>d. ASSUME Intact
      PROVE  /\ Len(episodes) = w.seq /\ Numbered.idx = g.idx /\ g.age <= Numbered.age
  BY <1>d DEF Inv, WrapInv, Intact, Published, Numbered
<1>0. CASE /\ StandDown
           /\ UNCHANGED <<wrap, job, chain, episodes>>
           /\ lastHandled' \in 0..g_seq /\ event' \in [Idx -> BOOLEAN]
  BY <1>0, DownInv
<1>1. CASE PollEnds
  <2>1. /\ g_in_wait /\ dog' = "seq" /\ w' = w /\ lastHandled' = lastHandled
        /\ UNCHANGED <<wrap, job, chain, event, episodes>>
    BY <1>1 DEF PollEnds, Step, Watches, pool
  <2>2. g_seq > 0 BY <2>1 DEF Inv, WrapInv, Waiting, Published
  <2>3. DogInv' BY <2>1, <2>2 DEF DogInv, HasSeq, HasStart, HasIdx, Acts, wrap
  <2>4. QED BY <1>a, <2>1, <2>3, OnInv
<1>2. CASE ReadSeq
  <2>1. /\ dog = "seq" /\ dog' = "start" /\ w' = [w EXCEPT !.seq = g_seq]
        /\ lastHandled' = lastHandled /\ UNCHANGED <<wrap, job, chain, event, episodes>>
    BY <1>2 DEF ReadSeq, Step, Watches, pool
  <2>2. w' \in Pass /\ w'.seq = g_seq BY <1>a, <2>1 DEF Pass
  <2>3. g_seq > 0 BY <2>1 DEF Inv, DogInv
  <2>4. DogInv' BY <2>1, <2>2, <2>3 DEF DogInv, HasSeq, HasStart, HasIdx, Acts, wrap
  <2>5. QED BY <1>a, <2>1, <2>2, <2>4, OnInv
<1>3. CASE ReadStart
  <2>1. /\ dog = "start" /\ dog' = "idx" /\ w' = [w EXCEPT !.age = g.age]
        /\ lastHandled' = lastHandled /\ UNCHANGED <<wrap, job, chain, event, episodes>>
    BY <1>3 DEF ReadStart, Step, Watches, pool
  <2>2. w' \in Pass /\ w'.seq = w.seq /\ w'.age = g.age
    BY <1>a, <2>1 DEF Pass, Fields
  <2>3. Intact' <=> Intact BY <2>1, <2>2 DEF Intact, wrap
  <2>4. Numbered' = Numbered BY <2>1, <2>2 DEF Numbered
  <2>5. g_seq > 0 /\ w.seq > 0 BY <2>1 DEF Inv, DogInv, HasSeq
  <2>6. Intact' => w'.age <= Numbered'.age BY <1>d, <2>2, <2>3, <2>4
  <2>7. DogInv'
    BY <2>1, <2>2, <2>5, <2>6 DEF DogInv, HasSeq, HasStart, HasIdx, Acts, wrap
  <2>8. QED BY <1>a, <2>1, <2>2, <2>7, OnInv
<1>4. CASE ReadIdx
  <2>1. /\ dog = "idx" /\ dog' = "check" /\ w' = [w EXCEPT !.idx = g.idx]
        /\ lastHandled' = lastHandled /\ UNCHANGED <<wrap, job, chain, event, episodes>>
    BY <1>4 DEF ReadIdx, Step, Watches, pool
  <2>2. w' \in Pass /\ w'.seq = w.seq /\ w'.age = w.age /\ w'.idx = g.idx
    BY <1>a, <2>1 DEF Pass, Fields
  <2>3. Intact' <=> Intact BY <2>1, <2>2 DEF Intact, wrap
  <2>4. Numbered' = Numbered BY <2>1, <2>2 DEF Numbered
  <2>5. g_seq > 0 /\ w.seq > 0 /\ (Intact => w.age <= Numbered.age)
    BY <2>1 DEF Inv, DogInv, HasSeq, HasStart
  <2>6. g.idx \in Idx BY <2>5 DEF Inv, WrapInv
  <2>7. Intact' => w'.age <= Numbered'.age /\ Numbered'.idx = w'.idx
    BY <1>d, <2>2, <2>3, <2>4, <2>5
  <2>8. DogInv'
    BY <2>1, <2>2, <2>5, <2>6, <2>7 DEF DogInv, HasSeq, HasStart, HasIdx, Acts, wrap
  <2>9. QED BY <1>a, <2>1, <2>2, <2>8, OnInv
<1>5. CASE Check /\ ~StandDown
  <2>1. /\ dog = "check" /\ dog' = "same1" /\ w' = w /\ w.age >= Dwell
        /\ lastHandled' = lastHandled /\ UNCHANGED <<wrap, job, chain, event, episodes>>
    BY <1>5 DEF Check, Parked, Step, Watches, pool
  <2>2. /\ g_seq > 0 /\ w.seq > 0 /\ w.idx \in Idx
        /\ Intact => w.age <= Numbered.age /\ Numbered.idx = w.idx
    BY <2>1 DEF Inv, DogInv, HasSeq, HasStart, HasIdx
  <2>3. Intact => Numbered.age >= Dwell BY <1>a, <1>b, <1>c, <2>1, <2>2
  <2>4. UNCHANGED <<Intact, Numbered>> BY <2>1 DEF Intact, Numbered, wrap
  <2>5. DogInv'
    BY <2>1, <2>2, <2>3, <2>4 DEF DogInv, HasSeq, HasStart, HasIdx, Acts, wrap
  <2>6. QED BY <1>a, <2>1, <2>5, OnInv
<1>6. CASE Same1 /\ ~StandDown
  <2>1. /\ dog = "same1" /\ dog' = "sample1" /\ w' = w
        /\ lastHandled' = lastHandled /\ UNCHANGED <<wrap, job, chain, event, episodes>>
    BY <1>6 DEF Same1, Step, Watches, pool
  <2>2. UNCHANGED <<Intact, Numbered>> BY <2>1 DEF Intact, Numbered, wrap
  <2>3. DogInv'
    BY <2>1, <2>2 DEF Inv, DogInv, HasSeq, HasStart, HasIdx, Acts, wrap
  <2>4. QED BY <1>a, <2>1, <2>3, OnInv
<1>7. CASE Sample1
  <2>1. /\ dog = "sample1" /\ dog' = "recheck"
        /\ w' = [w EXCEPT !.s1 = chain[w.idx], !.same = TRUE, !.left = Recheck]
        /\ lastHandled' = lastHandled /\ UNCHANGED <<wrap, job, chain, event, episodes>>
    BY <1>7 DEF Sample1, Step, Watches, pool
  <2>2. /\ g_seq > 0 /\ w.seq > 0 /\ w.idx \in Idx
        /\ Intact => /\ w.age <= Numbered.age /\ Numbered.idx = w.idx
                     /\ Numbered.age >= Dwell
    BY <2>1 DEF Inv, DogInv, HasSeq, HasStart, HasIdx
  <2>3. chain[w.idx] \in Chains BY <2>2 DEF Inv, TypeOK
  <2>4. Recheck \in 0..Recheck BY <1>a
  <2>5. w' \in Pass /\ w'.seq = w.seq /\ w'.age = w.age /\ w'.idx = w.idx /\ w'.left = Recheck
    BY <1>a, <2>1, <2>3, <2>4 DEF Pass
  <2>6. (Intact' <=> Intact) /\ Numbered' = Numbered BY <2>1, <2>5 DEF Intact, Numbered, wrap
  <2>7. Intact => Numbered.age + Recheck >= Dwell + Recheck BY <1>a, <1>b, <2>2
  <2>8. DogInv'
    BY <2>1, <2>2, <2>5, <2>6, <2>7 DEF DogInv, HasSeq, HasStart, HasIdx, Acts, wrap
  <2>9. QED BY <1>a, <2>1, <2>5, <2>8, OnInv
<1>8. CASE WindowOver /\ ~StandDown
  <2>1. /\ dog = "recheck" /\ dog' = "same2" /\ w' = w /\ w.left = 0 /\ g_in_wait
        /\ lastHandled' = lastHandled /\ UNCHANGED <<wrap, job, chain, event, episodes>>
    BY <1>8 DEF WindowOver, Step, Watches, pool
  <2>2. /\ g_seq > 0 /\ w.seq > 0 /\ w.idx \in Idx
        /\ Intact => /\ w.age <= Numbered.age /\ Numbered.idx = w.idx
                     /\ Numbered.age + w.left >= Dwell + Recheck
    BY <2>1 DEF Inv, DogInv, HasSeq, HasStart, HasIdx
  <2>3. g_seq = w.seq => OneWait
    BY <1>a, <1>b, <2>1, <2>2, OpenIsIntact DEF OneWait
  <2>4. UNCHANGED <<Intact, Numbered, OneWait>> BY <2>1 DEF Intact, Numbered, OneWait, wrap
  <2>5. DogInv'
    BY <2>1, <2>2, <2>3, <2>4 DEF DogInv, HasSeq, HasStart, HasIdx, Acts, wrap
  <2>6. QED BY <1>a, <2>1, <2>5, OnInv
<1>9. CASE Same2 /\ ~StandDown
  <2>1. /\ dog = "same2" /\ dog' = "sample2" /\ w' = w /\ g_seq = w.seq
        /\ lastHandled' = lastHandled /\ UNCHANGED <<wrap, job, chain, event, episodes>>
    BY <1>9 DEF Same2, SameEpisode, Step, Watches, pool
  <2>2. UNCHANGED <<Intact, Numbered, OneWait>> BY <2>1 DEF Intact, Numbered, OneWait, wrap
  <2>3. DogInv'
    BY <2>1, <2>2 DEF Inv, DogInv, HasSeq, HasStart, HasIdx, Acts, wrap
  <2>4. QED BY <1>a, <2>1, <2>3, OnInv
<1>10. CASE Sample2 /\ ~StandDown
  <2>1. /\ dog = "sample2" /\ dog' = "handle" /\ w' = w /\ lastHandled' = w.seq
        /\ UNCHANGED <<wrap, job, chain, event, episodes>>
    BY <1>10 DEF Sample2, Step, pool
  <2>2. UNCHANGED <<Intact, Numbered, OneWait>> BY <2>1 DEF Intact, Numbered, OneWait, wrap
  <2>3. DogInv'
    BY <2>1, <2>2 DEF Inv, DogInv, HasSeq, HasStart, HasIdx, Acts, wrap
  <2>4. QED BY <1>a, <2>1, <2>3, OnInv
<1>11. CASE ReadHandle /\ ~StandDown
  <2>1. /\ dog = "handle" /\ dog' = "signal" /\ w' = [w EXCEPT !.handle = g.handle]
        /\ lastHandled' = lastHandled /\ UNCHANGED <<wrap, job, chain, event, episodes>>
    BY <1>11 DEF ReadHandle, Step, Watches, pool
  <2>2. w' \in Pass /\ w'.seq = w.seq /\ w'.age = w.age /\ w'.idx = w.idx
    BY <1>a, <2>1 DEF Pass, Fields
  <2>3. (Intact' <=> Intact) /\ Numbered' = Numbered /\ (OneWait' <=> OneWait)
    BY <2>1, <2>2 DEF Intact, Numbered, OneWait, wrap
  <2>4. DogInv'
    BY <2>1, <2>2, <2>3 DEF Inv, DogInv, HasSeq, HasStart, HasIdx, Acts, wrap
  <2>5. QED BY <1>a, <2>1, <2>2, <2>4, OnInv
<1>12. CASE StandDown
  <2>1. /\ UNCHANGED <<wrap, job, chain, episodes>>
        /\ lastHandled' = lastHandled \/ lastHandled' = w.seq
        /\ event' = event \/ event' = [event EXCEPT ![w.handle] = TRUE]
    BY <1>12 DEF Dog, PollEnds, ReadSeq, ReadStart, ReadIdx, Check, Same1, Unreadable,
                 Sample1, WindowOver, Same2, Sample2, ReadHandle, SetEvent, Watches, pool
  <2>2. lastHandled' \in 0..g_seq BY <1>a, <2>1
  <2>3. event' \in [Idx -> BOOLEAN] BY <1>a, <2>1
  <2>4. QED BY <1>0, <1>12, <2>1, <2>2, <2>3
<1>13. CASE Unreadable \/ SetEvent BY <1>12, <1>13 DEF Unreadable, SetEvent
<1>14. QED
  BY <1>1, <1>2, <1>3, <1>4, <1>5, <1>6, <1>7, <1>8, <1>9, <1>10, <1>11, <1>12, <1>13
     DEF Dog
-----------------------------------------------------------------------------
(***************************************************************************)
(* Time.                                                                   *)
(***************************************************************************)
LEMMA OlderType ==
    ASSUME NEW limit \in Nat, NEW age \in 0..limit
    PROVE  /\ Older(age, limit) \in 0..limit /\ Older(age, limit) >= age
           /\ age < limit => Older(age, limit) = age + 1
           /\ age = limit => Older(age, limit) = limit
  BY DEF Older

\* A copy of an age keeps up with it.
LEMMA OlderMonotone ==
    ASSUME NEW m \in Nat, NEW n \in Nat, m <= n, NEW a \in 0..m, NEW b \in 0..n, a <= b
    PROVE  Older(a, m) <= Older(b, n)
  BY DEF Older

LEMMA TickInv == ASSUME Inv, Tick PROVE Inv'
<1> DEFINE Limit == Dwell + Recheck
           aged  == main \notin {"out", "idx", "handle", "start"}
<1>a. /\ g \in Fields /\ g_seq \in Nat /\ w \in Pass /\ w.seq \in Nat /\ w.seq <= g_seq
      /\ Dwell \in Nat /\ Recheck \in Nat /\ episodes \in Seq(Episode)
      /\ Len(episodes) \in Nat
  BY Types
<1>b. /\ Limit \in Nat /\ Dwell <= Limit /\ g.age \in 0..Dwell /\ w.age \in 0..Dwell
      /\ w.left \in 0..Recheck
  BY <1>a DEF Fields, Pass
<1>1. /\ UNCHANGED <<main, calls, g_seq, g_in_wait, job, chain, event, dog, lastHandled>>
      /\ g' = [g EXCEPT !.age = Older(@, Dwell)]
      /\ w' = [w EXCEPT !.age  = Older(@, Dwell),
                        !.left = IF @ > 0 THEN @ - 1 ELSE 0,
                        !.same = @ /\ ~(JobsProgress /\ job[w.idx] = "working")]
      /\ episodes' = IF aged
                     THEN [episodes EXCEPT ![Len(episodes)].age = Older(@, Limit)]
                     ELSE episodes
  BY DEF Tick, pool
<1>2. g' \in Fields /\ g'.idx = g.idx /\ g'.age = Older(g.age, Dwell)
  <2>1. Older(g.age, Dwell) \in 0..Dwell BY <1>a, <1>b, OlderType
  <2>2. QED BY <1>a, <1>1, <2>1 DEF Fields
<1>3. /\ w' \in Pass /\ w'.seq = w.seq /\ w'.idx = w.idx
      /\ w'.age = Older(w.age, Dwell)
      /\ w'.left = IF w.left > 0 THEN w.left - 1 ELSE 0
  <2>1. Older(w.age, Dwell) \in 0..Dwell BY <1>a, <1>b, OlderType
  <2>2. (IF w.left > 0 THEN w.left - 1 ELSE 0) \in 0..Recheck BY <1>a, <1>b
  <2>3. (w.same /\ ~(JobsProgress /\ job[w.idx] = "working")) \in BOOLEAN BY Zenon
  <2>4. QED BY <1>a, <1>1, <2>1, <2>2, <2>3 DEF Pass
<1>4. ASSUME aged
      PROVE  /\ Len(episodes) > 0 /\ episodes' \in Seq(Episode)
             /\ Len(episodes') = Len(episodes)
             /\ \A n \in 1..Len(episodes) :
                   /\ episodes'[n].idx = episodes[n].idx
                   /\ episodes'[n].age = IF n = Len(episodes)
                                         THEN Older(episodes[n].age, Limit)
                                         ELSE episodes[n].age
  <2>1. Len(episodes) > 0
    <3>1. main \in Published \cup {"seq"}
      BY <1>4 DEF Inv, TypeOK, MainPcs, Published
    <3>2. QED BY <1>a, <3>1 DEF Inv, WrapInv
  <2>2. Len(episodes) \in 1..Len(episodes) BY <1>a, <2>1
  <2> DEFINE last == episodes[Len(episodes)]
             e    == [last EXCEPT !.age = Older(@, Limit)]
  <2>3. last \in Episode BY <1>a, <2>2
  <2>4. last.age \in 0..Limit BY <2>3 DEF Episode
  <2>5. Older(last.age, Limit) \in 0..Limit BY <1>b, <2>4, OlderType
  <2>6. e \in Episode /\ e.idx = last.idx /\ e.age = Older(last.age, Limit)
    BY <2>3, <2>5 DEF Episode
  <2>7. episodes' = [episodes EXCEPT ![Len(episodes)] = e] BY <1>1, <1>4
  <2> HIDE DEF e
  <2>8. episodes' \in Seq(Episode) /\ Len(episodes') = Len(episodes)
    BY <1>a, <2>2, <2>6, <2>7
  <2>9. \A n \in 1..Len(episodes) :
          episodes'[n] = IF n = Len(episodes) THEN e ELSE episodes[n]
    BY <1>a, <2>7
  <2>10. QED BY <2>1, <2>6, <2>8, <2>9
<1>5. /\ episodes' \in Seq(Episode) /\ Len(episodes') = Len(episodes)
  BY <1>a, <1>1, <1>4
<1>6. \A n \in 1..Len(episodes) : episodes[n] \in Episode /\ episodes[n].age \in 0..Limit
  <2>1. SUFFICES ASSUME NEW n \in 1..Len(episodes)
                 PROVE  episodes[n] \in Episode /\ episodes[n].age \in 0..Limit
    OBVIOUS
  <2>2. episodes \in Seq(Episode) BY <1>a
  <2>3. episodes[n] \in Episode BY <2>2
  <2>4. QED BY <2>3 DEF Episode
<1>7. \A n \in 1..Len(episodes) :
        episodes'[n].idx = episodes[n].idx /\ episodes'[n].age >= episodes[n].age
  <2>1. CASE aged
    <3>1. ASSUME NEW n \in 1..Len(episodes) PROVE episodes'[n].age >= episodes[n].age
      <4>1. episodes[n].age \in 0..Limit BY <1>6
      <4>2. Older(episodes[n].age, Limit) >= episodes[n].age BY <1>b, <4>1, OlderType
      <4>3. episodes'[n].age = IF n = Len(episodes) THEN Older(episodes[n].age, Limit)
                               ELSE episodes[n].age
        BY <1>4, <2>1
      <4> HIDE DEF Limit
      <4>4. episodes[n].age >= episodes[n].age BY <1>b, <4>1
      <4>5. CASE n = Len(episodes) BY <4>2, <4>3, <4>5
      <4>6. CASE n # Len(episodes) BY <4>3, <4>4, <4>6
      <4>7. QED BY <4>5, <4>6
    <3>2. QED BY <1>4, <2>1, <3>1
  <2>2. CASE ~aged
    <3>1. episodes' = episodes BY <1>1, <2>2
    <3>2. QED BY <1>6, <3>1
  <2>3. QED BY <2>1, <2>2
<1>8. TypeOK' BY <1>1, <1>2, <1>3, <1>5 DEF Inv, TypeOK, Fields, Pass, Episode
<1>9. WrapInv'
  <2>1. ASSUME main = "seq" \/ main \in Published
        PROVE  /\ episodes'[Len(episodes')].idx = calls[1]
               /\ g'.age <= episodes'[Len(episodes')].age
    <3>1. aged BY <2>1 DEF Published
    <3>2. /\ Len(episodes) \in 1..Len(episodes)
          /\ episodes'[Len(episodes)].idx = episodes[Len(episodes)].idx
          /\ episodes'[Len(episodes)].age = Older(episodes[Len(episodes)].age, Limit)
      BY <1>a, <1>4, <3>1
    <3>3. /\ episodes[Len(episodes)].idx = calls[1]
          /\ g.age <= episodes[Len(episodes)].age
      BY <2>1 DEF Inv, WrapInv
    <3>4. episodes[Len(episodes)].age \in 0..Limit BY <1>6, <3>2
    <3>5. Older(g.age, Dwell) <= Older(episodes[Len(episodes)].age, Limit)
      BY <1>a, <1>b, <3>3, <3>4, OlderMonotone
    <3>6. QED BY <1>2, <1>5, <3>2, <3>3, <3>5
  <2>2. QED BY <1>1, <1>2, <1>5, <2>1 DEF Inv, WrapInv
<1>10. DogInv'
  <2>1. Intact' <=> Intact BY <1>1, <1>3 DEF Intact
  <2>2. ASSUME dog \in HasSeq
        PROVE  /\ w.seq \in 1..Len(episodes) /\ Numbered'.idx = Numbered.idx
               /\ Numbered.age \in 0..Limit /\ Numbered'.age \in 0..Limit
               /\ Numbered'.age >= Numbered.age
    <3>1. w.seq > 0 /\ g_seq <= Len(episodes)
      BY <1>a, <2>2 DEF Inv, DogInv, WrapInv
    <3>2. w.seq \in 1..Len(episodes) BY <1>a, <3>1
    <3>3. episodes'[w.seq] \in Episode BY <1>5, <3>2
    <3>4. episodes'[w.seq].age \in 0..Limit BY <3>3 DEF Episode
    <3>5. QED BY <1>3, <1>6, <1>7, <3>2, <3>4 DEF Numbered
  <2>3. ASSUME dog \in HasSeq, Intact
        PROVE  Numbered'.age = Older(Numbered.age, Limit)
    <3>1. aged /\ w.seq = Len(episodes)
      BY <2>3 DEF Intact, Published, Inv, WrapInv
    <3>2. QED BY <1>3, <1>4, <2>2, <2>3, <3>1 DEF Numbered
  <2>4. /\ HasIdx \subseteq HasStart /\ HasStart \subseteq HasSeq /\ Acts \subseteq HasSeq
        /\ {"same1", "sample1", "recheck", "same2"} \subseteq HasIdx
    BY DEF HasIdx, HasStart, HasSeq, Acts, DogPcs
  <2>5. dog \in HasStart /\ Intact => w'.age <= Numbered'.age
    <3>1. SUFFICES ASSUME dog \in HasStart, Intact PROVE w'.age <= Numbered'.age OBVIOUS
    <3>2. w.age <= Numbered.age /\ dog \in HasSeq BY <2>4, <3>1 DEF Inv, DogInv
    <3>3. QED BY <1>a, <1>b, <1>3, <2>2, <2>3, <3>1, <3>2, OlderMonotone
  <2>6. dog \in {"same1", "sample1"} /\ Intact => Numbered'.age >= Dwell
    BY <1>a, <1>b, <2>2, <2>4 DEF Inv, DogInv
  <2>7. dog = "recheck" /\ Intact => Numbered'.age + w'.left >= Dwell + Recheck
    <3>1. SUFFICES ASSUME dog = "recheck", Intact
                   PROVE  Numbered'.age + w'.left >= Dwell + Recheck
      OBVIOUS
    <3>2. Numbered.age + w.left >= Limit /\ dog \in HasSeq
      BY <2>4, <3>1 DEF Inv, DogInv
    <3>3. /\ Numbered.age \in 0..Limit
          /\ Numbered'.age = Older(Numbered.age, Limit)
      BY <2>2, <2>3, <3>1, <3>2
    <3>4. QED BY <1>a, <1>b, <1>3, <3>2, <3>3 DEF Older
  <2>8. dog \in HasSeq /\ OneWait => OneWait'
    BY <1>a, <1>b, <1>3, <2>2 DEF OneWait
  <2>9. dog = "same2" /\ g_seq = w.seq => OneWait' BY <2>4, <2>8 DEF Inv, DogInv
  <2>10. dog \in Acts => OneWait' BY <2>4, <2>8 DEF Inv, DogInv
  <2>11. dog \in HasIdx /\ Intact => Numbered'.idx = w'.idx
    BY <1>3, <2>2, <2>4 DEF Inv, DogInv
  <2>12. dog # "sleep" => g_seq > 0 BY DEF Inv, DogInv
  <2>13. dog \in HasSeq => w.seq > 0 BY DEF Inv, DogInv
  <2>14. dog \in HasIdx => w.idx \in Idx BY DEF Inv, DogInv
  <2>15. UNCHANGED <<dog, g_seq>> /\ w'.seq = w.seq /\ w'.idx = w.idx BY <1>1, <1>3
  <2>16. DogInv' <=>
           /\ dog # "sleep" => g_seq > 0
           /\ dog \in HasSeq => w.seq > 0
           /\ dog \in HasIdx => w.idx \in Idx
           /\ dog \in HasStart /\ Intact => w'.age <= Numbered'.age
           /\ dog \in HasIdx /\ Intact => Numbered'.idx = w'.idx
           /\ dog \in {"same1", "sample1"} /\ Intact => Numbered'.age >= Dwell
           /\ dog = "recheck" /\ Intact => Numbered'.age + w'.left >= Dwell + Recheck
           /\ dog = "same2" /\ g_seq = w.seq => OneWait'
           /\ dog \in Acts => OneWait'
    BY <2>1, <2>15 DEF DogInv
  <2>17. QED
    BY <2>5, <2>6, <2>7, <2>9, <2>10, <2>11, <2>12, <2>13, <2>14, <2>16
<1>11. QED BY <1>8, <1>9, <1>10 DEF Inv
-----------------------------------------------------------------------------
(***************************************************************************)
(* The theorems.                                                           *)
(***************************************************************************)
LEMMA NextInv == Inv /\ [Next]_vars => Inv'
<1> SUFFICES ASSUME Inv, [Next]_vars PROVE Inv' OBVIOUS
<1>1. CASE Pool BY <1>1, PoolInv
<1>2. CASE Waiter BY <1>2, WaiterInv
<1>3. CASE Dog BY <1>3, DogStepInv
<1>4. CASE Tick BY <1>4, TickInv
<1>5. CASE UNCHANGED vars
  <2>1. UNCHANGED <<main, calls, g, g_seq, g_in_wait, job, chain, event, dog, w,
                    lastHandled, episodes>>
    BY <1>5 DEF vars, wrap, pool
  <2>2. TypeOK' BY <2>1 DEF Inv, TypeOK
  <2>3. WrapInv' BY <2>1 DEF Inv, WrapInv
  <2>4. DogInv' BY <2>1 DEF Inv, DogInv, Intact, OneWait, Numbered
  <2>5. QED BY <2>2, <2>3, <2>4 DEF Inv
<1>6. QED BY <1>1, <1>2, <1>3, <1>4, <1>5 DEF Next

\* The invariant holds in every state the wrap, the watchdog and the jobs reach.
THEOREM Invariance == Spec => []Inv
BY InitInv, NextInv, PTL DEF Spec

\* Every variable of the breaker keeps its type (JobWaitBreaker.cpp:24-51).
THEOREM TypeCorrect == Spec => []TypeOK
<1>1. Inv => TypeOK BY DEF Inv
<1>2. QED BY Invariance, <1>1, PTL

\* What the watchdog acts on is one wait, past the dwell threshold and the
\* window, though no two of its loads are taken together
\* (JobWaitBreaker.cpp:177-204).
THEOREM OneWaitOnly == Spec => []ActsOnOneWait
<1>1. Inv => ActsOnOneWait BY DEF Inv, DogInv, Acts, OneWait, Numbered, ActsOnOneWait
<1>2. QED BY Invariance, <1>1, PTL
-----------------------------------------------------------------------------
(***************************************************************************)
(* No job at work is declared stuck.  A working job leaves its list whole; *)
(* so the second sample finds no progress only if the entry was not touched*)
(* in the window, and with jobs that progress the window of such a job has *)
(* not begun to run.  The second sample comes when it has run out.         *)
(***************************************************************************)
LiveInv ==
    /\ \A i \in Idx : job[i] = "working" => chain[i] = "Resolved"
    /\ dog \in {"same2", "sample2"} => w.left = 0
    /\ dog \in {"recheck", "same2", "sample2"} /\ w.same /\ job[w.idx] = "working" =>
          w.left = Recheck

LEMMA InitLive == Init => LiveInv
  BY DEF Init, LiveInv

\* What a step of a job leaves of the watchdog's locals.
LEMMA TouchW ==
    ASSUME Inv, NEW i \in Idx, Touch(i)
    PROVE  /\ w'.idx = w.idx /\ w'.left = w.left /\ w'.s1 = w.s1 /\ w'.seq = w.seq
           /\ w'.handle = w.handle
           /\ w'.same => w.same /\ w.idx # i
           /\ ~w.same => ~w'.same
<1>1. w \in Pass BY DEF Inv, TypeOK, Pass
<1>2. w' = [w EXCEPT !.same = w.same /\ w.idx # i] BY DEF Touch
<1>3. w'.same = (w.same /\ w.idx # i) BY <1>1, <1>2, Zenon DEF Pass
<1>4. QED BY <1>1, <1>2, <1>3 DEF Pass

\* What time leaves of them.
LEMMA TickW ==
    ASSUME Inv, Tick
    PROVE  /\ w'.idx = w.idx /\ w'.s1 = w.s1 /\ w'.seq = w.seq /\ w'.handle = w.handle
           /\ w'.left = IF w.left > 0 THEN w.left - 1 ELSE 0
           /\ w.left \in 0..Recheck
           /\ w'.same => w.same /\ ~(JobsProgress /\ job[w.idx] = "working")
           /\ ~w.same => ~w'.same
<1>1. w \in Pass BY DEF Inv, TypeOK, Pass
<1> DEFINE same == w.same /\ ~(JobsProgress /\ job[w.idx] = "working")
<1>2. w' = [w EXCEPT !.age  = Older(@, Dwell),
                     !.left = IF @ > 0 THEN @ - 1 ELSE 0,
                     !.same = same]
  BY DEF Tick
<1> HIDE DEF same
<1>3. w'.same = same BY <1>1, <1>2, Zenon DEF Pass
<1>4. /\ w'.idx = w.idx /\ w'.s1 = w.s1 /\ w'.seq = w.seq /\ w'.handle = w.handle
      /\ w'.left = IF w.left > 0 THEN w.left - 1 ELSE 0
      /\ w.left \in 0..Recheck
  BY <1>1, <1>2 DEF Pass
<1>5. w'.same => w.same /\ ~(JobsProgress /\ job[w.idx] = "working")
  BY <1>3, Zenon DEF same
<1>6. ~w.same => ~w'.same BY <1>3, Zenon DEF same
<1>7. QED BY <1>4, <1>5, <1>6

\* A pass goes on by one of these steps; otherwise it stands down.
LEMMA DogGoesOn ==
    ASSUME Inv, Dog, ~StandDown
    PROVE  /\ UNCHANGED <<wrap, pool, episodes>>
           /\ \/ /\ dog \in {"sleep", "seq", "start", "idx", "check", "same1"}
                 /\ dog' \in {"seq", "start", "idx", "check", "same1", "sample1"}
              \/ /\ dog = "sample1" /\ dog' = "recheck" /\ UNCHANGED lastHandled
                 /\ w'.idx = w.idx /\ w'.left = Recheck /\ w'.s1 = chain[w.idx]
                 /\ w'.seq = w.seq
              \/ /\ dog = "recheck" /\ dog' = "same2" /\ w' = w /\ w.left = 0
                 /\ g_in_wait
              \/ dog = "same2" /\ dog' = "sample2" /\ w' = w /\ g_seq = w.seq
              \/ dog = "sample2" /\ dog' = "handle" /\ w' = w /\ NoProgress
              \/ /\ dog = "handle" /\ dog' = "signal" /\ g.handle # NoIdx
                 /\ w'.idx = w.idx /\ w'.handle = g.handle
<1> USE DEF Step, Watches
<1>a. w \in Pass BY DEF Inv, TypeOK, Pass
<1>1. CASE PollEnds \/ ReadSeq \/ ReadStart \/ ReadIdx \/ Check \/ Same1
  BY <1>1 DEF PollEnds, ReadSeq, ReadStart, ReadIdx, Check, Same1
<1>2. CASE Sample1
  <2>1. w' = [w EXCEPT !.s1 = chain[w.idx], !.same = TRUE, !.left = Recheck]
    BY <1>2 DEF Sample1
  <2>2. /\ w'.idx = w.idx /\ w'.left = Recheck /\ w'.s1 = chain[w.idx]
        /\ w'.seq = w.seq
    BY <1>a, <2>1 DEF Pass
  <2>3. QED BY <1>2, <2>2 DEF Sample1
<1>3. CASE WindowOver BY <1>3 DEF WindowOver
<1>4. CASE Same2 BY <1>4 DEF Same2, SameEpisode
<1>5. CASE Sample2 BY <1>5 DEF Sample2, pool
<1>6. CASE ReadHandle
  <2>1. g.handle # NoIdx /\ w' = [w EXCEPT !.handle = g.handle]
    BY <1>6 DEF ReadHandle
  <2>2. w'.idx = w.idx /\ w'.handle = g.handle BY <1>a, <2>1 DEF Pass
  <2>3. QED BY <1>6, <2>1, <2>2 DEF ReadHandle
<1>7. CASE Unreadable \/ SetEvent BY <1>7 DEF Unreadable, SetEvent
<1>8. QED BY <1>1, <1>2, <1>3, <1>4, <1>5, <1>6, <1>7 DEF Dog

\* A pass that stands down changes no job.
LEMMA DogStandsDown ==
    ASSUME Dog, StandDown
    PROVE  /\ dog' = "sleep"
           /\ UNCHANGED <<wrap, job, chain, episodes>>
           /\ \/ event' = event
              \/ dog = "signal" /\ event' = [event EXCEPT ![w.handle] = TRUE]
  BY DEF Dog, PollEnds, ReadSeq, ReadStart, ReadIdx, Check, Same1, Unreadable, Sample1,
         WindowOver, Same2, Sample2, ReadHandle, SetEvent, Watches, pool, Step, StandDown

LEMMA LiveStep ==
    ASSUME JobsProgress, Inv, LiveInv, [Next]_vars
    PROVE  LiveInv'
<1>a. dog \in HasIdx => w.idx \in Idx BY DEF Inv, DogInv
<1>b. job \in [Idx -> Fates] /\ chain \in [Idx -> Chains] BY DEF Inv, TypeOK
<1>1. ASSUME NEW i \in Idx, Publish(i) \/ Progress(i) \/ Complete(i) PROVE LiveInv'
  <2>1. Touch(i) /\ dog' = dog BY <1>1 DEF Publish, Progress, Complete
  <2>2. /\ w'.idx = w.idx /\ w'.left = w.left
        /\ w'.same => w.same /\ w.idx # i
    BY <2>1, TouchW
  <2>3. /\ \A j \in Idx : j # i => job'[j] = job[j] /\ chain'[j] = chain[j]
        /\ job'[i] = "working" => chain'[i] = "Resolved"
    <3>1. CASE Publish(i) BY <1>b, <3>1 DEF Publish
    <3>2. CASE Progress(i) BY <3>2 DEF Progress, pool, LiveInv
    <3>3. CASE Complete(i) BY <1>b, <3>3 DEF Complete
    <3>4. QED BY <1>1, <3>1, <3>2, <3>3
  <2>4. dog \in {"recheck", "same2", "sample2"} => w.idx \in Idx
    BY <1>a DEF HasIdx, HasStart, HasSeq, DogPcs
  <2>5. QED BY <2>1, <2>2, <2>3, <2>4 DEF LiveInv
<1>2. ASSUME NEW i \in Idx, Lose(i) PROVE LiveInv'
  <2>1. UNCHANGED <<dog, w>> /\ job' = [job EXCEPT ![i] = "lost"] BY <1>2 DEF Lose
  <2>2. \A j \in Idx : job'[j] = "working" => job[j] = "working" /\ chain'[j] = chain[j]
    BY <1>2, <1>b DEF Lose
  <2>3. dog \in {"recheck", "same2", "sample2"} => w.idx \in Idx
    BY <1>a DEF HasIdx, HasStart, HasSeq, DogPcs
  <2>4. QED BY <2>1, <2>2, <2>3 DEF LiveInv
<1>3. CASE Waiter
  <2>1. UNCHANGED <<dog, w, job, chain>>
    BY <1>3 DEF Waiter, GoesOn, Store, StoreIdx, StoreHandle, StoreStart, BumpSeq, Open,
                ReadChain, Wake, Leave, Call, pool
  <2>2. QED BY <2>1 DEF LiveInv
<1>4. CASE Dog /\ StandDown
  <2>1. dog' = "sleep" /\ UNCHANGED <<job, chain>> BY <1>4, DogStandsDown
  <2>2. QED BY <2>1 DEF LiveInv
<1>5. CASE Dog /\ ~StandDown
  <2>1. /\ UNCHANGED <<job, chain>>
        /\ \/ dog' \notin {"recheck", "same2", "sample2"}
           \/ dog' = "recheck" /\ w'.left = Recheck
           \/ dog = "recheck" /\ dog' = "same2" /\ w' = w /\ w.left = 0
           \/ dog = "same2" /\ dog' = "sample2" /\ w' = w
    BY <1>5, DogGoesOn DEF pool
  <2>2. QED BY <2>1 DEF LiveInv
<1>6. CASE Tick
  <2>1. UNCHANGED <<job, chain, dog>> BY <1>6 DEF Tick, pool
  <2>2. /\ w'.idx = w.idx /\ w'.left = IF w.left > 0 THEN w.left - 1 ELSE 0
        /\ w'.same => job[w.idx] # "working"
    BY <1>6, TickW
  <2>3. QED BY <2>1, <2>2 DEF LiveInv
<1>7. CASE UNCHANGED vars BY <1>7 DEF vars, pool, LiveInv
<1>8. QED BY <1>1, <1>2, <1>3, <1>4, <1>5, <1>6, <1>7 DEF Next, Pool

\* With jobs that progress, and a window to watch them in, no job at work is
\* declared stuck, however the waits nest and whatever happens between the loads
\* (JobWaitBreaker.cpp:194-236).
THEOREM NoneStuck == JobsProgress /\ Recheck > 0 => (Spec => NoLiveJobIsStuck)
<1> SUFFICES ASSUME JobsProgress, Recheck > 0 PROVE Spec => NoLiveJobIsStuck
  OBVIOUS
<1>1. Inv /\ LiveInv /\ [Next]_vars => LiveInv' BY LiveStep
<1>2. ASSUME Inv, LiveInv, Next, dog' = "handle", dog # "handle"
      PROVE  job[w.idx] # "working"
  <2>1. Dog /\ ~StandDown
    <3>1. dog' # dog BY <1>2
    <3>2. Dog
      BY <1>2, <3>1 DEF Next, Pool, Publish, Progress, Complete, Lose, Waiter, GoesOn,
                        Store, StoreIdx, StoreHandle, StoreStart, BumpSeq, Open,
                        ReadChain, Wake, Leave, Call, Tick
    <3>3. QED BY <1>2, <3>2 DEF StandDown, Step
  <2>2. dog = "sample2" /\ NoProgress BY <1>2, <2>1, DogGoesOn
  <2>3. w.idx \in Idx /\ w.left = 0
    BY <1>2, <2>2 DEF Inv, DogInv, LiveInv, HasIdx, HasStart, HasSeq, DogPcs
  <2>4. SUFFICES ASSUME job[w.idx] = "working" PROVE FALSE OBVIOUS
  <2>5. chain[w.idx] = "Resolved" BY <1>2, <2>3, <2>4 DEF LiveInv
  <2>6. w.same BY <2>2, <2>5 DEF NoProgress
  <2>7. w.left = Recheck BY <1>2, <2>2, <2>4, <2>6 DEF LiveInv
  <2>8. QED BY <2>3, <2>7
<1>3. Inv /\ LiveInv /\ [Next]_vars =>
        [dog' = "handle" /\ dog # "handle" => job[w.idx] # "working"]_vars
  <2>1. SUFFICES ASSUME Inv, LiveInv, Next, dog' = "handle", dog # "handle"
                 PROVE  job[w.idx] # "working"
    OBVIOUS
  <2>2. QED BY <1>2, <2>1
<1>4. Spec => []LiveInv BY Invariance, InitLive, <1>1, PTL DEF Spec
<1>5. QED BY Invariance, <1>3, <1>4, PTL DEF Spec, NoLiveJobIsStuck
-----------------------------------------------------------------------------
(***************************************************************************)
(* The refinement.  Between the last look at the episode and the load of   *)
(* its handle the main thread must not have gone on, or the handle may be  *)
(* that of the next wait.  It has not, because a unit of time passed in the*)
(* window: main was parked then, on the list the watchdog samples, and its *)
(* event was not set.  So the job was at work, and is seen to have moved,  *)
(* or it is lost and nobody but the watchdog will set the event.           *)
(*                                                                         *)
(* Main is parked on the sampled list if its waits do not nest or there is *)
(* one list only.  With nested waits on two lists it may be parked on the  *)
(* other one, and the argument fails.                                      *)
(***************************************************************************)
OneListAtATime == MaxDepth = 1 \/ \A i, j \in Idx : i = j

Dead   == main = "parked" /\ Last(calls) = w.idx /\ job[w.idx] = "lost" /\ ~event[w.idx]
Moving == ~w.same /\ w.s1 = "Resolved"

\* What an event and a stored handle tell of the job.
EventInv ==
    /\ \A i \in Idx : event[i] => job[i] # "working"
    /\ \A i \in Idx : job[i] = "done" => event[i] \/ chain[i] = "TornDown"
    /\ main = "parked" /\ job[Last(calls)] = "done" => event[Last(calls)]
    /\ main \in {"start", "seq"} \cup Published => g.handle \in {calls[1], NoIdx}

\* What the watchdog's window tells of the wait.
WindowInv ==
    /\ dog = "recheck" /\ Intact /\ job[w.idx] = "working" => w.s1 = "Resolved"
    /\ dog = "recheck" /\ Intact /\ w.left < Recheck => Dead \/ Moving
    /\ dog = "same2" /\ g_seq = w.seq => Dead \/ Moving
    /\ dog = "sample2" => Dead \/ Moving
    /\ dog \in {"handle", "signal"} => Dead
    /\ dog = "signal" => w.handle = w.idx

CalmInv == EventInv /\ WindowInv

LEMMA InitCalm == Init => CalmInv
  BY DEF Init, CalmInv, EventInv, WindowInv, Published

\* A thread that waits is in a call, and then in calls on one list.
LEMMA LastCall ==
    ASSUME Inv, main # "out"
    PROVE  /\ Last(calls) \in Idx /\ calls[1] \in Idx /\ Len(calls) > 0
           /\ OneListAtATime => Last(calls) = calls[1]
<1>1. calls \in Seq(Idx) /\ Len(calls) \in Nat /\ Len(calls) <= MaxDepth BY Types
<1>2. calls # <<>> BY DEF Inv, WrapInv
<1>3. Len(calls) > 0 BY <1>1, <1>2
<1>4. calls[Len(calls)] \in Idx /\ calls[1] \in Idx BY <1>1, <1>3
<1>5. OneListAtATime => calls[Len(calls)] = calls[1]
  <2>1. CASE MaxDepth = 1 BY <1>1, <1>3, <2>1
  <2>2. CASE \A i, j \in Idx : i = j BY <1>4, <2>2
  <2>3. QED BY <2>1, <2>2 DEF OneListAtATime
<1>6. QED BY <1>3, <1>4, <1>5 DEF Last

\* The main thread changes nothing of the pool and of the watchdog, makes no
\* episode intact again, and does not go on while its job is lost.
LEMMA WaiterKeeps ==
    ASSUME Inv, Waiter
    PROVE  /\ UNCHANGED <<dog, w, job, chain, event>>
           /\ Intact' => Intact
           /\ (g_seq = w.seq)' => g_seq = w.seq
           /\ ~Dead
<1>1. UNCHANGED <<dog, w, job, chain, event>>
  BY DEF Waiter, GoesOn, Store, StoreIdx, StoreHandle, StoreStart, BumpSeq, Open,
         ReadChain, Wake, Leave, Call, pool
<1>2. /\ g_seq' = g_seq \/ g_seq' = g_seq + 1
      /\ main' \in Published => main \in Published \/ g_seq' = g_seq + 1
  BY DEF Waiter, GoesOn, Store, StoreIdx, StoreHandle, StoreStart, BumpSeq, Open,
         ReadChain, Wake, Leave, Call, Goto, Published
<1>3. g_seq \in Nat /\ w.seq \in Nat /\ w.seq <= g_seq BY Types
<1>4. main = "parked" => event[Last(calls)]
  BY DEF Waiter, GoesOn, Store, StoreIdx, StoreHandle, StoreStart, BumpSeq, Open,
         ReadChain, Wake, Leave, Call
<1>5. ~Dead BY <1>4 DEF Dead
<1>6. w'.seq = w.seq BY <1>1
<1>7. (g_seq = w.seq)' => g_seq = w.seq BY <1>2, <1>3, <1>6
<1>8. Intact' => Intact BY <1>2, <1>3, <1>6, <1>7 DEF Intact
<1>9. QED BY <1>1, <1>5, <1>7, <1>8

LEMMA EventStep ==
    ASSUME Inv, CalmInv, [Next]_vars
    PROVE  EventInv'
<1>a. /\ job \in [Idx -> Fates] /\ chain \in [Idx -> Chains]
      /\ event \in [Idx -> BOOLEAN]
  BY DEF Inv, TypeOK
<1>b. EventInv BY DEF CalmInv
<1>c. main = "parked" => Last(calls) \in Idx BY LastCall
<1>d. g \in Fields BY Types
<1>1. ASSUME NEW i \in Idx, Publish(i) PROVE EventInv'
  <2>1. main = "out" /\ UNCHANGED <<main, calls, g>> BY <1>1 DEF Publish, wrap
  <2>2. \A j \in Idx :
          /\ job'[j] = IF j = i THEN "working" ELSE job[j]
          /\ chain'[j] = IF j = i THEN "Resolved" ELSE chain[j]
          /\ event'[j] = IF j = i THEN FALSE ELSE event[j]
    BY <1>1, <1>a DEF Publish
  <2>3. QED BY <1>b, <2>1, <2>2 DEF EventInv, Published
<1>2. ASSUME NEW i \in Idx, Progress(i) PROVE EventInv'
  BY <1>2, <1>b DEF Progress, EventInv, wrap, pool
<1>3. ASSUME NEW i \in Idx, Complete(i) PROVE EventInv'
  <2>1. UNCHANGED <<main, calls, g>> BY <1>3 DEF Complete, wrap
  <2>2. \A j \in Idx :
          /\ job'[j] = IF j = i THEN "done" ELSE job[j]
          /\ j # i => chain'[j] = chain[j]
          /\ event'[j] = IF j = i THEN TRUE ELSE event[j]
    BY <1>3, <1>a DEF Complete
  <2>3. QED BY <1>b, <1>c, <2>1, <2>2 DEF EventInv
<1>4. ASSUME NEW i \in Idx, Lose(i) PROVE EventInv'
  <2>1. UNCHANGED <<main, calls, g, event>> BY <1>4 DEF Lose, wrap
  <2>2. \A j \in Idx : /\ job'[j] = IF j = i THEN "lost" ELSE job[j]
                       /\ j # i => chain'[j] = chain[j]
    BY <1>4, <1>a DEF Lose
  <2>3. QED BY <1>b, <1>c, <2>1, <2>2 DEF EventInv
<1>5. CASE Waiter
  <2>1. UNCHANGED <<job, chain, event>> BY <1>5, WaiterKeeps
  <2>2. main' = "parked" => /\ main = "inside" /\ calls' = calls
                            /\ chain[Last(calls)] # "TornDown"
    BY <1>5 DEF Waiter, GoesOn, Store, StoreIdx, StoreHandle, StoreStart, BumpSeq, Open,
                ReadChain, Wake, Leave, Call, Goto
  <2>3. main' = "parked" /\ job'[Last(calls')] = "done" => event'[Last(calls')]
    BY <1>b, <2>1, <2>2, LastCall DEF EventInv
  <2>4. ASSUME main' \in {"start", "seq"} \cup Published
        PROVE  g'.handle \in {calls'[1], NoIdx}
    <3>1. CASE StoreHandle
      <4>1. PICK h \in DeriveWaitHandle(calls[1]) : g' = [g EXCEPT !.handle = h]
        BY <3>1 DEF StoreHandle
      <4>2. g'.handle = h BY <1>d, <4>1 DEF Fields
      <4>3. QED BY <3>1, <4>2 DEF StoreHandle, DeriveWaitHandle
    <3>2. CASE StoreStart
      <4>1. g'.handle = g.handle BY <1>d, <3>2 DEF StoreStart, Fields
      <4>2. QED BY <1>b, <3>2, <4>1 DEF StoreStart, EventInv
    <3>3. CASE BumpSeq \/ Open \/ ReadChain \/ Wake
      BY <1>b, <3>3 DEF BumpSeq, Open, ReadChain, Wake, EventInv, Published
    <3>4. CASE Leave
      <4>1. calls \in Seq(Idx) /\ main = "ret" /\ calls' = Front(calls) /\ g' = g
        BY <3>4, Types DEF Leave
      <4>2. Len(calls) \in Nat /\ Len(calls) > 0 BY <4>1, LastCall, Types
      <4>3. Len(calls) # 1 BY <2>4, <3>4 DEF Leave, Goto, Published
      <4>n. \A n \in Nat : n > 0 /\ n # 1 => n > 1 OBVIOUS
      <4>4. Len(calls) > 1 BY <4>2, <4>3, <4>n, Zenon
      <4>5. calls'[1] = calls[1] BY <4>1, <4>2, <4>4, FrontCalls
      <4>6. QED BY <1>b, <4>1, <4>5 DEF EventInv, Published
    <3>5. CASE StoreIdx BY <2>4, <3>5 DEF StoreIdx, Goto, Published
    <3>6. ASSUME NEW i \in Idx, Call(i) PROVE g'.handle \in {calls'[1], NoIdx}
      <4>1. main = "inside" /\ calls' = Append(calls, i) /\ g' = g
        BY <2>4, <3>6 DEF Call, Goto, Published
      <4>2. calls \in Seq(Idx) /\ Len(calls) > 0 BY <4>1, LastCall, Types
      <4>3. calls'[1] = calls[1] BY <4>1, <4>2
      <4>4. QED BY <1>b, <4>1, <4>3 DEF EventInv, Published
    <3>7. QED BY <1>5, <3>1, <3>2, <3>3, <3>4, <3>5, <3>6 DEF Waiter, GoesOn, Store
  <2>5. QED BY <1>b, <2>1, <2>3, <2>4 DEF EventInv
<1>6. CASE Dog
  <2>1. UNCHANGED <<main, calls, g, job, chain>>
    BY <1>6, DogGoesOn, DogStandsDown DEF wrap, pool
  <2>2. CASE event' = event BY <1>b, <2>1, <2>2 DEF EventInv
  <2>3. CASE dog = "signal" /\ event' = [event EXCEPT ![w.handle] = TRUE]
    <3>1. w.handle = w.idx /\ job[w.idx] = "lost"
      BY <2>3 DEF CalmInv, WindowInv, Dead
    <3>2. \A j \in Idx : /\ event'[j] => event[j] \/ j = w.idx
                         /\ event[j] => event'[j]
      BY <1>a, <2>3, <3>1
    <3>3. QED BY <1>b, <1>c, <2>1, <3>1, <3>2 DEF EventInv
  <2>4. QED BY <1>6, <2>2, <2>3, DogGoesOn, DogStandsDown DEF pool
<1>7. CASE Tick
  <2>1. UNCHANGED <<main, calls, job, chain, event>> BY <1>7 DEF Tick, pool
  <2>2. g'.handle = g.handle BY <1>d, <1>7 DEF Tick, Fields
  <2>3. QED BY <1>b, <2>1, <2>2 DEF EventInv
<1>8. CASE UNCHANGED vars BY <1>8, <1>b DEF vars, wrap, pool, EventInv, Published
<1>9. QED BY <1>1, <1>2, <1>3, <1>4, <1>5, <1>6, <1>7, <1>8 DEF Next, Pool

LEMMA WindowStep ==
    ASSUME JobsProgress, Recheck > 0, OneListAtATime, Inv, LiveInv, CalmInv, [Next]_vars
    PROVE  WindowInv'
<1>a. job \in [Idx -> Fates] /\ event \in [Idx -> BOOLEAN] BY DEF Inv, TypeOK
<1>b. WindowInv BY DEF CalmInv
<1>c. dog \in {"recheck", "same2", "sample2", "handle", "signal"} => w.idx \in Idx
  BY DEF Inv, DogInv, HasIdx, HasStart, HasSeq, DogPcs
<1>1. ASSUME NEW i \in Idx, Publish(i) PROVE WindowInv'
  <2>1. /\ main = "out" /\ UNCHANGED <<main, g_seq, dog>> /\ Touch(i)
    BY <1>1 DEF Publish, wrap
  <2>2. w'.s1 = w.s1 /\ w'.seq = w.seq /\ (~w.same => ~w'.same) BY <2>1, TouchW
  <2>3. ~Intact' /\ ~Dead BY <2>1 DEF Intact, Published, Dead
  <2>4. Moving => Moving' BY <2>2 DEF Moving
  <2>5. QED BY <1>b, <2>1, <2>2, <2>3, <2>4 DEF WindowInv
<1>2. ASSUME NEW i \in Idx, Progress(i) \/ Complete(i) PROVE WindowInv'
  <2>1. /\ UNCHANGED <<main, calls, g_seq, dog>> /\ Touch(i) /\ job[i] = "working"
    BY <1>2 DEF Progress, Complete, wrap
  <2>2. /\ w'.idx = w.idx /\ w'.left = w.left /\ w'.s1 = w.s1 /\ w'.seq = w.seq
        /\ w'.handle = w.handle /\ (~w.same => ~w'.same)
    BY <2>1, TouchW
  <2>3. \A j \in Idx : /\ j # i => job'[j] = job[j] /\ event'[j] = event[j]
                       /\ job'[j] = "working" => job[j] = "working"
    BY <1>2, <1>a DEF Progress, Complete, pool
  <2>4. (Intact' <=> Intact) /\ (Moving => Moving') BY <2>1, <2>2 DEF Intact, Moving
  <2>5. w.idx \in Idx /\ Dead => Dead' BY <2>1, <2>2, <2>3 DEF Dead
  <2>6. QED BY <1>b, <1>c, <2>1, <2>2, <2>3, <2>4, <2>5 DEF WindowInv
<1>3. ASSUME NEW i \in Idx, Lose(i) PROVE WindowInv'
  <2>1. UNCHANGED <<main, calls, g_seq, dog, w, event>> /\ job[i] = "working"
    BY <1>3 DEF Lose, wrap
  <2>2. \A j \in Idx : /\ j # i => job'[j] = job[j]
                       /\ job'[j] = "working" => job[j] = "working"
    BY <1>3, <1>a DEF Lose
  <2>3. (Intact' <=> Intact) /\ (Moving => Moving') BY <2>1 DEF Intact, Moving
  <2>4. w.idx \in Idx /\ Dead => Dead' BY <2>1, <2>2 DEF Dead
  <2>5. QED BY <1>b, <1>c, <2>1, <2>2, <2>3, <2>4 DEF WindowInv
<1>4. CASE Waiter
  <2>1. /\ UNCHANGED <<dog, w, job, event>> /\ ~Dead
        /\ Intact' => Intact
        /\ (g_seq = w.seq)' => g_seq = w.seq
    BY <1>4, WaiterKeeps
  <2>2. Moving => Moving' BY <2>1 DEF Moving
  <2>3. QED BY <1>b, <2>1, <2>2 DEF WindowInv
<1>5. CASE Dog /\ StandDown
  <2>1. dog' = "sleep" BY <1>5, DogStandsDown
  <2>2. QED BY <2>1 DEF WindowInv
<1>6. CASE Dog /\ ~StandDown
  <2>1. UNCHANGED <<main, calls, g, g_seq, job, event>> BY <1>6, DogGoesOn DEF wrap, pool
  <2>2. CASE dog' \in {"seq", "start", "idx", "check", "same1", "sample1"}
    BY <2>2 DEF WindowInv
  <2>3. CASE /\ dog = "sample1" /\ dog' = "recheck"
             /\ w'.idx = w.idx /\ w'.left = Recheck /\ w'.s1 = chain[w.idx]
    <3>1. w.idx \in Idx BY <2>3 DEF Inv, DogInv, HasIdx, HasStart, HasSeq, DogPcs
    <3>2. job[w.idx] = "working" => chain[w.idx] = "Resolved" BY <3>1 DEF LiveInv
    <3>3. ~(w'.left < Recheck) BY <2>3, TimesAssumption
    <3>4. QED BY <2>1, <2>3, <3>2, <3>3 DEF WindowInv
  <2>4. CASE dog = "recheck" /\ dog' = "same2" /\ w' = w /\ w.left = 0 /\ g_in_wait
    <3>1. g_seq = w.seq => Dead \/ Moving
      BY <1>b, <2>4, OpenIsIntact DEF WindowInv
    <3>2. UNCHANGED <<Dead, Moving>> BY <2>1, <2>4 DEF Dead, Moving
    <3>3. QED BY <2>1, <2>4, <3>1, <3>2 DEF WindowInv
  <2>5. CASE dog = "same2" /\ dog' = "sample2" /\ w' = w /\ g_seq = w.seq
    <3>1. UNCHANGED <<Dead, Moving>> BY <2>1, <2>5 DEF Dead, Moving
    <3>2. QED BY <1>b, <2>1, <2>5, <3>1 DEF WindowInv
  <2>6. CASE dog = "sample2" /\ dog' = "handle" /\ w' = w /\ NoProgress
    <3>1. Dead BY <1>b, <2>6 DEF WindowInv, NoProgress, Moving
    <3>2. Dead' BY <2>1, <2>6, <3>1 DEF Dead
    <3>3. QED BY <2>6, <3>2 DEF WindowInv
  <2>7. CASE /\ dog = "handle" /\ dog' = "signal" /\ g.handle # NoIdx
             /\ w'.idx = w.idx /\ w'.handle = g.handle
    <3>1. Dead BY <1>b, <2>7 DEF WindowInv
    <3>2. Last(calls) = calls[1] BY <3>1, LastCall DEF Dead
    <3>3. g.handle = calls[1] BY <2>7, <3>1 DEF CalmInv, EventInv, Dead, Published
    <3>4. Dead' BY <2>1, <2>7, <3>1 DEF Dead
    <3>5. QED BY <2>7, <3>1, <3>2, <3>3, <3>4 DEF WindowInv, Dead
  <2>8. QED BY <1>6, <2>2, <2>3, <2>4, <2>5, <2>6, <2>7, DogGoesOn
<1>7. CASE Tick
  <2>1. UNCHANGED <<main, calls, g_seq, job, event, dog>> /\ MainAtRest
    BY <1>7 DEF Tick, pool
  <2>2. /\ w'.idx = w.idx /\ w'.s1 = w.s1 /\ w'.seq = w.seq /\ w'.handle = w.handle
        /\ w'.same => job[w.idx] # "working"
        /\ ~w.same => ~w'.same
    BY <1>7, TickW
  <2>3. /\ Intact' <=> Intact
        /\ Dead' <=> Dead
        /\ Moving => Moving'
    BY <2>1, <2>2 DEF Intact, Dead, Moving
  <2>4. ASSUME dog = "recheck", Intact PROVE Dead' \/ Moving'
    <3>1. main = "parked" /\ ~event[Last(calls)]
      BY <2>1, <2>4 DEF MainAtRest, Intact, Published
    <3>2. Last(calls) = calls[1] /\ calls[1] \in Idx BY <3>1, LastCall
    <3>3. w.idx = calls[1]
      <4>1. episodes[Len(episodes)].idx = calls[1] /\ Len(episodes) = w.seq
        BY <2>4, <3>1 DEF Inv, WrapInv, Intact
      <4>2. Numbered.idx = w.idx
        BY <2>4 DEF Inv, DogInv, HasIdx, HasStart, HasSeq, DogPcs
      <4>3. QED BY <4>1, <4>2 DEF Numbered
    <3>4. job[w.idx] # "done" BY <3>1, <3>2, <3>3 DEF CalmInv, EventInv
    <3>5. CASE job[w.idx] = "working"
      <4>1. w.s1 = "Resolved" BY <1>b, <2>4, <3>5 DEF WindowInv
      <4>2. QED BY <2>2, <3>5, <4>1 DEF Moving
    <3>6. CASE job[w.idx] = "lost"
      <4>1. Dead BY <3>1, <3>2, <3>3, <3>6 DEF Dead
      <4>2. QED BY <2>3, <4>1
    <3>7. job[w.idx] \in Fates BY <1>a, <3>2, <3>3
    <3>8. QED BY <3>4, <3>5, <3>6, <3>7 DEF Fates
  <2>5. QED BY <1>b, <2>1, <2>2, <2>3, <2>4 DEF WindowInv
<1>8. CASE UNCHANGED vars
  <2>1. UNCHANGED <<main, calls, g_seq, job, event, dog, w>>
    BY <1>8 DEF vars, wrap, pool
  <2>2. UNCHANGED <<Intact, Dead, Moving>> BY <2>1 DEF Intact, Dead, Moving
  <2>3. QED BY <1>b, <2>1, <2>2 DEF WindowInv
<1>9. QED BY <1>1, <1>2, <1>3, <1>4, <1>5, <1>6, <1>7, <1>8 DEF Next, Pool

\* The initial states of the breaker are initial states of the abstract wait.
LEMMA InitWait == Init => Abstract!Init
  BY DEF Init, Abstract!Init

\* Every step of the breaker is a step of the abstract wait or a stutter.
LEMMA StepWait ==
    ASSUME Inv, EventInv, [Next]_vars
    PROVE  [Abstract!Next]_(Abstract!vars)
<1> DEFINE waiting == IF main = "parked" THEN Last(calls) ELSE NoIdx
<1> USE DEF Abstract!vars, Abstract!Next
<1>0. ASSUME UNCHANGED <<main, calls, job>> PROVE [Abstract!Next]_(Abstract!vars)
  BY <1>0
<1>1. ASSUME NEW i \in Idx, Publish(i) PROVE [Abstract!Next]_(Abstract!vars)
  <2>1. /\ main = "out" /\ job[i] # "working" /\ UNCHANGED <<main, calls>>
        /\ job' = [job EXCEPT ![i] = "working"]
    BY <1>1 DEF Publish, wrap
  <2>2. Abstract!Publish(i) BY <2>1 DEF Abstract!Publish
  <2>3. QED BY <2>2
<1>2. ASSUME NEW i \in Idx, Progress(i) PROVE [Abstract!Next]_(Abstract!vars)
  BY <1>2, <1>0 DEF Progress, wrap, pool
<1>3. ASSUME NEW i \in Idx, NEW fate \in {"done", "lost"}, job[i] = "working",
             job' = [job EXCEPT ![i] = fate], UNCHANGED <<main, calls>>
      PROVE  [Abstract!Next]_(Abstract!vars)
  <2>1. Abstract!Finish(i, fate) BY <1>3 DEF Abstract!Finish
  <2>2. QED BY <2>1
<1>4. ASSUME NEW i \in Idx, Complete(i) \/ Lose(i) PROVE [Abstract!Next]_(Abstract!vars)
  BY <1>4, <1>3 DEF Complete, Lose, wrap
<1>5. CASE Waiter
  <2>1. job' = job BY <1>5, WaiterKeeps
  <2>2. CASE ReadChain /\ main' = "parked"
    <3>1. main = "inside" /\ calls' = calls BY <2>2 DEF ReadChain
    <3>2. Last(calls) \in Idx BY <3>1, LastCall
    <3>3. Abstract!Wait(Last(calls)) BY <2>1, <2>2, <3>1 DEF Abstract!Wait
    <3>4. QED BY <3>2, <3>3
  <2>3. CASE Wake
    <3>1. main = "parked" /\ main' = "ret" /\ event[Last(calls)]
      BY <2>3 DEF Wake, Goto
    <3>2. Last(calls) \in Idx BY <3>1, LastCall
    <3>3. job[Last(calls)] # "working" /\ Last(calls) # NoIdx
      BY <3>1, <3>2, NoIdxAssumption DEF EventInv
    <3>4. Abstract!Return BY <2>1, <3>1, <3>3 DEF Abstract!Return
    <3>5. QED BY <3>4
  <2>4. CASE main # "parked" /\ main' # "parked" BY <2>1, <2>4
  <2>5. QED
    BY <1>5, <2>2, <2>3, <2>4
       DEF Waiter, GoesOn, Store, StoreIdx, StoreHandle, StoreStart, BumpSeq, Open,
           ReadChain, Wake, Leave, Call, Goto
<1>6. CASE Dog BY <1>0, <1>6, DogGoesOn, DogStandsDown DEF wrap, pool
<1>7. CASE Tick BY <1>0, <1>7 DEF Tick, pool
<1>8. CASE UNCHANGED vars BY <1>0, <1>8 DEF vars, wrap, pool
<1>9. QED BY <1>1, <1>2, <1>4, <1>5, <1>6, <1>7, <1>8 DEF Next, Pool

\* The breaker implements the wait that never ends before its job: its promise
\* that "no healthy frame is ever touched" (JobWaitBreaker.h), if jobs progress,
\* there is a window, and the main thread waits on one list at a time
\* (JobWaitBreaker.cpp:143-260).
THEOREM WaitRefines ==
    JobsProgress /\ Recheck > 0 /\ OneListAtATime => (Spec => Abstract!Safety)
<1> SUFFICES ASSUME JobsProgress, Recheck > 0, OneListAtATime
             PROVE  Spec => Abstract!Safety
  OBVIOUS
<1>1. Inv /\ LiveInv /\ [Next]_vars => LiveInv' BY LiveStep
<1>2. Inv /\ LiveInv /\ CalmInv /\ [Next]_vars => CalmInv'
  BY EventStep, WindowStep DEF CalmInv
<1>3. Inv /\ CalmInv /\ [Next]_vars => [Abstract!Next]_(Abstract!vars)
  BY StepWait DEF CalmInv
<1>4. Spec => []LiveInv BY Invariance, InitLive, <1>1, PTL DEF Spec
<1>5. Spec => []CalmInv BY Invariance, <1>4, InitCalm, <1>2, PTL DEF Spec
<1>6. Spec => Abstract!Init /\ [][Abstract!Next]_(Abstract!vars)
  BY Invariance, <1>5, InitWait, <1>3, PTL DEF Spec
<1>7. QED BY <1>6, PTL DEF Abstract!Safety
=============================================================================
