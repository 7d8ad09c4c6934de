---------------------------- MODULE StartUpProofs ----------------------------
(***************************************************************************)
(* The start-up of both plugins, for any numbers of spin sites, any poll   *)
(* intervals and any width of an integer: Phase 4 comes whole or not at    *)
(* all, no hook is left without its watchdog, and Present reaches the game.*)
(*                                                                         *)
(* Each invariant needs the place in the install it speaks about: what is  *)
(* not installed yet is untouched.                                         *)
(***************************************************************************)
EXTENDS StartUp, TLAPS

-----------------------------------------------------------------------------
(* Phase4Defer's hooks, by install step.                                   *)

P4s == [wrap : {"none", "made", "kept"}, gates : SUBSET Gates, originals : BOOLEAN]

Phase4Inv ==
    /\ p4 \in P4s
    /\ wsf \in {"waiting", "refused", "disabled", "phase4", "create"} => p4 = NoHooks
    /\ wsf = "writeRemove" => p4.gates = {} /\ p4.originals
    /\ wsf = "writeAdd" => p4.gates = {"remove"} /\ p4.originals
    /\ PhaseFourIsWhole

LEMMA InitPhase4 == Init => Phase4Inv
BY DEF Init, Phase4Inv, PhaseFourIsWhole, GatesHaveOriginals, WrapHasBothGates,
       NoHooks, P4s, Gates

\* The steps that leave Phase 4 alone, and do not lead back into its install.
LEMMA Phase4Kept ==
    ASSUME Phase4Inv, p4' = p4,
           layers \subseteq layers',
           \/ wsf' = wsf
           \/ wsf' \notin {"writeRemove", "writeAdd", "create"} /\ p4 = NoHooks
           \/ /\ wsf \notin {"create", "writeRemove", "writeAdd"}
              /\ wsf' \notin {"waiting", "refused", "disabled", "phase4", "create",
                              "writeRemove", "writeAdd"}
           \/ wsf = "phase4" /\ wsf' = "create"
    PROVE  Phase4Inv'
BY DEF Phase4Inv, PhaseFourIsWhole, GatesHaveOriginals, WrapHasBothGates, NoHooks

LEMMA CreateWrapPhase4 == Phase4Inv /\ CreateWrap => Phase4Inv'
<1> SUFFICES ASSUME Phase4Inv, CreateWrap PROVE Phase4Inv' OBVIOUS
<1>1. p4 = NoHooks /\ layers' = layers BY DEF Phase4Inv, CreateWrap
<1>2. CASE wsf' = "jwb" /\ p4' = p4
  BY <1>1, <1>2, Phase4Kept
<1>3. CASE wsf' = "writeRemove" /\ p4' = [p4 EXCEPT !.wrap = "made", !.originals = TRUE]
  <2>1. p4' = [wrap |-> "made", gates |-> {}, originals |-> TRUE]
    BY <1>1, <1>3 DEF NoHooks
  <2>2. p4' \in P4s /\ p4'.gates = {} /\ p4'.originals BY <2>1 DEF P4s
  <2> QED BY <1>3, <2>2 DEF Phase4Inv, PhaseFourIsWhole, GatesHaveOriginals,
                            WrapHasBothGates
<1> QED BY <1>2, <1>3 DEF CreateWrap

LEMMA WriteRemovePhase4 == Phase4Inv /\ WriteRemove => Phase4Inv'
<1> SUFFICES ASSUME Phase4Inv, WriteRemove PROVE Phase4Inv' OBVIOUS
<1>1. /\ p4 \in P4s /\ p4.gates = {} /\ p4.originals
  BY DEF Phase4Inv, WriteRemove
<1>2. CASE TearDown
  <2>1. p4' = [p4 EXCEPT !.wrap = "none"] /\ wsf' = "jwb" BY <1>2 DEF TearDown
  <2>2. p4' \in P4s /\ p4'.gates = {} /\ p4'.wrap = "none" BY <1>1, <2>1 DEF P4s
  <2> QED BY <2>1, <2>2 DEF Phase4Inv, PhaseFourIsWhole, GatesHaveOriginals,
                            WrapHasBothGates
<1>3. CASE ~TearDown
  <2>1. wsf' = "writeAdd" /\ p4' = [p4 EXCEPT !.gates = @ \cup {"remove"}, !.wrap = @]
    BY <1>3 DEF WriteRemove, WriteCall
  <2>2. p4' \in P4s /\ p4'.gates = {"remove"} /\ p4'.originals
    BY <1>1, <2>1 DEF P4s, Gates
  <2> QED BY <2>1, <2>2 DEF Phase4Inv, PhaseFourIsWhole, GatesHaveOriginals,
                            WrapHasBothGates
<1> QED BY <1>2, <1>3

LEMMA WriteAddPhase4 == Phase4Inv /\ WriteAdd => Phase4Inv'
<1> SUFFICES ASSUME Phase4Inv, WriteAdd PROVE Phase4Inv' OBVIOUS
<1>1. /\ p4 \in P4s /\ p4.gates = {"remove"} /\ p4.originals
  BY DEF Phase4Inv, WriteAdd
<1>2. CASE TearDown
  <2>1. p4' = [p4 EXCEPT !.wrap = "none"] /\ wsf' = "jwb" BY <1>2 DEF TearDown
  <2>2. p4' \in P4s /\ p4'.originals /\ p4'.wrap = "none" BY <1>1, <2>1 DEF P4s
  <2> QED BY <2>1, <2>2 DEF Phase4Inv, PhaseFourIsWhole, GatesHaveOriginals,
                            WrapHasBothGates
<1>3. CASE ~TearDown
  <2>1. /\ wsf' = "jwb" /\ p4' = [p4 EXCEPT !.gates = @ \cup {"add"}, !.wrap = "kept"]
        /\ layers' = layers \cup {"phase4"}
    BY <1>3 DEF WriteAdd, WriteCall
  <2>2. p4' \in P4s /\ p4'.gates = Gates /\ p4'.wrap = "kept" /\ p4'.originals
    BY <1>1, <2>1 DEF P4s, Gates
  <2> QED BY <2>1, <2>2 DEF Phase4Inv, PhaseFourIsWhole, GatesHaveOriginals,
                            WrapHasBothGates
<1> QED BY <1>2, <1>3

LEMMA BreakerLayers ==
    ASSUME NEW b, NEW armed, StartWatchdog(b, armed) PROVE layers \subseteq layers'
BY DEF StartWatchdog

LEMMA NextPhase4 == Phase4Inv /\ [Next]_vars => Phase4Inv'
<1> SUFFICES ASSUME Phase4Inv, [Next]_vars PROVE Phase4Inv' OBVIOUS
<1>1. CASE FLLoad \/ PostLoad \/ InitD3D \/ OverlayHooks \/ DataLoaded \/ UNCHANGED vars
  <2>1. p4' = p4 /\ wsf' = wsf /\ layers' = layers
    BY <1>1 DEF FLLoad, PostLoad, InitD3D, OverlayHooks, DataLoaded, vars, wsfVars
  <2> QED BY <2>1, Phase4Kept
<1>2. CASE WSFLoad
  <2>1. p4' = p4 /\ layers' = layers /\ wsf = "waiting"
        /\ wsf' \in {"phase4", "disabled", "refused"}
    BY <1>2 DEF WSFLoad
  <2>2. p4 = NoHooks BY <2>1 DEF Phase4Inv
  <2> QED BY <2>1, <2>2, Phase4Kept
<1>3. CASE InstallPhase4
  <2>1. p4' = p4 /\ layers' = layers /\ wsf = "phase4" /\ wsf' \in {"jwb", "create"}
    BY <1>3 DEF InstallPhase4
  <2>2. p4 = NoHooks BY <2>1 DEF Phase4Inv
  <2> QED BY <2>1, <2>2, Phase4Kept
<1>4. CASE InstallJobWaitBreaker \/ InstallSiteABreaker \/ InstallSiteARenderBreaker
  <2>1. /\ p4' = p4 /\ wsf \in {"jwb", "sab", "sar"} /\ wsf' \in {"sab", "sar", "lsb"}
        /\ \E b, armed : StartWatchdog(b, armed)
    BY <1>4 DEF InstallJobWaitBreaker, InstallSiteABreaker, InstallSiteARenderBreaker,
                InstallBreaker
  <2>2. layers \subseteq layers' BY <2>1, BreakerLayers
  <2> QED BY <2>1, <2>2, Phase4Kept
<1>5. CASE InstallLeakedSpinLock
  <2>1. /\ p4' = p4 /\ wsf = "lsb" /\ wsf' \in {"idle", "deaf", "listening"}
        /\ \E b, armed : StartWatchdog(b, armed)
    BY <1>5 DEF InstallLeakedSpinLock
  <2>2. layers \subseteq layers' BY <2>1, BreakerLayers
  <2> QED BY <2>1, <2>2, Phase4Kept
<1> QED BY <1>1, <1>2, <1>3, <1>4, <1>5, CreateWrapPhase4, WriteRemovePhase4,
           WriteAddPhase4 DEF Next

\* A gate has its original, and the wrap has both gates, whatever step of
\* Phase4Defer::Install fails (Phase4Defer.cpp 512-562).
THEOREM PhaseFourWhole == Spec => []PhaseFourIsWhole
<1>1. Phase4Inv => PhaseFourIsWhole BY DEF Phase4Inv
<1> QED BY <1>1, InitPhase4, NextPhase4, PTL DEF Spec

-----------------------------------------------------------------------------
(* What is touched, and who watches.                                       *)

Unhooked == {"waiting", "refused", "disabled", "phase4", "create", "writeRemove",
             "writeAdd", "jwb"}

InstallInv ==
    /\ Phase4Inv /\ InstallIsSafe
    /\ targets.siteB => text.siteB = "whole"
    /\ targets.siteA => text.siteA \in {"shortPush", "noCall", "whole"}
    /\ targets.render => text.render
    /\ wsf \in Unhooked => patch = NoPatch /\ watchdogs = {}
    /\ wsf = "sab" => patch["siteA"] = "none" /\ patch["render"] = "none"
    /\ wsf = "sar" => patch["render"] = "none"
    /\ runtime \in {"SE1580", "VR"} =>
           wsf \in {"waiting", "refused"} /\ fl \in {"waiting", "refused"}

\* A scan counts no more sites than it has room for, and believes the text.
LEMMA ScansBounded ==
    ASSUME text \in Texts, NEW p \in Patches
    PROVE  /\ ProbesOf(text, p).spins \in 0..4 /\ ProbesOf(text, p).retB \in 0..4
           /\ TargetsOf(text, p) \in [siteB : BOOLEAN, siteA : BOOLEAN,
                                       render : BOOLEAN, spins : 0..8]
           /\ TargetsOf(text, p).siteB => text.siteB = "whole"
           /\ TargetsOf(text, p).siteA => text.siteA \in {"shortPush", "noCall", "whole"}
           /\ TargetsOf(text, p).render => text.render
<1>1. /\ text.spins \in Nat /\ text.callsB \in Nat /\ text.image \in BOOLEAN
      /\ text.render \in BOOLEAN
  <2>1. /\ text.spins \in SpinCounts /\ text.callsB \in {0, 2} /\ text.image \in BOOLEAN
        /\ text.render \in BOOLEAN
    BY DEF Texts
  <2>2. text.spins \in Nat BY <2>1, SpinCountsAssumption DEF SpinCountsAssumption
  <2>3. text.callsB \in Nat BY <2>1
  <2> QED BY <2>1, <2>2, <2>3, Zenon
<1>2. /\ AtMost(text.spins, 4) \in 0..4 /\ AtMost(text.callsB, 4) \in 0..4
      /\ AtMost(text.spins, 8) \in 0..8
  BY <1>1 DEF AtMost
<1>3. ProbesOf(text, p).spins \in 0..4 /\ ProbesOf(text, p).retB \in 0..4
  BY <1>2 DEF ProbesOf, NoProbes
<1>4. /\ DerivePrologue(text, p) \in BOOLEAN /\ DeriveSiteA(text, p) \in BOOLEAN
      /\ HasRenderEntry(text, p) \in BOOLEAN
  BY DEF DerivePrologue, DeriveSiteA, HasRenderEntry
<1>5. TargetsOf(text, p) \in [siteB : BOOLEAN, siteA : BOOLEAN,
                              render : BOOLEAN, spins : 0..8]
  BY <1>2, <1>4 DEF TargetsOf, NoTargets, ScanSpinSignatures
<1>6. /\ TargetsOf(text, p).siteB => DerivePrologue(text, p)
      /\ TargetsOf(text, p).siteA => DeriveSiteA(text, p)
      /\ TargetsOf(text, p).render => HasRenderEntry(text, p)
  BY DEF TargetsOf, NoTargets
<1> QED BY <1>3, <1>5, <1>6 DEF DerivePrologue, DeriveSiteA, HasRenderEntry

TargetSets == [siteB : BOOLEAN, siteA : BOOLEAN, render : BOOLEAN, spins : 0..8]
Wsfs == {"waiting", "refused", "disabled", "idle", "deaf", "listening"} \cup Installing

LEMMA TypeFrom ==
    ASSUME TypeOK, UNCHANGED <<runtime, text>>, patch' \in Patches, saw' \in Patches,
           fl' \in {"waiting", "refused", "inert", "listening"},
           probes'.spins \in 0..4, probes'.retB \in 0..4, flHooks' \subseteq Hooked,
           wsf' \in Wsfs, targets' \in TargetSets, layers' \subseteq Layers,
           watchdogs' \subseteq Layers \ {"phase4"}, restless' \subseteq watchdogs',
           p4' \in P4s, scanning' \in BOOLEAN,
           game' \in {"loading", "postLoad", "interactive"},
           {slot', original', overlayOriginal'} \subseteq Presents
    PROVE  TypeOK'
<1>1. runtime' \in {"SE1580", "SE1597", "AE", "VR"} /\ text' \in Texts BY DEF TypeOK
<1> QED BY <1>1, Zenon DEF TypeOK, TargetSets, Wsfs, P4s

LEMMA TypeParts ==
    ASSUME TypeOK
    PROVE  /\ patch \in Patches /\ saw \in Patches
           /\ fl \in {"waiting", "refused", "inert", "listening"}
           /\ probes.spins \in 0..4 /\ probes.retB \in 0..4 /\ flHooks \subseteq Hooked
           /\ wsf \in Wsfs /\ targets \in TargetSets /\ layers \subseteq Layers
           /\ watchdogs \subseteq Layers \ {"phase4"} /\ restless \subseteq watchdogs
           /\ p4 \in P4s /\ scanning \in BOOLEAN
           /\ game \in {"loading", "postLoad", "interactive"}
           /\ {slot, original, overlayOriginal} \subseteq Presents
BY Zenon DEF TypeOK, TargetSets, Wsfs, P4s

LEMMA InitInstall == Init => InstallInv
<1> SUFFICES ASSUME Init PROVE InstallInv OBVIOUS
<1>1. TypeOK
  <2>1. NoPatch \in Patches BY DEF NoPatch, Patches
  <2>2. NoProbes.spins \in 0..4 /\ NoProbes.retB \in 0..4 BY DEF NoProbes
  <2>3. NoTargets \in [siteB : BOOLEAN, siteA : BOOLEAN, render : BOOLEAN, spins : 0..8]
    BY DEF NoTargets
  <2>4. NoHooks \in [wrap : {"none", "made", "kept"}, gates : SUBSET Gates,
                     originals : BOOLEAN]
    BY DEF NoHooks
  <2> QED BY <2>1, <2>2, <2>3, <2>4 DEF Init, TypeOK, Presents
<1>2. TouchesWhatIsProven /\ HooksMatchWatchdogs /\ NoWatchdogIsRestless
  BY DEF Init, TouchesWhatIsProven, HooksMatchWatchdogs, NoWatchdogIsRestless, NoPatch,
         Functions, Entered, Breakers
<1> QED BY <1>1, <1>2, InitPhase4
        DEF Init, InstallInv, InstallIsSafe, NoTargets, NoPatch, Functions

\* A step that hooks nothing and starts nothing.
LEMMA InstallKept ==
    ASSUME InstallInv, Phase4Inv', TypeOK', UNCHANGED <<runtime, text, patch, watchdogs,
                                                        restless, targets>>,
           scanning' => wsf' = "listening",
           wsf' = wsf \/ (wsf \in Unhooked \ {"jwb"} /\ wsf' \in Unhooked),
           runtime \in {"SE1580", "VR"} =>
               /\ wsf' \in {"waiting", "refused"} /\ fl' \in {"waiting", "refused"}
               /\ flHooks' = {}
    PROVE  InstallInv'
<1>1. HooksMatchWatchdogs'
  BY DEF InstallInv, InstallIsSafe, HooksMatchWatchdogs
<1>2. runtime \in {"SE1580", "VR"} => p4' = NoHooks
  BY DEF Phase4Inv
<1>3. TouchesWhatIsProven'
  BY <1>2 DEF InstallInv, InstallIsSafe, TouchesWhatIsProven
<1>4. NoWatchdogIsRestless' BY DEF InstallInv, InstallIsSafe, NoWatchdogIsRestless
<1> QED BY <1>1, <1>3, <1>4 DEF InstallInv, InstallIsSafe, Unhooked

\* What StartWatchdog leaves, and that it starts nothing restless.
LEMMA Started ==
    ASSUME NEW b, NEW armed \in BOOLEAN, StartWatchdog(b, armed), restless = {}
    PROVE  /\ watchdogs' = IF armed THEN watchdogs \cup {b} ELSE watchdogs
           /\ layers' = IF armed THEN layers \cup {b} ELSE layers
           /\ restless' = {}
<1>1. ASSUME NEW raw \in RawPolls PROVE PollOf(raw) # 0
  BY PollsAssumption DEF PollOf
<1> QED BY <1>1 DEF StartWatchdog

LEMMA BreakerInstall ==
    ASSUME NEW b \in Breakers, NEW next \in {"sab", "sar", "lsb"},
           InstallBreaker(b, Entered(b), next), InstallInv, Phase4Inv',
           b = "jwb" => next = "sab", b = "sab" => next = "sar", b = "sar" => next = "lsb"
    PROVE  InstallInv'
<1> DEFINE f == Entered(b)
<1>1. PICK on \in BOOLEAN, jump \in {"none", "near", "far"} :
         /\ patch' = IF on /\ targets[f] THEN [patch EXCEPT ![f] = jump] ELSE patch
         /\ StartWatchdog(b, on /\ targets[f] /\ jump # "none")
  BY DEF InstallBreaker
<1>2. /\ wsf = b /\ wsf' = next
      /\ UNCHANGED <<runtime, text, fl, probes, saw, flHooks, scanning, game, slot, original,
                     overlayOriginal, targets, p4>>
  BY DEF InstallBreaker, flVars, gameVars
<1>3. /\ TypeOK /\ TouchesWhatIsProven /\ HooksMatchWatchdogs /\ restless = {}
      /\ targets.siteB => text.siteB = "whole"
      /\ targets.siteA => text.siteA \in {"shortPush", "noCall", "whole"}
      /\ targets.render => text.render
      /\ runtime \notin {"SE1580", "VR"}
  BY <1>2 DEF InstallInv, InstallIsSafe, NoWatchdogIsRestless, Breakers
<1>4. f \in Functions /\ (on /\ targets[f] /\ jump # "none") \in BOOLEAN
  BY DEF Entered, Functions
<1> DEFINE armed == on /\ targets[f] /\ jump # "none"
<1>5. /\ watchdogs' = IF armed THEN watchdogs \cup {b} ELSE watchdogs
      /\ layers' = IF armed THEN layers \cup {b} ELSE layers
      /\ restless' = {}
  <2> HIDE DEF f
  <2> QED BY <1>1, <1>3, <1>4, Started
<1>6. patch \in Patches /\ patch[f] = "none"
  BY <1>2, <1>3 DEF TypeOK, InstallInv, Entered, Breakers, Unhooked, NoPatch, Functions
<1>7. /\ patch' \in Patches
      /\ patch'[f] # "none" <=> armed
      /\ \A g \in Functions \ {f} : patch'[g] = patch[g]
  <2> HIDE DEF f
  <2> QED BY <1>1, <1>4, <1>6 DEF Patches
<1>8. TypeOK'
  <2>1. b \in Layers /\ b \in Layers \ {"phase4"} /\ next \in Installing
    BY DEF Layers, Breakers, Installing
  <2> HIDE DEF armed
  <2> QED BY <1>2, <1>3, <1>5, <1>7, <2>1 DEF TypeOK
<1>9. HooksMatchWatchdogs'
  <2>1. ASSUME NEW c \in Breakers PROVE c \in watchdogs' <=> patch'[Entered(c)] # "none"
    <3>1. CASE c = b
      <4>1. b \notin watchdogs BY <1>3, <1>6 DEF HooksMatchWatchdogs
      <4> QED BY <3>1, <4>1, <1>5, <1>7
    <3>2. CASE c # b
      <4>1. Entered(c) \in Functions \ {f} BY <3>2 DEF Entered, Functions, Breakers
      <4>2. c \in watchdogs' <=> c \in watchdogs BY <3>2, <1>5
      <4>3. patch'[Entered(c)] = patch[Entered(c)] BY <4>1, <1>7
      <4> QED BY <4>2, <4>3, <1>3 DEF HooksMatchWatchdogs
    <3> QED BY <3>1, <3>2
  <2>2. "lsb" \in watchdogs' => "lsb" \in watchdogs BY <1>5 DEF Breakers
  <2>3. ~scanning' BY <1>2, <1>3 DEF HooksMatchWatchdogs, Breakers
  <2> QED BY <2>1, <2>2, <2>3, <1>2, <1>3 DEF HooksMatchWatchdogs
<1>10. TouchesWhatIsProven'
  <2>1. patch'["siteB"] # "none" => text.siteB = "whole"
    BY <1>3, <1>7, <1>1 DEF TouchesWhatIsProven, Entered, Breakers, Functions
  <2>2. patch'["siteA"] # "none" => text.siteA \in {"shortPush", "noCall", "whole"}
    BY <1>3, <1>7, <1>1 DEF TouchesWhatIsProven, Entered, Breakers, Functions
  <2>3. patch'["render"] # "none" => text.render
    BY <1>3, <1>7, <1>1 DEF TouchesWhatIsProven, Entered, Breakers, Functions
  <2> QED BY <1>2, <1>3, <2>1, <2>2, <2>3 DEF TouchesWhatIsProven
<1>11. InstallIsSafe' BY <1>5, <1>8, <1>9, <1>10 DEF InstallIsSafe, NoWatchdogIsRestless
<1>12. /\ wsf' = "sab" => patch'["siteA"] = "none" /\ patch'["render"] = "none"
       /\ wsf' = "sar" => patch'["render"] = "none"
  BY <1>2, <1>3, <1>7 DEF InstallInv, Unhooked, NoPatch, Functions, Entered, Breakers
<1>13. wsf' \notin Unhooked BY <1>2 DEF Unhooked
<1> QED BY <1>2, <1>3, <1>11, <1>12, <1>13 DEF InstallInv

LEMMA LoadInstall ==
    ASSUME InstallInv, Phase4Inv', FLLoad \/ WSFLoad
    PROVE  InstallInv'
<1>1. TypeOK /\ TouchesWhatIsProven /\ HooksMatchWatchdogs /\ restless = {}
  BY DEF InstallInv, InstallIsSafe, NoWatchdogIsRestless
<1>2. text \in Texts /\ patch \in Patches BY <1>1 DEF TypeOK
<1>3. CASE FLLoad
  <2>1. /\ UNCHANGED <<runtime, text, wsf, targets, patch, layers, watchdogs, restless, p4,
                       flHooks, scanning, game, slot, original, overlayOriginal>>
        /\ fl = "waiting" /\ fl' \in {"refused", "inert", "listening"}
        /\ runtime \in {"SE1580", "VR"} => fl' = "refused"
        /\ \/ probes' = ProbesOf(text, patch) /\ saw' = patch
           \/ UNCHANGED <<probes, saw>>
    BY <1>1, <1>3 DEF FLLoad, VerifyRuntimeFL, wsfVars, gameVars
  <2>2. probes'.spins \in 0..4 /\ probes'.retB \in 0..4 /\ saw' \in Patches
    BY <1>1, <1>2, <2>1, ScansBounded DEF TypeOK
  <2>3. TypeOK' BY <1>1, <2>1, <2>2 DEF TypeOK
  <2>4. scanning' => wsf' = "listening" BY <1>1, <2>1 DEF HooksMatchWatchdogs
  <2>5. runtime \in {"SE1580", "VR"} =>
          /\ wsf' \in {"waiting", "refused"} /\ fl' \in {"waiting", "refused"}
          /\ flHooks' = {}
    BY <1>1, <2>1 DEF InstallInv, TouchesWhatIsProven
  <2> QED BY <2>1, <2>3, <2>4, <2>5, InstallKept
<1>4. CASE WSFLoad
  <2>1. /\ UNCHANGED <<runtime, text, fl, probes, saw, patch, layers, watchdogs, restless, p4,
                       flHooks, scanning, game, slot, original, overlayOriginal>>
        /\ wsf = "waiting" /\ wsf' \in {"phase4", "disabled", "refused"}
        /\ runtime \in {"SE1580", "VR"} => wsf' = "refused"
        /\ \/ targets' = TargetsOf(text, patch)
           \/ targets' = NoTargets
           \/ UNCHANGED targets
    BY <1>1, <1>4 DEF WSFLoad, VerifyRuntimeWSF, flVars, gameVars
  <2>2. /\ targets' \in [siteB : BOOLEAN, siteA : BOOLEAN, render : BOOLEAN, spins : 0..8]
        /\ targets'.siteB => text.siteB = "whole"
        /\ targets'.siteA => text.siteA \in {"shortPush", "noCall", "whole"}
        /\ targets'.render => text.render
    <3>1. CASE targets' = TargetsOf(text, patch) BY <3>1, <1>2, ScansBounded
    <3>2. CASE targets' = NoTargets BY <3>2 DEF NoTargets
    <3>3. CASE UNCHANGED targets BY <3>3, <1>1 DEF InstallInv, TypeOK
    <3> QED BY <2>1, <3>1, <3>2, <3>3
  <2>3. TypeOK'
    <3>1. wsf' \in Wsfs /\ targets' \in TargetSets BY <2>1, <2>2
          DEF Wsfs, TargetSets, Installing, Layers
    <3> QED BY <1>1, <2>1, <3>1, TypeParts, TypeFrom, Zenon
  <2>4. patch = NoPatch /\ watchdogs = {} /\ wsf' \in Unhooked /\ ~scanning
    BY <1>1, <2>1 DEF InstallInv, HooksMatchWatchdogs, Unhooked
  <2>5. HooksMatchWatchdogs'
    BY <1>1, <2>1, <2>4 DEF HooksMatchWatchdogs
  <2>6. runtime \in {"SE1580", "VR"} => p4' = NoHooks
    BY <2>1 DEF Phase4Inv
  <2>7. TouchesWhatIsProven'
    BY <1>1, <2>1, <2>6 DEF TouchesWhatIsProven
  <2>8. InstallIsSafe' BY <1>1, <2>1, <2>3, <2>5, <2>7 DEF InstallIsSafe, NoWatchdogIsRestless
  <2>9. runtime \in {"SE1580", "VR"} => fl \in {"waiting", "refused"} BY DEF InstallInv
  <2>10. wsf' \notin {"sab", "sar"} BY <2>1
  <2> QED BY <2>1, <2>2, <2>4, <2>8, <2>9, <2>10 DEF InstallInv
<1> QED BY <1>3, <1>4

LEMMA LeakedSpinLockInstall ==
    ASSUME InstallInv, Phase4Inv', InstallLeakedSpinLock PROVE InstallInv'
<1>1. /\ TypeOK /\ TouchesWhatIsProven /\ HooksMatchWatchdogs /\ restless = {}
  BY DEF InstallInv, InstallIsSafe, NoWatchdogIsRestless
<1>2. PICK on \in BOOLEAN : StartWatchdog("lsb", on /\ targets.spins > 0)
  BY DEF InstallLeakedSpinLock
<1>3. /\ wsf = "lsb" /\ wsf' \in {"idle", "deaf", "listening"}
      /\ UNCHANGED <<runtime, text, fl, probes, saw, flHooks, scanning, game, slot, original,
                     overlayOriginal, targets, patch, p4>>
  BY DEF InstallLeakedSpinLock, flVars, gameVars
<1>4. (on /\ targets.spins > 0) \in BOOLEAN OBVIOUS
<1>5. /\ watchdogs' \in {watchdogs, watchdogs \cup {"lsb"}}
      /\ layers' \in {layers, layers \cup {"lsb"}}
      /\ "lsb" \in watchdogs' => "lsb" \in watchdogs \/ targets.spins > 0
      /\ restless' = {}
  BY <1>1, <1>2, <1>4, Started
<1>6. TypeOK' BY <1>1, <1>3, <1>5 DEF TypeOK, Layers, Breakers
<1>7. HooksMatchWatchdogs'
  BY <1>1, <1>3, <1>5 DEF HooksMatchWatchdogs, Breakers
<1>8. runtime \notin {"SE1580", "VR"} BY <1>3 DEF InstallInv
<1>9. TouchesWhatIsProven' BY <1>1, <1>3, <1>8 DEF TouchesWhatIsProven
<1>10. InstallIsSafe' BY <1>5, <1>6, <1>7, <1>9 DEF InstallIsSafe, NoWatchdogIsRestless
<1>11. wsf' \notin Unhooked \cup {"sab", "sar"} BY <1>3 DEF Unhooked
<1>12. /\ targets.siteB => text.siteB = "whole"
       /\ targets.siteA => text.siteA \in {"shortPush", "noCall", "whole"}
       /\ targets.render => text.render
  BY DEF InstallInv
<1> QED BY <1>3, <1>8, <1>10, <1>11, <1>12 DEF InstallInv

LEMMA NextInstall == InstallInv /\ [Next]_vars => InstallInv'
<1> SUFFICES ASSUME InstallInv, [Next]_vars PROVE InstallInv' OBVIOUS
<1>1. /\ TypeOK /\ HooksMatchWatchdogs /\ Phase4Inv /\ Phase4Inv'
      /\ runtime \in {"SE1580", "VR"} =>
            /\ wsf \in {"waiting", "refused"} /\ fl \in {"waiting", "refused"}
            /\ flHooks = {}
  BY NextPhase4 DEF InstallInv, InstallIsSafe, TouchesWhatIsProven
<1>2. p4' \in [wrap : {"none", "made", "kept"}, gates : SUBSET Gates, originals : BOOLEAN]
  BY <1>1 DEF Phase4Inv, P4s
<1>3. CASE FLLoad \/ WSFLoad BY <1>1, <1>3, LoadInstall
<1>4. CASE InstallPhase4 \/ CreateWrap \/ WriteRemove \/ WriteAdd
  <2>1. /\ UNCHANGED <<runtime, text, fl, probes, saw, patch, watchdogs, restless, targets,
                       flHooks, scanning, game, slot, original, overlayOriginal>>
        /\ layers' \in {layers, layers \cup {"phase4"}}
        /\ wsf \in Unhooked \ {"jwb", "waiting", "refused"} /\ wsf' \in Unhooked
        /\ wsf' \in {"create", "writeRemove", "writeAdd", "jwb"}
    BY <1>4 DEF InstallPhase4, CreateWrap, WriteRemove, WriteAdd, WriteCall, TearDown,
                flVars, gameVars, Unhooked
  <2>2. TypeOK'
    <3>1. wsf' \in Wsfs BY <2>1 DEF Wsfs, Installing, Layers, Breakers
    <3>2. layers' \subseteq Layers BY <1>1, <2>1, TypeParts DEF Layers
    <3>3. p4' \in P4s BY <1>2 DEF P4s
    <3> QED BY <1>1, <2>1, <3>1, <3>2, <3>3, TypeParts, TypeFrom, Zenon
  <2>3. ~scanning' BY <1>1, <2>1 DEF HooksMatchWatchdogs, Unhooked
  <2>4. runtime \notin {"SE1580", "VR"} BY <1>1, <2>1
  <2> QED BY <1>1, <2>1, <2>2, <2>3, <2>4, InstallKept
<1>5. CASE PostLoad \/ InitD3D \/ OverlayHooks \/ DataLoaded \/ UNCHANGED vars
  <2>1. /\ UNCHANGED <<runtime, text, fl, probes, saw, patch, watchdogs, restless, targets,
                       layers, wsf, p4>>
    BY <1>5 DEF PostLoad, InitD3D, OverlayHooks, DataLoaded, vars, flVars, wsfVars, gameVars
  <2>2. /\ flHooks' \subseteq Hooked /\ game' \in {"loading", "postLoad", "interactive"}
        /\ {slot', original', overlayOriginal'} \subseteq Presents
        /\ fl # "listening" /\ flHooks = {} => flHooks' = {}
        /\ scanning' = scanning \/ (scanning' = TRUE /\ wsf = "listening")
    <3>1. CASE PostLoad BY <1>1, <3>1 DEF PostLoad, TypeOK, Hooked
    <3>2. CASE InitD3D BY <1>1, <3>2 DEF InitD3D, TakeSlot, TypeOK, Hooked, Presents
    <3>3. CASE OverlayHooks BY <1>1, <3>3 DEF OverlayHooks, TypeOK, Presents
    <3>4. CASE DataLoaded BY <1>1, <3>4 DEF DataLoaded, TypeOK
    <3>5. CASE UNCHANGED vars BY <1>1, <3>5 DEF vars, gameVars, TypeOK
    <3> QED BY <1>5, <3>1, <3>2, <3>3, <3>4, <3>5
  <2>3. TypeOK'
    <3>1. scanning' \in BOOLEAN BY <1>1, <2>2, TypeParts
    <3> QED BY <1>1, <2>1, <2>2, <3>1, TypeParts, TypeFrom, Zenon
  <2>4. scanning' => wsf' = "listening" BY <1>1, <2>1, <2>2 DEF HooksMatchWatchdogs
  <2>5. runtime \in {"SE1580", "VR"} =>
          /\ wsf' \in {"waiting", "refused"} /\ fl' \in {"waiting", "refused"}
          /\ flHooks' = {}
    BY <1>1, <2>1, <2>2
  <2> QED BY <1>1, <2>1, <2>3, <2>4, <2>5, InstallKept
<1>6. CASE InstallJobWaitBreaker
  <2>1. InstallBreaker("jwb", Entered("jwb"), "sab") BY <1>6 DEF InstallJobWaitBreaker, Entered
  <2> QED BY <1>1, <2>1, BreakerInstall DEF Breakers
<1>7. CASE InstallSiteABreaker
  <2>1. InstallBreaker("sab", Entered("sab"), "sar") BY <1>7 DEF InstallSiteABreaker, Entered
  <2> QED BY <1>1, <2>1, BreakerInstall DEF Breakers
<1>8. CASE InstallSiteARenderBreaker
  <2>1. InstallBreaker("sar", Entered("sar"), "lsb")
    BY <1>8 DEF InstallSiteARenderBreaker, Entered
  <2> QED BY <1>1, <2>1, BreakerInstall DEF Breakers
<1>9. CASE InstallLeakedSpinLock BY <1>1, <1>9, LeakedSpinLockInstall
<1> QED BY <1>3, <1>4, <1>5, <1>6, <1>7, <1>8, <1>9 DEF Next

\* Whatever the game, the scans and the configuration: a layer hooks only what
\* its scan proved, a hook has its watchdog, no watchdog spins without a pause
\* (WSF main.cpp 96-131, JobWaitBreaker.cpp 298-324 and its siblings).
THEOREM InstallSafe == Spec => []InstallIsSafe
<1>1. InstallInv => InstallIsSafe BY DEF InstallInv
<1> QED BY <1>1, InitInstall, NextInstall, PTL DEF Spec

-----------------------------------------------------------------------------
(* Present.                                                                *)

\* The five ways in which the slot is taken, and in which order.
PresentInv ==
    /\ <<slot, original, overlayOriginal>> \in
           {<<"dxgi", "none", "none">>, <<"overlay", "none", "dxgi">>,
            <<"ours", "dxgi", "none">>, <<"ours", "overlay", "dxgi">>,
            <<"overlay", "dxgi", "ours">>}
    /\ original # "none" => "present" \in flHooks /\ game = "interactive"

LEMMA NextPresentInv == PresentInv /\ [Next]_vars => PresentInv'
<1> SUFFICES ASSUME PresentInv, [Next]_vars PROVE PresentInv' OBVIOUS
<1>1. CASE UNCHANGED <<slot, original, overlayOriginal, flHooks, game>>
  BY <1>1 DEF PresentInv
<1>2. CASE PostLoad BY <1>2 DEF PostLoad, PresentInv
<1>3. CASE InitD3D BY <1>3 DEF InitD3D, TakeSlot, PresentInv
<1>4. CASE OverlayHooks BY <1>4 DEF OverlayHooks, PresentInv
<1> QED BY <1>1, <1>2, <1>3, <1>4
        DEF Next, vars, gameVars, FLLoad, WSFLoad, InstallPhase4, CreateWrap, WriteRemove,
            WriteAdd, WriteCall, InstallJobWaitBreaker, InstallSiteABreaker,
            InstallSiteARenderBreaker, InstallBreaker, InstallLeakedSpinLock, DataLoaded

\* Every frame reaches the game's Present, whoever hooked first
\* (RenderHook.cpp 67-70, 104-105).
THEOREM PresentSafe == Spec => []PresentReachesGame
<1>1. Init => PresentInv BY DEF Init, PresentInv
<1>2. PresentInv => PresentReachesGame BY DEF PresentInv, PresentReachesGame, NextPresent
<1> QED BY <1>1, <1>2, NextPresentInv, PTL DEF Spec

-----------------------------------------------------------------------------
(* What FreezeLogger can tell of the layers.                               *)

Imaged ==
    /\ targets.siteB \/ targets.siteA \/ targets.render \/ targets.spins > 0 => text.image
    /\ targets.spins > 0 => text.spins > 0
    /\ \A f \in Functions : patch[f] # "none" => text.image

ProbedInv ==
    /\ InstallInv /\ Imaged
    /\ fl \in {"inert", "listening"} => probes = ProbesOf(text, saw)

LEMMA TargetsImaged ==
    ASSUME NEW p \in Patches, text \in Texts
    PROVE  LET t == TargetsOf(text, p) IN
           /\ t.siteB \/ t.siteA \/ t.render \/ t.spins > 0 => text.image
           /\ t.spins > 0 => text.spins > 0
<1>1. text.spins \in Nat
  <2>1. text.spins \in SpinCounts BY DEF Texts
  <2> QED BY <2>1, SpinCountsAssumption DEF SpinCountsAssumption
<1>2. CASE text.image
  <2>1. TargetsOf(text, p).spins = AtMost(text.spins, 8)
    BY <1>2 DEF TargetsOf, ScanSpinSignatures
  <2> QED BY <1>1, <1>2, <2>1 DEF AtMost
<1>3. CASE ~text.image
  BY <1>3 DEF TargetsOf, NoTargets
<1> QED BY <1>2, <1>3

LEMMA BreakerImaged ==
    ASSUME NEW b \in Breakers, NEW next, InstallBreaker(b, Entered(b), next), ProbedInv
    PROVE  Imaged'
<1>1. PICK on \in BOOLEAN, jump \in {"none", "near", "far"} :
         patch' = IF on /\ targets[Entered(b)] THEN [patch EXCEPT ![Entered(b)] = jump]
                  ELSE patch
  BY DEF InstallBreaker
<1>2. UNCHANGED <<text, targets>> BY DEF InstallBreaker
<1>3. patch \in Patches /\ Imaged
  BY DEF ProbedInv, InstallInv, InstallIsSafe, TypeOK
<1>4. CASE on /\ targets[Entered(b)]
  <2>1. text.image BY <1>3, <1>4 DEF Imaged, Entered
  <2> QED BY <1>2, <1>3, <2>1 DEF Imaged
<1>5. CASE ~(on /\ targets[Entered(b)])
  BY <1>1, <1>2, <1>3, <1>5 DEF Imaged
<1> QED BY <1>4, <1>5

LEMMA NextProbed == ProbedInv /\ [Next]_vars => ProbedInv'
<1> SUFFICES ASSUME ProbedInv, [Next]_vars PROVE ProbedInv' OBVIOUS
<1>1. /\ InstallInv /\ Imaged /\ text \in Texts /\ patch \in Patches
      /\ fl \in {"inert", "listening"} => probes = ProbesOf(text, saw)
  BY DEF ProbedInv, InstallInv, InstallIsSafe, TypeOK
<1>2. InstallInv' BY <1>1, NextInstall
<1> SUFFICES Imaged' /\ (fl' \in {"inert", "listening"} => probes' = ProbesOf(text', saw'))
  BY <1>2 DEF ProbedInv
<1>3. CASE FLLoad
  BY <1>1, <1>3 DEF FLLoad, wsfVars, Imaged
<1>4. CASE WSFLoad
  <2>1. /\ UNCHANGED <<text, fl, probes, saw, patch>>
        /\ \/ targets' = TargetsOf(text, patch)
           \/ targets' = NoTargets
           \/ UNCHANGED targets
    BY <1>4 DEF WSFLoad, flVars
  <2>2. CASE targets' = TargetsOf(text, patch)
    BY <1>1, <2>1, <2>2, TargetsImaged DEF Imaged
  <2>3. CASE targets' = NoTargets BY <1>1, <2>1, <2>3 DEF Imaged, NoTargets
  <2>4. CASE UNCHANGED targets BY <1>1, <2>1, <2>4 DEF Imaged
  <2> QED BY <2>1, <2>2, <2>3, <2>4
<1>5. CASE InstallPhase4 \/ CreateWrap \/ WriteRemove \/ WriteAdd \/ InstallLeakedSpinLock
  <2>1. UNCHANGED <<text, fl, probes, saw, patch, targets>>
    BY <1>5 DEF InstallPhase4, CreateWrap, WriteRemove, WriteAdd, WriteCall,
                InstallLeakedSpinLock, flVars
  <2> QED BY <1>1, <2>1 DEF Imaged
<1>6. CASE InstallJobWaitBreaker \/ InstallSiteABreaker \/ InstallSiteARenderBreaker
  <2>1. PICK b \in Breakers, next \in {"sab", "sar", "lsb"} : InstallBreaker(b, Entered(b), next)
    BY <1>6 DEF InstallJobWaitBreaker, InstallSiteABreaker, InstallSiteARenderBreaker,
                Entered, Breakers
  <2>2. Imaged' BY <2>1, BreakerImaged
  <2>3. UNCHANGED <<text, fl, probes, saw>> BY <2>1 DEF InstallBreaker, flVars
  <2> QED BY <1>1, <2>2, <2>3
<1>7. CASE PostLoad \/ InitD3D \/ OverlayHooks \/ DataLoaded \/ UNCHANGED vars
  <2>1. UNCHANGED <<text, fl, probes, saw, patch, targets>>
    BY <1>7 DEF PostLoad, InitD3D, OverlayHooks, DataLoaded, vars, flVars, wsfVars, gameVars
  <2> QED BY <1>1, <2>1 DEF Imaged
<1> QED BY <1>3, <1>4, <1>5, <1>6, <1>7 DEF Next

LEMMA ProbedHolds == ProbedInv => HookedIsProbed
<1> SUFFICES ASSUME ProbedInv, fl \in {"inert", "listening"} PROVE HookedIsProbed
  BY DEF HookedIsProbed
<1>1. /\ TypeOK /\ TouchesWhatIsProven /\ HooksMatchWatchdogs /\ Imaged
      /\ probes = ProbesOf(text, saw)
  BY DEF ProbedInv, InstallInv, InstallIsSafe
<1>2. text.spins \in Nat
  <2>1. text.spins \in SpinCounts BY <1>1 DEF TypeOK, Texts
  <2> QED BY <2>1, SpinCountsAssumption DEF SpinCountsAssumption
<1>3. CASE ~text.image
  <2>1. probes = NoProbes BY <1>1, <1>3 DEF ProbesOf
  <2>2. \A f \in Functions : patch[f] = "none" BY <1>1, <1>3 DEF Imaged
  <2>3. patch["siteA"] = "none" /\ patch["siteB"] = "none" /\ patch["render"] = "none"
    BY <2>2 DEF Functions
  <2>4. "lsb" \notin watchdogs BY <1>1, <1>3 DEF Imaged, HooksMatchWatchdogs
  <2> QED BY <2>1, <2>3, <2>4 DEF HookedIsProbed, NoProbes
<1>4. CASE text.image
  <2>1. /\ probes.siteB = DerivePrologue(text, saw)
        /\ probes.render = HasRenderEntry(text, saw)
        /\ probes.entryA = IF text.siteA = "noCall" THEN "none"
                           ELSE DeriveSiteAPrologue(text, saw)
        /\ probes.retA <=> probes.entryA = "entry" /\ text.callsA > 0
        /\ ~(probes.retA /\ probes.siteB) => probes.retB = 0
        /\ probes.spins = AtMost(text.spins, 4)
    BY <1>1, <1>4 DEF ProbesOf
  <2>2. "lsb" \in watchdogs => probes.spins > 0
    BY <1>1, <1>2, <2>1 DEF Imaged, HooksMatchWatchdogs, AtMost
  <2>3. /\ saw["siteB"] # "none" => ~probes.siteB /\ probes.retB = 0
        /\ saw["siteB"] = "none" /\ patch["siteB"] # "none" => probes.siteB
    BY <1>1, <2>1 DEF DerivePrologue, TouchesWhatIsProven
  <2>4. /\ saw["render"] # "none" => ~probes.render
        /\ saw["render"] = "none" /\ patch["render"] # "none" => probes.render
    BY <1>1, <2>1 DEF HasRenderEntry, TouchesWhatIsProven
  <2>5. saw["siteA"] # "none" => ~probes.retA
    BY <2>1 DEF DeriveSiteAPrologue
  <2>6. patch["siteA"] # "none" /\ saw["siteA"] # "far" /\ text.siteA # "noCall" =>
            probes.entryA # "none"
    BY <1>1, <2>1 DEF DeriveSiteAPrologue, HasSiteABody, TouchesWhatIsProven
  <2> QED BY <2>2, <2>3, <2>4, <2>5, <2>6 DEF HookedIsProbed
<1> QED BY <1>3, <1>4

\* Whatever the load order, a report can tell the functions that are hooked apart
\* if it was scanned for them first (FreezeLogger's SkyrimAnchors.cpp 371-466).
THEOREM HookedProbed == Spec => []HookedIsProbed
<1>1. Init => ProbedInv
  <2>1. Init => Imaged /\ fl = "waiting"
    BY DEF Init, Imaged, NoTargets, NoPatch, Functions
  <2> QED BY <2>1, InitInstall DEF ProbedInv
<1> QED BY <1>1, NextProbed, ProbedHolds, PTL DEF Spec
=============================================================================
