------------------------------ MODULE StartUp -------------------------------
(***************************************************************************)
(* How the two plugins start in one process: SKSE loads them one after the *)
(* other, in either order, then tells those that listen that all plugins   *)
(* are loaded and, later, that the game data is; the game creates its      *)
(* swap chain in between.  Each install step of WorkerSpinLockFix may      *)
(* fail and the plugin goes on with the layers that are left.              *)
(*                                                                         *)
(* A configuration value is read once, so it is chosen where it is read.   *)
(***************************************************************************)
EXTENDS AnchorScan, Integers

CONSTANTS
    UintRange,   \* size of the 32-bit range, scaled down
    RawPolls     \* poll intervals as the file has them, 64 bits wide

ASSUME PollsAssumption == UintRange \in Nat \ {0, 1} /\ RawPolls \subseteq Int

Breakers == {"jwb", "sab", "sar"}
Layers   == Breakers \cup {"phase4", "lsb"}
Installing == Layers \cup {"create", "writeRemove", "writeAdd"}
Gates    == {"remove", "add"}
Hooked   == {"update", "initD3D", "present"}
Presents == {"none", "dxgi", "overlay", "ours"}

VARIABLES
    runtime, text,   \* the game, as found
    patch,           \* inline hooks on the three functions
    fl,              \* FreezeLogger: waiting, refused, inert or listening
    probes, saw,     \* what its scan found, and the hooks that were there
    flHooks,         \* the call sites and the vtable slot it has taken
    wsf,             \* WorkerSpinLockFix: the install step, or how it ended
    targets,         \* what its scan found
    layers,          \* layers armed
    watchdogs,       \* watchdog threads running
    restless,        \* those that poll without a pause
    p4,              \* Phase4Defer's hooks
    scanning,        \* LeakedSpinLockBreaker's g_active
    game,            \* loading, then postLoad, then interactive
    slot, original, overlayOriginal   \* Present, and what the hooks call

flVars   == <<fl, probes, saw>>
wsfVars  == <<wsf, targets, patch, layers, watchdogs, restless, p4>>
gameVars == <<flHooks, scanning, game, slot, original, overlayOriginal>>
vars     == <<runtime, text, flVars, wsfVars, gameVars>>

TypeOK ==
    /\ runtime \in {"SE1580", "SE1597", "AE", "VR"} /\ text \in Texts
    /\ patch \in Patches /\ saw \in Patches
    /\ fl \in {"waiting", "refused", "inert", "listening"}
    /\ probes.spins \in 0..4 /\ probes.retB \in 0..4
    /\ flHooks \subseteq Hooked
    /\ wsf \in {"waiting", "refused", "disabled", "idle", "deaf", "listening"}
               \cup Installing
    /\ targets \in [siteB : BOOLEAN, siteA : BOOLEAN, render : BOOLEAN, spins : 0..8]
    /\ layers \subseteq Layers /\ watchdogs \subseteq Layers \ {"phase4"}
    /\ restless \subseteq watchdogs
    /\ p4 \in [wrap : {"none", "made", "kept"}, gates : SUBSET Gates, originals : BOOLEAN]
    /\ scanning \in BOOLEAN /\ game \in {"loading", "postLoad", "interactive"}
    /\ {slot, original, overlayOriginal} \subseteq Presents

NoHooks == [wrap |-> "none", gates |-> {}, originals |-> FALSE]

Init ==
    /\ runtime \in {"SE1580", "SE1597", "AE", "VR"} /\ text \in Texts
    /\ patch = NoPatch /\ saw = NoPatch
    /\ fl = "waiting" /\ probes = NoProbes /\ flHooks = {}
    /\ wsf = "waiting" /\ targets = NoTargets
    /\ layers = {} /\ watchdogs = {} /\ restless = {}
    /\ p4 = NoHooks /\ scanning = FALSE /\ game = "loading"
    /\ slot = "dxgi" /\ original = "none" /\ overlayOriginal = "none"

-----------------------------------------------------------------------------
(* FreezeLogger.                                                           *)

VerifyRuntimeFL == runtime \in {"SE1597", "AE"}

FLLoad ==
    /\ game = "loading" /\ fl = "waiting"
    /\ wsf \notin Installing   \* the other plugin's load is over or has not begun
    /\ IF VerifyRuntimeFL
       THEN /\ \E killed \in BOOLEAN : fl' = IF killed THEN "inert" ELSE "listening"
            /\ probes' = ProbesOf(text, patch) /\ saw' = patch
       ELSE fl' = "refused" /\ UNCHANGED <<probes, saw>>
    /\ UNCHANGED <<runtime, text, wsfVars, gameVars>>

(* kPostLoad: MainHook, RenderHook and the freeze detector.                *)
PostLoad ==
    /\ game = "loading" /\ fl # "waiting"
    /\ wsf \notin Installing \cup {"waiting"}
    /\ game' = "postLoad"
    /\ flHooks' = IF fl = "listening" THEN {"update", "initD3D"} ELSE {}
    /\ UNCHANGED <<runtime, text, flVars, wsfVars, scanning, slot, original,
                   overlayOriginal>>

\* Deviation: the slot is written before it is read.
TakeSlotFirst == slot' = "ours" /\ original' = "ours"

TakeSlot == original' = slot /\ slot' = "ours"

(* The game creates the swap chain, once.                                  *)
InitD3D ==
    /\ game = "postLoad" /\ "present" \notin flHooks
    /\ game' = "interactive"
    /\ \/ /\ "initD3D" \in flHooks
          /\ flHooks' = flHooks \cup {"present"} /\ TakeSlot
       \/ UNCHANGED <<flHooks, slot, original>>   \* no manager, chain or access
    /\ UNCHANGED <<runtime, text, flVars, wsfVars, scanning, overlayOriginal>>

(* An overlay takes the same slot, before or after.                        *)
OverlayHooks ==
    /\ game # "loading" /\ overlayOriginal = "none"
    /\ overlayOriginal' = slot /\ slot' = "overlay"
    /\ UNCHANGED <<runtime, text, flVars, wsfVars, flHooks, scanning, game, original>>

-----------------------------------------------------------------------------
(* WorkerSpinLockFix.                                                      *)

VerifyRuntimeWSF == runtime \in {"SE1597", "AE"}

WSFLoad ==
    /\ game = "loading" /\ wsf = "waiting"
    /\ IF VerifyRuntimeWSF
       THEN \E enabled \in BOOLEAN :
                /\ wsf' = IF enabled THEN "phase4" ELSE "disabled"
                /\ targets' = IF enabled THEN TargetsOf(text, patch) ELSE NoTargets
       ELSE wsf' = "refused" /\ UNCHANGED targets
    /\ UNCHANGED <<runtime, text, flVars, gameVars, patch, layers, watchdogs,
                   restless, p4>>

(* Phase4Defer::Install: ids and call sites are checked, the wrap is made  *)
(* but not kept yet, the originals are saved, the call sites are written.  *)
InstallPhase4 ==
    /\ wsf = "phase4"
    /\ wsf' \in {"jwb", "create"}   \* off or not as expected; or all is well
    /\ UNCHANGED <<runtime, text, flVars, gameVars, targets, patch, layers,
                   watchdogs, restless, p4>>

\* Deviation: the originals are not saved before the call sites are written.
CreateWrapOnly ==
    /\ wsf = "create"
    /\ \/ wsf' = "jwb" /\ UNCHANGED p4
       \/ wsf' = "writeRemove" /\ p4' = [p4 EXCEPT !.wrap = "made"]
    /\ UNCHANGED <<runtime, text, flVars, gameVars, targets, patch, layers,
                   watchdogs, restless>>

CreateWrap ==
    /\ wsf = "create"
    /\ \/ wsf' = "jwb" /\ UNCHANGED p4   \* create_inline failed or threw
       \/ /\ wsf' = "writeRemove"
          /\ p4' = [p4 EXCEPT !.wrap = "made", !.originals = TRUE]
    /\ UNCHANGED <<runtime, text, flVars, gameVars, targets, patch, layers,
                   watchdogs, restless>>

(* A write that throws takes the wrap down and no call site back.          *)
TearDown == wsf' = "jwb" /\ p4' = [p4 EXCEPT !.wrap = "none"]

WriteCall(gate, next) ==
    /\ \/ TearDown /\ UNCHANGED layers
       \/ /\ wsf' = next
          /\ p4' = [p4 EXCEPT !.gates = @ \cup {gate},
                              !.wrap = IF gate = "add" THEN "kept" ELSE @]
          /\ layers' = IF gate = "add" THEN layers \cup {"phase4"} ELSE layers
    /\ UNCHANGED <<runtime, text, flVars, gameVars, targets, patch, watchdogs,
                   restless>>

WriteRemove == wsf = "writeRemove" /\ WriteCall("remove", "writeAdd")
WriteAdd    == wsf = "writeAdd" /\ WriteCall("add", "jwb")

(* The file's number is narrowed to 32 bits, then zero is replaced.        *)
PollOf(raw) == IF raw % UintRange = 0 THEN 1000 ELSE raw % UintRange

\* Deviation: the watchdog is started before the hook is made.
StartWatchdogAlways(b, armed) ==
    /\ watchdogs' = watchdogs \cup {b}
    /\ layers' = IF armed THEN layers \cup {b} ELSE layers
    /\ restless' = restless

StartWatchdog(b, armed) ==
    IF ~armed THEN UNCHANGED <<watchdogs, layers, restless>>
    ELSE /\ watchdogs' = watchdogs \cup {b}
         /\ layers' = layers \cup {b}
         /\ \E raw \in RawPolls :
                restless' = IF PollOf(raw) = 0 THEN restless \cup {b} ELSE restless

(* JobWaitBreaker, SiteABreaker and SiteARenderBreaker install alike.      *)
InstallBreaker(b, f, next) ==
    /\ wsf = b /\ wsf' = next
    /\ \E on \in BOOLEAN, jump \in {"none", "near", "far"} :
           /\ patch' = IF on /\ targets[f] THEN [patch EXCEPT ![f] = jump] ELSE patch
           /\ StartWatchdog(b, on /\ targets[f] /\ jump # "none")
    /\ UNCHANGED <<runtime, text, flVars, gameVars, targets, p4>>

InstallJobWaitBreaker     == InstallBreaker("jwb", "siteB", "sab")
InstallSiteABreaker       == InstallBreaker("sab", "siteA", "sar")
InstallSiteARenderBreaker == InstallBreaker("sar", "render", "lsb")

(* LeakedSpinLockBreaker hooks nothing; with it the install is over, and a *)
(* plugin with a layer registers its listener if SKSE gives it messaging.  *)
InstallLeakedSpinLock ==
    /\ wsf = "lsb"
    /\ \E on \in BOOLEAN : StartWatchdog("lsb", on /\ targets.spins > 0)
    /\ \E messaging \in BOOLEAN :
           wsf' = IF layers' = {} THEN "idle"
                  ELSE IF messaging THEN "listening" ELSE "deaf"
    /\ UNCHANGED <<runtime, text, flVars, gameVars, targets, patch, p4>>

DataLoaded ==
    /\ game = "interactive" /\ wsf = "listening" /\ ~scanning
    /\ scanning' = TRUE
    /\ UNCHANGED <<runtime, text, flVars, wsfVars, flHooks, game, slot, original,
                   overlayOriginal>>

-----------------------------------------------------------------------------
Next ==
    \/ FLLoad \/ WSFLoad
    \/ InstallPhase4 \/ CreateWrap \/ WriteRemove \/ WriteAdd
    \/ InstallJobWaitBreaker \/ InstallSiteABreaker \/ InstallSiteARenderBreaker
    \/ InstallLeakedSpinLock
    \/ PostLoad \/ InitD3D \/ OverlayHooks \/ DataLoaded

Spec == Init /\ [][Next]_vars

-----------------------------------------------------------------------------
(* Properties.                                                             *)

Entered(b) == IF b = "jwb" THEN "siteB" ELSE IF b = "sab" THEN "siteA" ELSE "render"

(* A layer hooks only the entry of the function it is for, as the scan     *)
(* proved it, and neither plugin touches a game it refuses: FreezeLogger's *)
(* looser reading of the Site-A prologue would put the hook in the middle. *)
(* WSF SkyrimAnchors.cpp 347-378, main.cpp 96-121 and 121-131.             *)
TouchesWhatIsProven ==
    /\ patch["siteB"] # "none" => text.siteB = "whole"
    /\ patch["siteA"] # "none" => text.siteA \in {"shortPush", "noCall", "whole"}
    /\ patch["render"] # "none" => text.render
    /\ runtime \in {"SE1580", "VR"} =>
           patch = NoPatch /\ watchdogs = {} /\ p4 = NoHooks /\ flHooks = {}

(* A call site that is redirected to a gate has an original to call, also  *)
(* when a later step of the install throws: Phase4Defer.cpp 512-562.       *)
GatesHaveOriginals == p4.gates # {} => p4.originals

(* Once the install is over the wrap is in place only with both gates: a   *)
(* wrap with one gate would hold an actor's Remove back and let its Add    *)
(* pass. A gate without the wrap passes everything through.                *)
(* Phase4Defer.cpp 524-562.                                                *)
WrapHasBothGates ==
    wsf \notin {"create", "writeRemove", "writeAdd"} /\ p4.wrap # "none" =>
        p4.wrap = "kept" /\ p4.gates = Gates /\ "phase4" \in layers

(* A watchdog runs exactly when its hook is there to feed it, and the one  *)
(* without a hook only when there is a spin site to look for: a hook       *)
(* without its watchdog would record waits nobody ends.                    *)
(* JobWaitBreaker.cpp 298-324 and its two siblings, LeakedSpinLock 513-535 *)
HooksMatchWatchdogs ==
    /\ \A b \in Breakers : b \in watchdogs <=> patch[Entered(b)] # "none"
    /\ "lsb" \in watchdogs => targets.spins > 0
    /\ scanning => wsf = "listening"

(* No watchdog polls without a pause, whatever number the file holds: the  *)
(* value is narrowed to 32 bits first. Config.cpp 63-129, g_poll_ms.       *)
NoWatchdogIsRestless == restless = {}

(* What a layer hooks, FreezeLogger can tell apart in a report, provided   *)
(* it scanned first; a scan that finds the entry already hooked loses the  *)
(* function, except the Site-A slot, which it keeps without the return     *)
(* addresses. FreezeLogger's SkyrimAnchors.cpp 371-466.                    *)
HookedIsProbed ==
    fl \in {"inert", "listening"} =>
        /\ saw["siteB"] # "none" => ~probes.siteB /\ probes.retB = 0
        /\ saw["render"] # "none" => ~probes.render
        /\ saw["siteA"] # "none" => ~probes.retA
        /\ saw["siteB"] = "none" /\ patch["siteB"] # "none" => probes.siteB
        /\ saw["render"] = "none" /\ patch["render"] # "none" => probes.render
        /\ patch["siteA"] # "none" /\ saw["siteA"] # "far" /\ text.siteA # "noCall" =>
               probes.entryA # "none"
        /\ "lsb" \in watchdogs => probes.spins > 0

NextPresent(p) == IF p = "ours" THEN original ELSE overlayOriginal

(* Every frame reaches the real Present, through at most one call of each  *)
(* hook, whether the overlay took the slot before or after.                *)
(* RenderHook.cpp 67-70, 104-105.                                          *)
PresentReachesGame ==
    \/ slot = "dxgi"
    \/ NextPresent(slot) = "dxgi"
    \/ /\ NextPresent(slot) \in {"ours", "overlay"} \ {slot}
       /\ NextPresent(NextPresent(slot)) = "dxgi"

(* The types, what may be touched, and who watches: the install leaves no  *)
(* hook unwatched, no layer on an unproven function, no busy watchdog.     *)
InstallIsSafe ==
    TypeOK /\ TouchesWhatIsProven /\ HooksMatchWatchdogs /\ NoWatchdogIsRestless

(* LockA's wrap and its gates come together, whatever the install meets.   *)
PhaseFourIsWhole == GatesHaveOriginals /\ WrapHasBothGates
=============================================================================
