----------------------------- MODULE AnchorScan -----------------------------
(***************************************************************************)
(* The signature scans with which the two plugins find the engine          *)
(* functions they probe or hook.  Neither scan is the other: FreezeLogger  *)
(* only reads the functions and accepts a Site-A body whose prologue it    *)
(* does not recognise, WorkerSpinLockFix hooks their entries and does not. *)
(*                                                                         *)
(* A scanned text section says, for each function, how much of what the    *)
(* scans look for is there; a patch says whether an inline hook has        *)
(* overwritten the entry, with a near jump (5 bytes) or a far one (14).    *)
(***************************************************************************)
EXTENDS Naturals

CONSTANT SpinCounts   \* numbers of spin-retry sites a text section may have

ASSUME SpinCountsAssumption == SpinCounts \subseteq Nat

Functions == {"siteB", "siteA", "render"}
NoPatch   == [f \in Functions |-> "none"]

(* siteB: no body; a body whose slot load is not before it; or both.       *)
(* siteA: no body; no slot load before it; padding between the load and    *)
(* the body; an entry that is not push rbx / sub rsp,20h; one with the     *)
(* one-byte push; a body without the call after it; or all of it.          *)
Texts ==
    [image : BOOLEAN,
     siteB : {"absent", "odd", "whole"},
     siteA : {"absent", "noLoad", "padded", "otherEntry", "shortPush",
              "noCall", "whole"},
     render : BOOLEAN, spins : SpinCounts,
     callsA : 0..1, callsB : {0, 2}]

Patches == [Functions -> {"none", "near", "far"}]

AtMost(n, cap) == IF n < cap THEN n ELSE cap

(* The load of the Singleton-B slot is the entry of WaitForJobTask, so any *)
(* jump over the entry hides it.                                           *)
DerivePrologue(text, patch) ==
    text.siteB = "whole" /\ patch["siteB"] = "none"

(* A near jump leaves the Site-A body alone, a far one reaches into it.    *)
HasSiteABody(text, patch) == text.siteA # "absent" /\ patch["siteA"] # "far"

HasRenderEntry(text, patch) == text.render /\ patch["render"] = "none"

-----------------------------------------------------------------------------
(* FreezeLogger's scan.                                                    *)

NoProbes == [siteB |-> FALSE, entryA |-> "none", retA |-> FALSE, retB |-> 0,
             spins |-> 0, render |-> FALSE]

\* Deviation: a prologue that is not recognised is no anchor.
DeriveSiteAPrologueStrict(text, patch) ==
    IF text.siteA \in {"padded", "noCall", "whole"} /\ patch["siteA"] = "none"
    THEN "entry" ELSE "none"

DeriveSiteAPrologue(text, patch) ==
    IF ~HasSiteABody(text, patch) \/ text.siteA = "noLoad" THEN "none"
    ELSE IF text.siteA \in {"padded", "noCall", "whole"}
             /\ patch["siteA"] = "none" THEN "entry"
    ELSE "load"   \* the slot load stands in for an entry it cannot see

ProbesOf(text, patch) ==
    LET siteB  == DerivePrologue(text, patch)
        entryA == IF text.siteA = "noCall" THEN "none"
                  ELSE DeriveSiteAPrologue(text, patch)
        retA   == entryA = "entry" /\ text.callsA > 0
    IN  IF ~text.image THEN NoProbes
        ELSE [siteB |-> siteB, entryA |-> entryA, retA |-> retA,
              retB |-> IF retA /\ siteB THEN AtMost(text.callsB, 4) ELSE 0,
              spins |-> AtMost(text.spins, 4),
              render |-> HasRenderEntry(text, patch)]

-----------------------------------------------------------------------------
(* WorkerSpinLockFix's scan.                                               *)

NoTargets == [siteB |-> FALSE, siteA |-> FALSE, render |-> FALSE, spins |-> 0]

DeriveSiteA(text, patch) ==
    /\ HasSiteABody(text, patch)
    /\ text.siteA \in {"shortPush", "noCall", "whole"}
    /\ patch["siteA"] = "none"

ScanSpinSignatures(text) == AtMost(text.spins, 8)

TargetsOf(text, patch) ==
    IF ~text.image THEN NoTargets
    ELSE [siteB |-> DerivePrologue(text, patch),
          siteA |-> DeriveSiteA(text, patch),
          render |-> HasRenderEntry(text, patch),
          spins |-> ScanSpinSignatures(text)]
=============================================================================
