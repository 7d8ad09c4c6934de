------------------------------- MODULE Verdict ------------------------------
(***************************************************************************)
(* The freeze classification at the head of a report (Verdict.cpp):        *)
(* Observe reads the engine in five steps, one moment after another, and   *)
(* the pure Classify names the freeze and a confidence.                    *)
(***************************************************************************)
EXTENDS FreezeSites

VARIABLES
    vStep,       \* the step of Observe that comes next
    vCtx,        \* where main was when its context was copied
    obs,         \* Observations
    class,       \* Class, as printed
    confidence

verdictVars == <<vStep, vCtx, obs, class, confidence>>

Classes == {"SpinlockAbBa", "HdtsmpSiteB", "SiteBNoHdtsmp", "SiteAWorkerAck",
            "RenderSiteAWorkerAck", "Unrecognised"}

NoObservations ==
    [inSiteA |-> FALSE, inSiteB |-> FALSE, chainWalked |-> FALSE, chainCut |-> Intact,
     chainPointers |-> 0, chainStable |-> FALSE, hdtsmpOnMainStack |-> FALSE,
     workersInside |-> 0, spinnerSeen |-> FALSE, ownedByMain |-> FALSE,
     renderInSiteA |-> FALSE]

VerdictTypeOK ==
    /\ vStep \in {"context", "sites", "chain", "stable", "hdtsmp", "spin", "render",
                  "classify", "done"}
    /\ vCtx \in {"none", "run", "lockA", "waitA", "thunkB", "waitB"}
    /\ obs \in [inSiteA : BOOLEAN, inSiteB : BOOLEAN, chainWalked : BOOLEAN,
                chainCut : 0..Intact, chainPointers : {0, 1}, chainStable : BOOLEAN,
                hdtsmpOnMainStack : BOOLEAN, workersInside : 0..MaxInside,
                spinnerSeen : BOOLEAN, ownedByMain : BOOLEAN, renderInSiteA : BOOLEAN]
    /\ class \in Classes \cup {"none"}
    /\ confidence \in {"none", "low", "medium", "high"}

VerdictInit ==
    /\ vStep = "context" /\ vCtx = "none" /\ obs = NoObservations
    /\ class = "none" /\ confidence = "none"

Step(from, to) == vStep = from /\ vStep' = to /\ UNCHANGED <<class, confidence>>

-----------------------------------------------------------------------------
\* ReadMainContext, with the early return while main has not ticked.
ReadMainContext ==
    /\ IF "main" \in tids
       THEN Step("context", "sites") /\ vCtx' = at
       ELSE Step("context", "classify") /\ UNCHANGED vCtx
    /\ UNCHANGED obs

\* Site A and the return address of Site B are SE addresses; the WaitForJobTask
\* thunk is an anchor.
\* Deviation: only the RIP is looked at, not the stack.
InSiteARip(returns) == se1597 /\ vCtx = "lockA"
InSiteA(returns) == se1597 /\ (vCtx = "lockA" \/ "A" \in returns)
InSiteB(returns) ==
    \/ "siteB" \in anchors /\ vCtx = "thunkB"
    \/ se1597 /\ "B" \in returns

DetectSites ==
    /\ Step("sites", "chain")
    /\ \E returns \in SeenReturns(vCtx, at) :
          obs' = [obs EXCEPT !.inSiteA = InSiteA(returns), !.inSiteB = InSiteB(returns)]
    /\ UNCHANGED vCtx

\* WalkSingletonB: up to the link it stops at; a null handle is a whole chain.
WalksChain == obs.inSiteB /\ "siteB" \in anchors

WalkChain ==
    /\ Step("chain", IF WalksChain THEN "stable" ELSE "hdtsmp")
    /\ obs' = IF WalksChain
              THEN [obs EXCEPT !.chainWalked = TRUE, !.chainCut = cut,
                               !.chainPointers = pointers]
              ELSE obs
    /\ UNCHANGED vCtx

\* ChainStable: the same walk 50 ms later.
SameChain == obs.chainCut = cut /\ (cut > 0 => obs.chainPointers = pointers)

ChainStable ==
    /\ Step("stable", "hdtsmp")
    /\ obs' = [obs EXCEPT !.chainStable = SameChain]
    /\ UNCHANGED vCtx

CountWorkersInHdtsmp ==
    /\ Step("hdtsmp", "spin")
    /\ obs' = [obs EXCEPT !.hdtsmpOnMainStack = smp.loaded /\ smp.onStack,
                          !.workersInside = IF smp.loaded THEN smp.inside ELSE 0]
    /\ UNCHANGED vCtx

\* ScanSpinlocks: a spinner has a return address of the retry on its stack, its lock is
\* main's if one of 14 registers points at main's id.  A parked spinner need not keep
\* the lock in a register, nor a thread let itself be opened: either may go unseen.
\* Deviation: every spinner is taken for one that waits for main.
ScanSpinlocksAny ==
    /\ Step("spin", "render")
    /\ obs' = IF se1597 /\ spin # "none"
              THEN [obs EXCEPT !.spinnerSeen = TRUE, !.ownedByMain = TRUE]
              ELSE obs
    /\ UNCHANGED vCtx
ScanSpinlocks ==
    /\ Step("spin", "render")
    /\ \E seen, owned \in BOOLEAN :
          /\ seen => se1597 /\ (spin # "none" \/ stray)
          /\ owned => seen /\ (spin = "main" \/ stray)
          /\ obs' = [obs EXCEPT !.spinnerSeen = seen, !.ownedByMain = owned]
    /\ UNCHANGED vCtx

ProbeRenderSiteA ==
    /\ Step("render", "classify")
    /\ obs' = [obs EXCEPT !.renderInSiteA =
                  "render" \in anchors /\ "render" \in tids /\ join]
    /\ UNCHANGED vCtx

-----------------------------------------------------------------------------
\* Classify, a function of the observations alone.
ChainGone(o) == o.chainWalked /\ o.chainCut # Intact

\* Deviation: the render join is looked at before Site A.
ClassifyRenderFirst(o) ==
    IF o.inSiteA /\ o.ownedByMain THEN <<"SpinlockAbBa", "high">>
    ELSE IF o.renderInSiteA THEN <<"RenderSiteAWorkerAck", "high">>
    ELSE IF o.inSiteA THEN <<"SiteAWorkerAck", "low">>
    ELSE IF o.inSiteB THEN <<"SiteBNoHdtsmp", "low">>
    ELSE <<"Unrecognised", "low">>
Classify(o) ==
    IF o.inSiteA /\ o.ownedByMain THEN <<"SpinlockAbBa", "high">>
    ELSE IF o.inSiteB /\ o.hdtsmpOnMainStack
    THEN <<"HdtsmpSiteB", IF ChainGone(o) /\ o.workersInside >= 1 THEN "high" ELSE "medium">>
    ELSE IF o.inSiteB
    THEN <<"SiteBNoHdtsmp", IF ChainGone(o) THEN "medium" ELSE "low">>
    ELSE IF o.inSiteA
    THEN <<"SiteAWorkerAck", IF o.spinnerSeen THEN "medium" ELSE "low">>
    ELSE IF o.renderInSiteA
    THEN <<"RenderSiteAWorkerAck", IF o.spinnerSeen THEN "high" ELSE "medium">>
    ELSE <<"Unrecognised", "low">>

WriteVerdict ==
    /\ vStep = "classify" /\ vStep' = "done"
    /\ class' = Classify(obs)[1] /\ confidence' = Classify(obs)[2]
    /\ UNCHANGED <<vCtx, obs>>

VerdictStep ==
    \/ ReadMainContext \/ DetectSites \/ WalkChain \/ ChainStable
    \/ CountWorkersInHdtsmp \/ ScanSpinlocks \/ ProbeRenderSiteA \/ WriteVerdict
=============================================================================
