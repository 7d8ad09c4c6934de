---------------------------- MODULE WaitSiteAudit ---------------------------
(***************************************************************************)
(* The wait-site part of the main-wait audit (MainWaitProbe.cpp, Write and *)
(* WriteRenderSiteA): it copies main's context, scans the stack for the    *)
(* return addresses of both sites, asks the kernel for the state of the    *)
(* event in RBX, reads the Singleton-A fields and ends in a verdict.       *)
(* The lock sections between the two are the module WaitForChain.          *)
(***************************************************************************)
EXTENDS FreezeSites, Integers

VARIABLES
    aStep,      \* the step of Write that comes next
    aCtx,       \* where main was when its context was copied
    inSites,    \* the sites found: subset of {"A", "B"}
    evState,    \* NtQueryEvent of the handle in RBX: 0, 1, or -1
    fields,     \* the pending flag read from the saved singleton, or -1
    bChain,     \* the Site-B chain: "skipped", "broken", "confirmed" or "other"
    outcome,    \* the verdict of the audit
    rendered    \* what the render section says

auditVars == <<aStep, aCtx, inSites, evState, fields, bChain, outcome, rendered>>

AuditTypeOK ==
    /\ aStep \in {"anchors", "context", "sites", "handle", "fields", "chain",
                  "verdict", "render", "done"}
    /\ aCtx \in {"none", "run", "lockA", "waitA", "thunkB", "waitB"}
    /\ inSites \subseteq {"A", "B"}
    /\ evState \in {-1, 0, 1}
    /\ fields \in {-1, 0, 1}
    /\ bChain \in {"skipped", "broken", "confirmed", "other"}
    /\ outcome \in {"none", "unavailable", "match", "imminent", "siteB", "silent",
                    "unrecognised"}
    /\ rendered \in {"none", "disabled", "unknown", "elsewhere", "fieldsOnly",
                     "parked", "notSignaled"}

AuditInit ==
    /\ aStep = "anchors" /\ aCtx = "none" /\ inSites = {} /\ evState = -1
    /\ fields = -1 /\ bChain = "skipped" /\ outcome = "none" /\ rendered = "none"

Goto(from, to) == aStep = from /\ aStep' = to

\* Without an anchor of Site A, Site B or the spin sites there is no audit.
CheckAnchors ==
    /\ IF anchors \cap {"siteA", "siteB", "spin"} = {}
       THEN Goto("anchors", "done") /\ outcome' = "unavailable"
       ELSE Goto("anchors", "context") /\ UNCHANGED outcome
    /\ UNCHANGED <<aCtx, inSites, evState, fields, bChain, rendered>>

AuditMainContext ==
    /\ IF "main" \in tids
       THEN Goto("context", "sites") /\ aCtx' = at /\ UNCHANGED outcome
       ELSE Goto("context", "done") /\ outcome' = "unavailable" /\ UNCHANGED aCtx
    /\ UNCHANGED <<inSites, evState, fields, bChain, rendered>>

\* The returns of Site B were resolved from the one call of the Site-A lock
\* function, so they need both anchors.
SiteAHit(returns) == "siteA" \in anchors /\ (aCtx = "lockA" \/ "A" \in returns)
SiteBHit(returns) ==
    /\ "siteB" \in anchors
    /\ aCtx = "thunkB" \/ ("siteA" \in anchors /\ "B" \in returns)

AuditSites ==
    /\ Goto("sites", "handle")
    /\ \E returns \in SeenReturns(aCtx, at) :
          inSites' = {s \in {"A", "B"} : IF s = "A" THEN SiteAHit(returns)
                                         ELSE SiteBHit(returns)}
    /\ UNCHANGED <<aCtx, evState, fields, bChain, outcome, rendered>>

\* The copied RBX is the ack event at Site A; at Site B a handle whose event, if
\* it is one, is not signaled; elsewhere no handle.
ProbeRbx ==
    /\ Goto("handle", "fields")
    /\ evState' \in CASE aCtx = "waitA" -> {IF ack THEN 1 ELSE 0}
                      [] aCtx = "waitB" -> {-1, 0}
                      [] OTHER -> {-1}
    /\ UNCHANGED <<aCtx, inSites, fields, bChain, outcome, rendered>>

\* TryFindSingletonByHandle looks for a saved pointer to the instance in 2 KiB of
\* stack: it may not be there, and the instance may not be readable.  It may also
\* still find it after main has left the wait.
ReadFields ==
    /\ Goto("fields", "chain")
    /\ IF "A" \in inSites /\ aCtx = "waitA"
       THEN fields' \in {-1, pending}
       ELSE UNCHANGED fields
    /\ UNCHANGED <<aCtx, inSites, evState, bChain, outcome, rendered>>

AuditChain ==
    /\ Goto("chain", "verdict")
    /\ bChain' \in IF "B" \notin inSites THEN {"skipped"}
                   ELSE IF cut # Intact THEN {"broken"}
                   ELSE IF aCtx = "waitB" THEN {"confirmed", "other"} ELSE {"other"}
    /\ UNCHANGED <<aCtx, inSites, evState, fields, outcome, rendered>>

\* Deviation: the event is not looked at.
MatchesFlagOnly == "A" \in inSites /\ fields = 1
Matches == "A" \in inSites /\ fields = 1 /\ evState = 0

\* A Site-A wait without readable fields gets no verdict at all.
AuditVerdict ==
    /\ Goto("verdict", "render")
    /\ outcome' = IF Matches THEN "match"
                  ELSE IF "A" \in inSites /\ fields = 1 /\ evState = 1 THEN "imminent"
                  ELSE IF "B" \in inSites THEN "siteB"
                  ELSE IF inSites = {} THEN "unrecognised"
                  ELSE "silent"
    /\ UNCHANGED <<aCtx, inSites, evState, fields, bChain, rendered>>

\* WriteRenderSiteA: being inside the join is taken for being parked in it.
WriteRenderSiteA ==
    /\ Goto("render", "done")
    /\ rendered' = IF "render" \notin anchors THEN "disabled"
                   ELSE IF "render" \notin tids THEN "unknown"
                   ELSE IF ~join THEN "elsewhere"
                   ELSE IF "siteA" \notin anchors THEN "fieldsOnly"
                   ELSE IF ack THEN "parked" ELSE "notSignaled"
    /\ UNCHANGED <<aCtx, inSites, evState, fields, bChain, outcome>>

AuditStep ==
    \/ CheckAnchors \/ AuditMainContext \/ AuditSites \/ ProbeRbx \/ ReadFields
    \/ AuditChain \/ AuditVerdict \/ WriteRenderSiteA
=============================================================================
