---------------------------- MODULE FreezeReport ----------------------------
(***************************************************************************)
(* One report: the classification, then the audit (the order of            *)
(* Reporter.cpp), over an engine that may move between any two probes.     *)
(* The two sections never exchange a value: what they say of one freeze    *)
(* agrees only if both read the engine rightly.                            *)
(***************************************************************************)
EXTENDS Verdict, WaitSiteAudit

\* History since the report began.
VARIABLES
    been,    \* where main has been
    spun,    \* what workers spun on
    cuts,    \* where the Singleton-B chain was cut
    joined   \* render was in its join

history == <<been, spun, cuts, joined>>
vars == <<engine, verdictVars, auditVars, history>>

HistoryTypeOK ==
    /\ at \in been /\ been \subseteq {"run", "lockA", "waitA", "thunkB", "waitB"}
    /\ spin \in spun /\ spun \subseteq {"none", "main", "other"}
    /\ cut \in cuts /\ cuts \subseteq 0..Intact
    /\ joined \in BOOLEAN /\ (join => joined)

TypeOK == FreezeSitesTypeOK /\ VerdictTypeOK /\ AuditTypeOK /\ HistoryTypeOK

\* Every state of the engine a report may find.
Init ==
    /\ se1597 \in BOOLEAN /\ stray \in BOOLEAN
    /\ anchors \in {{}, {"siteB"}, {"siteA", "siteB"}, {"siteA", "spin"}, AnchorNames}
    /\ tids \in {{}, {"main"}, {"main", "render"}}
    /\ leftover \in {{}, {"A"}}
    /\ smp \in {s \in Smp : s.loaded \/ (~s.onStack /\ s.inside = 0)}
    /\ at \in {"run", "lockA", "waitA", "thunkB", "waitB"}
    /\ pending = (IF at \in {"lockA", "waitA"} THEN 1 ELSE 0)
    /\ ack \in BOOLEAN /\ (ack => at = "waitA")
    /\ cut \in 0..Intact
    /\ pointers = 0
    /\ spin \in {"none", "main", "other"}
    /\ join \in BOOLEAN
    /\ moves = 0
    /\ been = {at} /\ spun = {spin} /\ cuts = {cut} /\ joined = join
    /\ VerdictInit /\ AuditInit

Finished == vStep = "done" /\ aStep = "done"

Remember ==
    /\ been' = been \cup {at'} /\ spun' = spun \cup {spin'} /\ cuts' = cuts \cup {cut'}
    /\ joined' = (joined \/ join')

Next ==
    \/ VerdictStep /\ UNCHANGED <<engine, auditVars, history>>
    \/ vStep = "done" /\ AuditStep /\ UNCHANGED <<engine, verdictVars, history>>
    \/ ~Finished /\ EngineMove /\ Remember /\ UNCHANGED <<verdictVars, auditVars>>

Spec == Init /\ [][Next]_vars

-----------------------------------------------------------------------------
\* Nothing misleads the scans; and a true freeze of which nothing does.
Clean == leftover = {} /\ ~stray
Plain == Quiet /\ Clean

AtA == at \in {"lockA", "waitA"}
AtB == at \in {"thunkB", "waitB"}

\* The history answers for what is printed: in a true freeze, where it holds what is
\* so now; and while the engine moves between two probes, where nothing may be
\* printed that was not so at some moment of the report.
BeenAtA == been \cap {"lockA", "waitA"} # {}
BeenAtB == been \cap {"thunkB", "waitB"} # {}

\* Each class means what its label says (Verdict.cpp:638-718): of an AB-BA report main
\* was in the Site-A lock function and a worker spun on a lock of main; of the Site-B
\* classes main was in WaitForJobTask; of the render class the render thread in its
\* join.  The worker-ack class says where main was and nothing of the spinners.
ClassIsTrue ==
    Clean =>
        /\ class = "SpinlockAbBa" => BeenAtA /\ "main" \in spun
        /\ class \in {"HdtsmpSiteB", "SiteBNoHdtsmp"} => BeenAtB
        /\ class = "SiteAWorkerAck" => BeenAtA
        /\ class = "RenderSiteAWorkerAck" => joined

\* A site is named only if main was there during the report, by both sections
\* (Verdict.cpp:545-574, MainWaitProbe.cpp:1799-1830).
SitesWereVisited ==
    leftover = {} =>
        /\ obs.inSiteA \/ "A" \in inSites => BeenAtA
        /\ obs.inSiteB \/ "B" \in inSites => BeenAtB
        /\ outcome \in {"match", "imminent"} => "waitA" \in been

\* And every freeze with a fingerprint gets its class: on SE both sites, elsewhere
\* the WaitForJobTask thunk.
FreezesAreNamed ==
    Plain /\ class # "none" /\ "main" \in tids =>
        /\ se1597 /\ AtA => class \in {"SpinlockAbBa", "SiteAWorkerAck"}
        /\ AtB /\ (se1597 \/ (at = "thunkB" /\ "siteB" \in anchors))
              => class \in {"HdtsmpSiteB", "SiteBNoHdtsmp"}
        /\ at = "run" /\ join /\ {"render"} \subseteq anchors \cap tids
              => class = "RenderSiteAWorkerAck"

\* A confidence above the lowest of its class was earned by a chain that was cut, or
\* by a spinner that was there (Verdict.cpp:656-661, 679, 689, 707).
ConfidenceIsEarned ==
    Clean =>
        /\ class = "HdtsmpSiteB" /\ confidence = "high" =>
              cuts # {Intact} /\ smp.inside >= 1 /\ "siteB" \in anchors
        /\ class = "SiteBNoHdtsmp" /\ confidence = "medium" => cuts # {Intact}
        /\ \/ class = "SiteAWorkerAck" /\ confidence = "medium"
           \/ class = "RenderSiteAWorkerAck" /\ confidence = "high"
           => spun # {"none"}

\* "Gate every use of them on this so AE/VR don't read stale addresses"
\* (Verdict.cpp:49-58): without SE 1.5.97 nothing that rests on an SE address is
\* observed, and a chain is walked only from a resolved slot.
NoStaleAddress ==
    /\ ~se1597 => ~obs.inSiteA /\ ~obs.spinnerSeen
                  /\ class \notin {"SpinlockAbBa", "SiteAWorkerAck"}
    /\ obs.chainWalked => "siteB" \in anchors

\* "DEADLOCK SIGNATURE MATCH": in a true freeze main waits, with the flag set, for
\* an event nobody has signaled (MainWaitProbe.cpp:2128-2141); and the signature
\* is found in every such freeze that the audit has the anchor for and whose
\* Singleton-A fields it could read (MainWaitProbe.cpp:1897-1909).
MatchIsLostAck ==
    /\ outcome = "match" /\ Quiet => at = "waitA" /\ pending = 1 /\ ~ack
    /\ Plain /\ outcome \notin {"none", "unavailable"} /\ "siteA" \in anchors
          /\ at = "waitA" /\ ~ack /\ fields # -1 => outcome = "match"

\* On SE 1.5.97 with all anchors the two sections of one report name the same site.
SectionsAgree ==
    Plain /\ Finished /\ se1597 /\ anchors = AnchorNames /\ "main" \in tids =>
        /\ class \in {"SpinlockAbBa", "SiteAWorkerAck"} <=> inSites = {"A"}
        /\ class \in {"HdtsmpSiteB", "SiteBNoHdtsmp"} <=> inSites = {"B"}

\* The classification is true and its confidence earned, of a freeze or of an engine
\* that moves; no site is named that main was not at and nothing rests on an address
\* of another build.
ReportIsTrue == TypeOK /\ ClassIsTrue /\ ConfidenceIsEarned /\ SitesWereVisited /\ NoStaleAddress
=============================================================================
