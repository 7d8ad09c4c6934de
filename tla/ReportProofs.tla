---------------------------- MODULE ReportProofs ----------------------------
(***************************************************************************)
(* The sections of a report and the files they are written to.  First the  *)
(* classification and the audit (FreezeReport), for any number of engine   *)
(* moves, any length of the Singleton-B chain and any number of threads;   *)
(* then the task pool with its healthy baseline (TaskPool); then the       *)
(* report files with their two writers (Reporter).  The three have no      *)
(* variable in common.                                                     *)
(*                                                                         *)
(* What a section has read is true in two ways.  Some of it stays true     *)
(* whatever the engine does: what was seen was so at some moment of the    *)
(* report, which the history keeps, and an address that was used was       *)
(* resolved.  The rest is true of the freeze as long as it is one: while   *)
(* the engine has not moved, a site or a join is found where it is now.    *)
(* Of the spinners only the first holds: the scan may miss them.           *)
(***************************************************************************)
EXTENDS FreezeReport, TaskPool, Reporter, TLAPS

Places   == {"run", "lockA", "waitA", "thunkB", "waitB"}
Observed == [inSiteA : BOOLEAN, inSiteB : BOOLEAN, chainWalked : BOOLEAN,
             chainCut : 0..Intact, chainPointers : {0, 1}, chainStable : BOOLEAN,
             hdtsmpOnMainStack : BOOLEAN, workersInside : 0..MaxInside,
             spinnerSeen : BOOLEAN, ownedByMain : BOOLEAN, renderInSiteA : BOOLEAN]

\* The steps of Observe after which a group of its fields is set.
Sited   == {"chain", "stable", "hdtsmp", "spin", "render", "classify", "done"}
Chained == Sited \ {"chain"}
Smped   == Chained \ {"stable", "hdtsmp"}
Spun    == Smped \ {"spin"}
Joined  == Spun \ {"render"}

\* The freezes that Observe can tell to be in WaitForJobTask.
AtBnamed == AtB /\ (se1597 \/ (at = "thunkB" /\ "siteB" \in anchors))

\* What stays true of the observations whatever the engine does.
ObsInv ==
    /\ vCtx \in been \cup {"none"}
    /\ leftover = {} =>
          /\ obs.inSiteA => been \cap {"lockA", "waitA"} # {}
          /\ obs.inSiteB => been \cap {"thunkB", "waitB"} # {}
    /\ ~se1597 => ~obs.inSiteA /\ ~obs.spinnerSeen
    /\ obs.ownedByMain => obs.spinnerSeen
    /\ ~stray => /\ obs.spinnerSeen => spun \ {"none"} # {}
                 /\ obs.ownedByMain => "main" \in spun
    /\ obs.chainWalked => "siteB" \in anchors /\ obs.chainCut \in cuts
    /\ obs.workersInside >= 1 => smp.inside >= 1
    /\ obs.renderInSiteA => joined
    /\ vStep \notin Chained => ~obs.chainWalked
    /\ vStep \notin Spun => ~obs.spinnerSeen /\ ~obs.ownedByMain
    /\ "main" \notin tids => obs = NoObservations
    /\ vStep \notin {"context", "classify", "done"} => "main" \in tids
    /\ class = "none" <=> vStep # "done"
    /\ class # "none" => class = Classify(obs)[1] /\ confidence = Classify(obs)[2]

\* What is true of the freeze while it is one.
ObsTrue ==
    Plain /\ "main" \in tids =>
        /\ vStep # "context" => vCtx = at
        /\ vStep \in Sited => /\ obs.inSiteA <=> se1597 /\ AtA
                              /\ obs.inSiteB <=> AtBnamed
        /\ vStep \in Chained => /\ obs.chainWalked <=> obs.inSiteB /\ "siteB" \in anchors
                                /\ obs.chainWalked => obs.chainCut = cut
        /\ vStep \in Smped =>
              /\ obs.hdtsmpOnMainStack <=> smp.loaded /\ smp.onStack
              /\ obs.workersInside = IF smp.loaded THEN smp.inside ELSE 0
        /\ vStep \in Joined =>
              (obs.renderInSiteA <=> {"render"} \subseteq anchors \cap tids /\ join)

\* The steps of the audit after which its fields are set.
Looked    == {"handle", "fields", "chain", "verdict", "render", "done"}
Queried   == Looked \ {"handle"}
HasFields == Queried \ {"fields"}

AuditInv ==
    /\ aCtx \in been \cup {"none"}
    /\ leftover = {} =>
          /\ "A" \in inSites => been \cap {"lockA", "waitA"} # {}
          /\ "B" \in inSites => been \cap {"thunkB", "waitB"} # {}
    /\ fields # -1 => aCtx = "waitA"
    /\ aStep \notin HasFields => fields = -1
    /\ outcome = "none" <=> aStep \notin {"render", "done"}
    /\ outcome = "unavailable" =>
          anchors \cap {"siteA", "siteB", "spin"} = {} \/ "main" \notin tids
    /\ outcome \in {"match", "imminent"} => fields = 1
    /\ outcome = "match" => evState = 0
    /\ outcome \notin {"none", "unavailable"} /\ Matches => outcome = "match"

AuditTrue ==
    Quiet /\ outcome # "unavailable" =>
        /\ aStep \notin {"anchors", "context"} => aCtx = at
        /\ aStep \in Queried /\ at = "waitA" => evState = IF ack THEN 1 ELSE 0
        /\ Plain /\ aStep \in Looked =>
             /\ "A" \in inSites <=> "siteA" \in anchors /\ AtA
             /\ "B" \in inSites <=> /\ "siteB" \in anchors
                                    /\ at = "thunkB" \/ ("siteA" \in anchors /\ AtB)
        /\ aStep \in HasFields /\ "A" \in inSites /\ at = "waitA" => fields \in {-1, 1}

ReportInv == TypeOK /\ ObsInv /\ ObsTrue /\ AuditInv /\ AuditTrue

-----------------------------------------------------------------------------
(***************************************************************************)
(* The first states, and what a section cannot disturb.                    *)
(***************************************************************************)
\* The observations by name.
LEMMA ObservedType == VerdictTypeOK => obs \in Observed
  BY DEF VerdictTypeOK, Observed

\* Before the first read there is nothing to be wrong about.
LEMMA InitReport == Init => ReportInv
<1> SUFFICES ASSUME Init PROVE ReportInv OBVIOUS
<1> USE FreezeSitesAssumption DEF Init, VerdictInit, AuditInit
<1>1. FreezeSitesTypeOK
  <2>1. smp \in Smp /\ (~smp.loaded => ~smp.onStack /\ smp.inside = 0) OBVIOUS
  <2>2. /\ anchors \subseteq AnchorNames /\ tids \subseteq {"main", "render"}
        /\ leftover \subseteq {"A", "B"}
    BY DEF AnchorNames
  <2>3. moves \in 0..MaxMoves /\ pointers \in {0, 1} OBVIOUS
  <2> QED BY <2>1, <2>2, <2>3 DEF FreezeSitesTypeOK
<1>2. VerdictTypeOK
  <2>1. obs \in Observed BY DEF NoObservations, Observed, Intact
  <2> QED BY <2>1 DEF VerdictTypeOK, Observed
<1>3. AuditTypeOK BY DEF AuditTypeOK
<1>4. TypeOK
  <2>1. HistoryTypeOK BY DEF HistoryTypeOK
  <2> QED BY <1>1, <1>2, <1>3, <2>1 DEF TypeOK
<1>5. ObsInv BY DEF ObsInv, NoObservations, Chained, Spun, Smped, Sited
<1>6. ObsTrue BY DEF ObsTrue, Chained, Spun, Smped, Sited, Joined
<1>7. AuditInv BY DEF AuditInv, HasFields, Queried, Looked
<1>8. AuditTrue BY DEF AuditTrue, Looked, Queried, HasFields
<1> QED BY <1>4, <1>5, <1>6, <1>7, <1>8 DEF ReportInv

\* A step of the audit leaves the observations as true as they were,
LEMMA ObsUntouched ==
    ASSUME ObsInv, ObsTrue, UNCHANGED <<engine, verdictVars, history>>
    PROVE  ObsInv' /\ ObsTrue'
<1>1. UNCHANGED <<se1597, anchors, tids, leftover, stray, smp, at, pending, ack, cut,
                  pointers, spin, join, moves>>
  BY DEF engine, build
<1>2. UNCHANGED <<vStep, vCtx, obs, class, confidence, been, spun, cuts, joined>>
  BY DEF verdictVars, history
<1>3. ObsInv' BY <1>1, <1>2 DEF ObsInv, Classify, ChainGone
<1>4. ObsTrue' BY <1>1, <1>2 DEF ObsTrue, Plain, Clean, Quiet, AtA, AtB, AtBnamed
<1> QED BY <1>3, <1>4

\* and a step of the classification the audit.
LEMMA AuditUntouched ==
    ASSUME AuditInv, AuditTrue, UNCHANGED <<engine, auditVars, history>>
    PROVE  AuditInv' /\ AuditTrue'
<1>1. UNCHANGED <<se1597, anchors, tids, leftover, stray, smp, at, pending, ack, cut,
                  pointers, spin, join, moves>>
  BY DEF engine, build
<1>2. UNCHANGED <<aStep, aCtx, inSites, evState, fields, outcome, been>>
  BY DEF auditVars, history
<1>3. AuditInv' BY <1>1, <1>2 DEF AuditInv, Matches
<1>4. AuditTrue' BY <1>1, <1>2 DEF AuditTrue, Plain, Clean, Quiet, AtA, AtB
<1> QED BY <1>3, <1>4

LEMMA TypesUntouched ==
    ASSUME TypeOK, UNCHANGED <<engine, history>>
    PROVE  /\ FreezeSitesTypeOK'
           /\ HistoryTypeOK'
           /\ UNCHANGED verdictVars => VerdictTypeOK'
           /\ UNCHANGED auditVars => AuditTypeOK'
<1>1. UNCHANGED <<se1597, anchors, tids, leftover, stray, smp, at, pending, ack, cut,
                  pointers, spin, join, moves, been, spun, cuts, joined>>
  BY DEF engine, build, history
<1>2. FreezeSitesTypeOK'
  BY <1>1, Zenon DEF TypeOK, FreezeSitesTypeOK, Intact, Smp, AnchorNames
<1>3. HistoryTypeOK' BY <1>1, Zenon DEF TypeOK, HistoryTypeOK, Intact
<1>4. UNCHANGED verdictVars => VerdictTypeOK'
  BY Zenon DEF TypeOK, VerdictTypeOK, verdictVars, Intact, Classes
<1>5. UNCHANGED auditVars => AuditTypeOK' BY Zenon DEF TypeOK, AuditTypeOK, auditVars
<1> QED BY <1>2, <1>3, <1>4, <1>5
-----------------------------------------------------------------------------
(***************************************************************************)
(* A move of the engine ends the freeze: what was true of it need not be.  *)
(***************************************************************************)
LEMMA EngineStep ==
    ASSUME ReportInv, EngineMove, Remember,
           UNCHANGED <<verdictVars, auditVars>>
    PROVE  ReportInv'
<1>0. /\ moves \in Nat /\ moves < MaxMoves /\ moves' = moves + 1 /\ MaxMoves \in Nat
      /\ UNCHANGED <<se1597, anchors, tids, leftover, stray, smp>>
  BY FreezeSitesAssumption
     DEF ReportInv, TypeOK, FreezeSitesTypeOK, EngineMove, build
<1>1. moves' \in 0..MaxMoves /\ ~Quiet' /\ ~Plain' BY <1>0 DEF Quiet, Plain
<1>2. UNCHANGED <<vStep, vCtx, obs, class, confidence, aStep, aCtx, inSites, evState,
                  fields, bChain, outcome, rendered>>
  BY DEF verdictVars, auditVars
<1>3. /\ at' \in Places /\ pending' = (IF at' \in {"lockA", "waitA"} THEN 1 ELSE 0)
      /\ ack' \in BOOLEAN /\ (ack' => at' = "waitA")
  <2>1. /\ at \in Places /\ pending = (IF at \in {"lockA", "waitA"} THEN 1 ELSE 0)
        /\ ack \in BOOLEAN /\ (ack => at = "waitA")
    BY DEF ReportInv, TypeOK, FreezeSitesTypeOK, Places
  <2>2. CASE MainMove
    <3> USE DEF MainMove, Dispatch, WorkerAck, AckSeen, Unlock, WaitJobs, ParkJobs, JobsDone
    <3>1. ack' = ack \/ ack' = TRUE \/ ack' = FALSE BY <2>2
    <3>2. ack' \in BOOLEAN BY <2>1, <3>1, Zenon
    <3>3. at' \in Places BY <2>1, <2>2 DEF Places
    <3>4. pending' = (IF at' \in {"lockA", "waitA"} THEN 1 ELSE 0) BY <2>1, <2>2
    <3>5. ack' => at' = "waitA" BY <2>1, <2>2
    <3> QED BY <3>2, <3>3, <3>4, <3>5
  <2>3. CASE UNCHANGED <<at, pending, ack>> BY <2>1, <2>3
  <2> QED BY <2>2, <2>3 DEF EngineMove
<1>4. /\ cut' \in 0..Intact /\ pointers' \in {0, 1} /\ join' \in BOOLEAN
      /\ spin' \in {"none", "main", "other"}
  <2>1. /\ cut \in 0..Intact /\ pointers \in {0, 1} /\ join \in BOOLEAN
        /\ spin \in {"none", "main", "other"}
    BY DEF ReportInv, TypeOK, FreezeSitesTypeOK
  <2>2. join' \in BOOLEAN
    <3>1. join' = join \/ join' = ~join BY DEF EngineMove
    <3> QED BY <2>1, <3>1, Zenon
  <2>3. cut' \in 0..Intact /\ pointers' \in {0, 1}
    BY <2>1 DEF EngineMove, RewriteChain, Intact
  <2>4. spin' \in {"none", "main", "other"} BY <2>1 DEF EngineMove, RewriteChain
  <2> QED BY <2>2, <2>3, <2>4
<1>5. FreezeSitesTypeOK'
  BY <1>0, <1>1, <1>3, <1>4 DEF ReportInv, TypeOK, FreezeSitesTypeOK, Places, Intact
<1>6. VerdictTypeOK' BY <1>2 DEF ReportInv, TypeOK, VerdictTypeOK, Intact
<1>7. AuditTypeOK' BY <1>2 DEF ReportInv, TypeOK, AuditTypeOK
<1>8. /\ been \subseteq been' /\ spun \subseteq spun' /\ cuts \subseteq cuts'
      /\ joined => joined'
  BY DEF Remember
<1>13. TypeOK'
  <2>1. HistoryTypeOK
    BY DEF ReportInv, TypeOK
  <2>2. joined' \in BOOLEAN /\ (join' => joined') BY Zenon DEF Remember
  <2>3. at' \in been' /\ spin' \in spun' /\ cut' \in cuts' BY DEF Remember
  <2>4. /\ been' \subseteq Places /\ spun' \subseteq {"none", "main", "other"}
        /\ cuts' \subseteq 0..Intact
    BY <1>3, <1>4, <2>1 DEF Remember, HistoryTypeOK, Places
  <2>5. HistoryTypeOK' BY <2>2, <2>3, <2>4 DEF HistoryTypeOK, Places, Intact
  <2> QED BY <1>5, <1>6, <1>7, <2>5 DEF TypeOK
<1>9. ObsInv'
  <2>1. ObsInv /\ Classify(obs)' = Classify(obs)
    BY <1>2 DEF ReportInv, Classify, ChainGone, Intact
  <2>2. obs.renderInSiteA => joined' BY <1>8, <2>1, Zenon DEF ObsInv
  <2> QED BY <1>0, <1>2, <1>8, <2>1, <2>2 DEF ObsInv
<1>10. ObsTrue' BY <1>1 DEF ObsTrue
<1>11. AuditInv' BY <1>0, <1>2, <1>8 DEF ReportInv, AuditInv, Matches
<1>12. AuditTrue' BY <1>1 DEF AuditTrue
<1> QED BY <1>9, <1>10, <1>11, <1>12, <1>13 DEF ReportInv
-----------------------------------------------------------------------------
(***************************************************************************)
(* The steps of the classification.                                        *)
(***************************************************************************)
EngineVars == <<se1597, anchors, tids, leftover, stray, smp, at, pending, ack, cut,
                pointers, spin, join, moves, been, spun, cuts, joined>>

\* In a true freeze a scan finds the return addresses of the place, no others.
LEMMA TrueReturns ==
    ASSUME leftover = {}, NEW R \in SeenReturns(at, at)
    PROVE  R = Returns(at)
  BY DEF SeenReturns

\* In any report it finds them only at a place where main was.
LEMMA VisitedReturns ==
    ASSUME leftover = {}, NEW p \in Places \cup {"none"}, NEW R \in SeenReturns(p, at)
    PROVE  /\ "A" \in R => p = "waitA" \/ at = "waitA"
           /\ "B" \in R => {p, at} \cap {"thunkB", "waitB"} # {}
  BY DEF SeenReturns, Returns, Places

\* One lemma per step: the type, and both halves of what is known of the observations.
LEMMA ContextStep ==
    ASSUME ReportInv, ReadMainContext, UNCHANGED EngineVars
    PROVE  VerdictTypeOK' /\ ObsInv' /\ ObsTrue'
<1>0. UNCHANGED <<obs, class, confidence>> /\ vStep = "context" /\ UNCHANGED EngineVars
  BY DEF ReadMainContext, Step
<1>1. \/ "main" \in tids /\ vStep' = "sites" /\ vCtx' = at
      \/ "main" \notin tids /\ vStep' = "classify" /\ vCtx' = vCtx
  BY DEF ReadMainContext, Step
<1>2. at \in been /\ been \subseteq Places
  BY DEF ReportInv, TypeOK, HistoryTypeOK, Places
<1>3. VerdictTypeOK'
  BY <1>0, <1>1, <1>2 DEF ReportInv, TypeOK, VerdictTypeOK, Places, EngineVars, Intact
<1>4. ObsInv'
  BY <1>0, <1>1, <1>2
     DEF ReportInv, ObsInv, Chained, Spun, Smped, Sited, EngineVars, Classify, ChainGone, Intact
<1>5. ObsTrue'
  BY <1>0, <1>1 DEF ReportInv, ObsTrue, Chained, Spun, Smped, Sited, Joined, EngineVars
<1> QED BY <1>3, <1>4, <1>5

\* The steps of Observe, one field or group of fields each.
LEMMA SitesStep ==
    ASSUME ReportInv, DetectSites, UNCHANGED EngineVars
    PROVE  VerdictTypeOK' /\ ObsInv' /\ ObsTrue'
<1>o. obs \in Observed BY ObservedType DEF ReportInv, TypeOK
<1>0. PICK R \in SeenReturns(vCtx, at) :
        obs' = [obs EXCEPT !.inSiteA = InSiteA(R), !.inSiteB = InSiteB(R)]
  BY DEF DetectSites
<1>1. /\ vStep = "sites" /\ vStep' = "chain" /\ UNCHANGED <<vCtx, class, confidence>>
      /\ UNCHANGED EngineVars
  BY DEF DetectSites, Step
<1>2. InSiteA(R) \in BOOLEAN /\ InSiteB(R) \in BOOLEAN BY Zenon DEF InSiteA, InSiteB
<1>3. /\ obs' \in Observed
      /\ obs'.chainWalked = obs.chainWalked /\ obs'.spinnerSeen = obs.spinnerSeen
      /\ obs'.ownedByMain = obs.ownedByMain /\ obs'.chainCut = obs.chainCut
      /\ obs'.workersInside = obs.workersInside
      /\ obs'.renderInSiteA = obs.renderInSiteA
  <2>1. [obs EXCEPT !.inSiteA = InSiteA(R)] \in Observed BY <1>o, <1>2 DEF Observed
  <2> QED BY <1>o, <1>0, <1>2 DEF Observed
<1>4. obs'.inSiteA = InSiteA(R) /\ obs'.inSiteB = InSiteB(R)
  BY <1>o, <1>0, Zenon DEF Observed
<1>5. vCtx \in been \cup {"none"} /\ at \in been /\ been \subseteq Places /\ "main" \in tids
  BY <1>1 DEF ReportInv, TypeOK, HistoryTypeOK, ObsInv, Places
<1>6. VerdictTypeOK' BY <1>1, <1>3 DEF ReportInv, TypeOK, VerdictTypeOK, Observed, Intact
<1>7. ObsInv'
  <2>1. obs'.inSiteA => se1597 /\ (vCtx = "lockA" \/ "A" \in R)
    BY <1>4, Zenon DEF InSiteA
  <2>2. obs'.inSiteB => vCtx = "thunkB" \/ "B" \in R BY <1>4, Zenon DEF InSiteB
  <2>3. leftover = {} /\ obs'.inSiteA => been \cap {"lockA", "waitA"} # {}
    BY <1>0, <1>5, <2>1, VisitedReturns
  <2>4. leftover = {} /\ obs'.inSiteB => been \cap {"thunkB", "waitB"} # {}
    BY <1>0, <1>5, <2>2, VisitedReturns
  <2>5. ~se1597 => ~obs'.inSiteA BY <2>1
  <2> QED
    BY <1>1, <1>3, <1>5, <2>3, <2>4, <2>5
       DEF ReportInv, ObsInv, Chained, Spun, Smped, Sited, EngineVars
<1>8. ObsTrue'
  <2> SUFFICES ASSUME Plain PROVE ObsTrue'
    BY <1>1 DEF ObsTrue, Plain, Clean, Quiet, EngineVars
  <2>1. vCtx = at /\ R = Returns(at)
    BY <1>0, <1>1, <1>5, TrueReturns DEF ReportInv, ObsTrue, Plain, Clean
  <2>2. /\ "A" \in R <=> at = "waitA"
        /\ "B" \in R <=> AtB
    BY <1>5, <2>1 DEF Returns, AtB, Places
  <2>3. InSiteA(R) <=> se1597 /\ AtA BY <2>1, <2>2 DEF InSiteA, AtA
  <2>4. InSiteB(R) <=> AtBnamed BY <2>1, <2>2 DEF InSiteB, AtBnamed, AtB
  <2>5. /\ obs'.inSiteA <=> se1597 /\ AtA
        /\ obs'.inSiteB <=> AtBnamed
    BY <1>4, <2>3, <2>4, Zenon
  <2>6. UNCHANGED <<AtA, AtBnamed>> /\ vCtx' = at'
    BY <1>1, <2>1 DEF AtA, AtB, AtBnamed, EngineVars
  <2> QED
    BY <1>1, <2>5, <2>6 DEF ObsTrue, Chained, Spun, Smped, Sited, Joined, EngineVars
<1> QED BY <1>6, <1>7, <1>8
LEMMA ChainStep ==
    ASSUME ReportInv, WalkChain, UNCHANGED EngineVars
    PROVE  VerdictTypeOK' /\ ObsInv' /\ ObsTrue'
<1>o. obs \in Observed BY ObservedType DEF ReportInv, TypeOK
<1>1. /\ vStep = "chain" /\ UNCHANGED <<vCtx, class, confidence>> /\ UNCHANGED EngineVars
      /\ vStep' = IF WalksChain THEN "stable" ELSE "hdtsmp"
  BY DEF WalkChain, Step
<1>2. cut \in 0..Intact /\ pointers \in {0, 1} /\ "main" \in tids /\ cut \in cuts
  BY <1>1 DEF ReportInv, TypeOK, FreezeSitesTypeOK, HistoryTypeOK, ObsInv
<1>3. CASE WalksChain
  <2>0. obs' = [obs EXCEPT !.chainWalked = TRUE, !.chainCut = cut, !.chainPointers = pointers]
    BY <1>3 DEF WalkChain
  <2>1. /\ obs' \in Observed
        /\ obs'.spinnerSeen = obs.spinnerSeen /\ obs'.ownedByMain = obs.ownedByMain
        /\ obs'.inSiteA = obs.inSiteA /\ obs'.inSiteB = obs.inSiteB
        /\ obs'.workersInside = obs.workersInside
        /\ obs'.renderInSiteA = obs.renderInSiteA
    <3>1. [obs EXCEPT !.chainWalked = TRUE, !.chainCut = cut] \in Observed
      BY <1>o, <1>2 DEF Observed
    <3> QED BY <1>o, <1>2, <2>0, <3>1 DEF Observed
  <2>2. obs'.chainWalked /\ obs'.chainCut = cut BY <1>o, <2>0, Zenon DEF Observed
  <2>3. VerdictTypeOK'
    BY <1>1, <1>3, <2>1 DEF ReportInv, TypeOK, VerdictTypeOK, Observed, Intact
  <2>4. ObsInv'
    BY <1>1, <1>2, <1>3, <2>1, <2>2
       DEF ReportInv, ObsInv, Chained, Spun, Smped, Sited, EngineVars, WalksChain
  <2>5. ObsTrue'
    <3> SUFFICES ASSUME Plain PROVE ObsTrue'
      BY <1>1 DEF ObsTrue, Plain, Clean, Quiet, EngineVars
    <3>1. /\ vCtx = at
          /\ obs.inSiteA <=> se1597 /\ AtA
          /\ obs.inSiteB <=> AtBnamed
      BY <1>1, <1>2 DEF ReportInv, ObsTrue, Sited, Chained
    <3>2. UNCHANGED <<AtA, AtBnamed>> /\ vCtx' = at'
      BY <1>1, <3>1 DEF AtA, AtB, AtBnamed, EngineVars
    <3>3. /\ obs'.inSiteA <=> (se1597 /\ AtA)'
          /\ obs'.inSiteB <=> AtBnamed'
          /\ obs'.chainWalked <=> obs'.inSiteB /\ "siteB" \in anchors'
      BY <1>1, <1>3, <2>1, <2>2, <3>1, <3>2 DEF WalksChain, EngineVars
    <3>4. obs'.chainCut = cut' /\ vStep' = "stable"
      BY <1>1, <1>3, <2>2 DEF EngineVars
    <3> QED
      BY <1>1, <3>2, <3>3, <3>4 DEF ObsTrue, Chained, Spun, Smped, Sited, Joined, EngineVars
  <2> QED BY <2>3, <2>4, <2>5
<1>4. CASE ~WalksChain
  <2>0. obs' = obs /\ vStep' = "hdtsmp" BY <1>1, <1>4 DEF WalkChain
  <2>3. VerdictTypeOK' BY <1>1, <2>0 DEF ReportInv, TypeOK, VerdictTypeOK, Intact
  <2>4. ObsInv'
    BY <1>1, <1>2, <2>0 DEF ReportInv, ObsInv, Chained, Spun, Smped, Sited, EngineVars
  <2>5. ObsTrue'
    <3> SUFFICES ASSUME Plain PROVE ObsTrue'
      BY <1>1 DEF ObsTrue, Plain, Clean, Quiet, EngineVars
    <3>1. /\ vCtx = at
          /\ obs.inSiteA <=> se1597 /\ AtA
          /\ obs.inSiteB <=> AtBnamed
          /\ ~obs.chainWalked
      BY <1>1, <1>2 DEF ReportInv, ObsInv, ObsTrue, Sited, Chained
    <3>2. UNCHANGED <<AtA, AtBnamed>> /\ vCtx' = at'
      BY <1>1, <3>1 DEF AtA, AtB, AtBnamed, EngineVars
    <3> QED
      BY <1>1, <1>4, <2>0, <3>1, <3>2
         DEF ObsTrue, Chained, Spun, Smped, Sited, Joined, EngineVars, WalksChain
  <2> QED BY <2>3, <2>4, <2>5
<1> QED BY <1>3, <1>4

LEMMA StableStep ==
    ASSUME ReportInv, ChainStable, UNCHANGED EngineVars
    PROVE  VerdictTypeOK' /\ ObsInv' /\ ObsTrue'
<1>o. obs \in Observed BY ObservedType DEF ReportInv, TypeOK
<1>1. /\ vStep = "stable" /\ vStep' = "hdtsmp" /\ UNCHANGED <<vCtx, class, confidence>>
      /\ UNCHANGED EngineVars /\ obs' = [obs EXCEPT !.chainStable = SameChain]
  BY DEF ChainStable, Step
<1>2. SameChain \in BOOLEAN BY Zenon DEF SameChain
<1>3. /\ obs' \in Observed
      /\ obs'.spinnerSeen = obs.spinnerSeen /\ obs'.ownedByMain = obs.ownedByMain
      /\ obs'.inSiteA = obs.inSiteA /\ obs'.inSiteB = obs.inSiteB
      /\ obs'.chainWalked = obs.chainWalked /\ obs'.chainCut = obs.chainCut
      /\ obs'.workersInside = obs.workersInside
      /\ obs'.renderInSiteA = obs.renderInSiteA
  BY <1>o, <1>1, <1>2 DEF Observed
<1>4. "main" \in tids BY <1>1 DEF ReportInv, ObsInv
<1>5. VerdictTypeOK' BY <1>1, <1>3 DEF ReportInv, TypeOK, VerdictTypeOK, Observed, Intact
<1>6. ObsInv'
  BY <1>1, <1>3, <1>4 DEF ReportInv, ObsInv, Chained, Spun, Smped, Sited, EngineVars
<1>7. ObsTrue'
  <2> SUFFICES ASSUME Plain PROVE ObsTrue'
    BY <1>1 DEF ObsTrue, Plain, Clean, Quiet, EngineVars
  <2>1. /\ vCtx = at
        /\ obs.inSiteA <=> se1597 /\ AtA
        /\ obs.inSiteB <=> AtBnamed
        /\ obs.chainWalked <=> obs.inSiteB /\ "siteB" \in anchors
        /\ obs.chainWalked => obs.chainCut = cut
    BY <1>1, <1>4 DEF ReportInv, ObsTrue, Sited, Chained
  <2>2. UNCHANGED <<AtA, AtBnamed>> /\ vCtx' = at'
    BY <1>1, <2>1 DEF AtA, AtB, AtBnamed, EngineVars
  <2> QED
    BY <1>1, <1>3, <2>1, <2>2 DEF ObsTrue, Chained, Spun, Smped, Sited, Joined, EngineVars
<1> QED BY <1>5, <1>6, <1>7

LEMMA HdtsmpStep ==
    ASSUME ReportInv, CountWorkersInHdtsmp, UNCHANGED EngineVars
    PROVE  VerdictTypeOK' /\ ObsInv' /\ ObsTrue'
<1> DEFINE On     == smp.loaded /\ smp.onStack
           Inside == IF smp.loaded THEN smp.inside ELSE 0
<1>o. obs \in Observed BY ObservedType DEF ReportInv, TypeOK
<1>1. /\ vStep = "hdtsmp" /\ vStep' = "spin" /\ UNCHANGED <<vCtx, class, confidence>>
      /\ UNCHANGED EngineVars
      /\ obs' = [obs EXCEPT !.hdtsmpOnMainStack = On, !.workersInside = Inside]
  BY DEF CountWorkersInHdtsmp, Step
<1>2. On \in BOOLEAN /\ Inside \in 0..MaxInside /\ (Inside >= 1 => smp.inside >= 1)
  BY FreezeSitesAssumption DEF ReportInv, TypeOK, FreezeSitesTypeOK, Smp
<1> HIDE DEF On, Inside
<1>3. /\ obs' \in Observed
      /\ obs'.spinnerSeen = obs.spinnerSeen /\ obs'.ownedByMain = obs.ownedByMain
      /\ obs'.inSiteA = obs.inSiteA /\ obs'.inSiteB = obs.inSiteB
      /\ obs'.chainWalked = obs.chainWalked /\ obs'.chainCut = obs.chainCut
      /\ obs'.workersInside = Inside /\ obs'.renderInSiteA = obs.renderInSiteA
  <2>1. [obs EXCEPT !.hdtsmpOnMainStack = On] \in Observed BY <1>o, <1>2 DEF Observed
  <2> QED BY <1>o, <1>1, <1>2, <2>1 DEF Observed
<1>8. obs'.hdtsmpOnMainStack = On BY <1>o, <1>1, Zenon DEF Observed
<1>4. "main" \in tids BY <1>1 DEF ReportInv, ObsInv
<1>5. VerdictTypeOK' BY <1>1, <1>3 DEF ReportInv, TypeOK, VerdictTypeOK, Observed, Intact
<1>6. ObsInv'
  BY <1>1, <1>2, <1>3, <1>4 DEF ReportInv, ObsInv, Chained, Spun, Smped, Sited, EngineVars
<1>7. ObsTrue'
  <2> SUFFICES ASSUME Plain PROVE ObsTrue'
    BY <1>1 DEF ObsTrue, Plain, Clean, Quiet, EngineVars
  <2>1. /\ vCtx = at
        /\ obs.inSiteA <=> se1597 /\ AtA
        /\ obs.inSiteB <=> AtBnamed
        /\ obs.chainWalked <=> obs.inSiteB /\ "siteB" \in anchors
        /\ obs.chainWalked => obs.chainCut = cut
    BY <1>1, <1>4 DEF ReportInv, ObsTrue, Sited, Chained
  <2>2. UNCHANGED <<AtA, AtBnamed>> /\ vCtx' = at'
    BY <1>1, <2>1 DEF AtA, AtB, AtBnamed, EngineVars
  <2>3. /\ obs'.hdtsmpOnMainStack <=> (smp.loaded /\ smp.onStack)'
        /\ obs'.workersInside = (IF smp.loaded THEN smp.inside ELSE 0)'
    BY <1>1, <1>3, <1>8 DEF On, Inside, EngineVars
  <2> QED
    BY <1>1, <1>3, <2>1, <2>2, <2>3
       DEF ObsTrue, Chained, Spun, Smped, Sited, Joined, EngineVars
<1> QED BY <1>5, <1>6, <1>7

LEMMA SpinStep ==
    ASSUME ReportInv, ScanSpinlocks, UNCHANGED EngineVars
    PROVE  VerdictTypeOK' /\ ObsInv' /\ ObsTrue'
<1>o. obs \in Observed BY ObservedType DEF ReportInv, TypeOK
<1>0. PICK seen \in BOOLEAN, owned \in BOOLEAN :
        /\ seen => se1597 /\ (spin # "none" \/ stray)
        /\ owned => seen /\ (spin = "main" \/ stray)
        /\ obs' = [obs EXCEPT !.spinnerSeen = seen, !.ownedByMain = owned]
  BY Zenon DEF ScanSpinlocks
<1>1. /\ vStep = "spin" /\ vStep' = "render" /\ UNCHANGED <<vCtx, class, confidence>>
      /\ UNCHANGED EngineVars
  BY DEF ScanSpinlocks, Step
<1>2. spin \in spun BY DEF ReportInv, TypeOK, HistoryTypeOK
<1>3. /\ obs' \in Observed
      /\ obs'.inSiteA = obs.inSiteA /\ obs'.inSiteB = obs.inSiteB
      /\ obs'.chainWalked = obs.chainWalked /\ obs'.chainCut = obs.chainCut
      /\ obs'.workersInside = obs.workersInside
      /\ obs'.hdtsmpOnMainStack = obs.hdtsmpOnMainStack
      /\ obs'.renderInSiteA = obs.renderInSiteA
  <2>1. [obs EXCEPT !.spinnerSeen = seen] \in Observed BY <1>o DEF Observed
  <2> QED BY <1>o, <1>0, <2>1 DEF Observed
<1>4. "main" \in tids BY <1>1 DEF ReportInv, ObsInv
<1>8. obs'.spinnerSeen = seen /\ obs'.ownedByMain = owned
  BY <1>o, <1>0, Zenon DEF Observed
<1>9. /\ obs'.ownedByMain => obs'.spinnerSeen
      /\ ~se1597 => ~obs'.spinnerSeen
      /\ ~stray => /\ obs'.spinnerSeen => spin # "none"
                   /\ obs'.ownedByMain => spin = "main"
  BY <1>0, <1>8, Zenon
<1>5. VerdictTypeOK' BY <1>1, <1>3 DEF ReportInv, TypeOK, VerdictTypeOK, Observed, Intact
<1>6. ObsInv'
  <2>1. ~stray => /\ obs'.spinnerSeen => spun \ {"none"} # {}
                  /\ obs'.ownedByMain => "main" \in spun
    BY <1>2, <1>9
  <2> QED
    BY <1>1, <1>3, <1>4, <1>9, <2>1
       DEF ReportInv, ObsInv, Chained, Spun, Smped, Sited, EngineVars
<1>7. ObsTrue'
  <2> SUFFICES ASSUME Plain PROVE ObsTrue'
    BY <1>1 DEF ObsTrue, Plain, Clean, Quiet, EngineVars
  <2>1. /\ vCtx = at
        /\ obs.inSiteA <=> se1597 /\ AtA
        /\ obs.inSiteB <=> AtBnamed
        /\ obs.chainWalked <=> obs.inSiteB /\ "siteB" \in anchors
        /\ obs.chainWalked => obs.chainCut = cut
        /\ obs.hdtsmpOnMainStack <=> smp.loaded /\ smp.onStack
        /\ obs.workersInside = IF smp.loaded THEN smp.inside ELSE 0
    BY <1>1, <1>4 DEF ReportInv, ObsTrue, Sited, Chained, Smped
  <2>2. UNCHANGED <<AtA, AtBnamed>> /\ vCtx' = at'
    BY <1>1, <2>1 DEF AtA, AtB, AtBnamed, EngineVars
  <2> QED
    BY <1>1, <1>3, <2>1, <2>2
       DEF ObsTrue, Chained, Spun, Smped, Sited, Joined, EngineVars
<1> QED BY <1>5, <1>6, <1>7

LEMMA RenderStep ==
    ASSUME ReportInv, ProbeRenderSiteA, UNCHANGED EngineVars
    PROVE  VerdictTypeOK' /\ ObsInv' /\ ObsTrue'
<1> DEFINE In == "render" \in anchors /\ "render" \in tids /\ join
<1>o. obs \in Observed BY ObservedType DEF ReportInv, TypeOK
<1>1. /\ vStep = "render" /\ vStep' = "classify" /\ UNCHANGED <<vCtx, class, confidence>>
      /\ UNCHANGED EngineVars /\ obs' = [obs EXCEPT !.renderInSiteA = In]
  BY DEF ProbeRenderSiteA, Step
<1>9. join \in BOOLEAN /\ (join => joined)
  BY DEF ReportInv, TypeOK, FreezeSitesTypeOK, HistoryTypeOK
<1>2. In \in BOOLEAN
  <2>1. join \in BOOLEAN BY DEF ReportInv, TypeOK, FreezeSitesTypeOK
  <2> QED BY <2>1, Zenon
<1>3. /\ obs' \in Observed
      /\ obs'.inSiteA = obs.inSiteA /\ obs'.inSiteB = obs.inSiteB
      /\ obs'.chainWalked = obs.chainWalked /\ obs'.chainCut = obs.chainCut
      /\ obs'.workersInside = obs.workersInside
      /\ obs'.hdtsmpOnMainStack = obs.hdtsmpOnMainStack
      /\ obs'.spinnerSeen = obs.spinnerSeen /\ obs'.ownedByMain = obs.ownedByMain
  <2> HIDE DEF In
  <2> QED BY <1>o, <1>1, <1>2 DEF Observed
<1>8. obs'.renderInSiteA = In BY <1>o, <1>1, Zenon DEF Observed
<1>4. "main" \in tids BY <1>1 DEF ReportInv, ObsInv
<1>5. VerdictTypeOK' BY <1>1, <1>3 DEF ReportInv, TypeOK, VerdictTypeOK, Observed, Intact
<1>6. ObsInv'
  <2>1. obs'.renderInSiteA => joined BY <1>8, <1>9, Zenon
  <2> QED
    BY <1>1, <1>3, <1>4, <2>1
       DEF ReportInv, ObsInv, Chained, Spun, Smped, Sited, EngineVars
<1>7. ObsTrue'
  <2> SUFFICES ASSUME Plain PROVE ObsTrue'
    BY <1>1 DEF ObsTrue, Plain, Clean, Quiet, EngineVars
  <2>1. /\ vCtx = at
        /\ obs.inSiteA <=> se1597 /\ AtA
        /\ obs.inSiteB <=> AtBnamed
        /\ obs.chainWalked <=> obs.inSiteB /\ "siteB" \in anchors
        /\ obs.chainWalked => obs.chainCut = cut
        /\ obs.hdtsmpOnMainStack <=> smp.loaded /\ smp.onStack
        /\ obs.workersInside = IF smp.loaded THEN smp.inside ELSE 0
    BY <1>1, <1>4 DEF ReportInv, ObsTrue, Sited, Chained, Smped, Spun
  <2>2. UNCHANGED <<AtA, AtBnamed>> /\ vCtx' = at'
    BY <1>1, <2>1 DEF AtA, AtB, AtBnamed, EngineVars
  <2>3. obs'.renderInSiteA <=> ({"render"} \subseteq anchors \cap tids /\ join)'
    <3>1. UNCHANGED <<anchors, tids, join>> BY <1>1 DEF EngineVars
    <3>2. In <=> {"render"} \subseteq anchors \cap tids /\ join BY Zenon
    <3> QED BY <1>8, <3>1, <3>2, Zenon
  <2> QED
    BY <1>1, <1>3, <2>1, <2>2, <2>3
       DEF ObsTrue, Chained, Spun, Smped, Sited, Joined, EngineVars
<1> QED BY <1>5, <1>6, <1>7

\* What Classify can answer.
LEMMA ClassifyType ==
    ASSUME NEW o
    PROVE  Classify(o)[1] \in Classes /\ Classify(o)[2] \in {"low", "medium", "high"}
  BY DEF Classify, Classes

LEMMA WriteStep ==
    ASSUME ReportInv, WriteVerdict, UNCHANGED EngineVars
    PROVE  VerdictTypeOK' /\ ObsInv' /\ ObsTrue'
<1>1. /\ vStep = "classify" /\ vStep' = "done" /\ UNCHANGED <<vCtx, obs>>
      /\ UNCHANGED EngineVars
      /\ class' = Classify(obs)[1] /\ confidence' = Classify(obs)[2]
  BY DEF WriteVerdict
<1>2. class' \in Classes /\ confidence' \in {"low", "medium", "high"}
  BY <1>1, ClassifyType
<1>3. class' # "none" BY <1>2 DEF Classes
<1>4. Classify(obs)' = Classify(obs) BY <1>1 DEF Classify, ChainGone
<1>5. VerdictTypeOK'
  BY <1>1, <1>2 DEF ReportInv, TypeOK, VerdictTypeOK, Intact
<1>6. ObsInv'
  BY <1>1, <1>3, <1>4 DEF ReportInv, ObsInv, Chained, Spun, Smped, Sited, EngineVars
<1>7. ObsTrue'
  <2> SUFFICES ASSUME Plain PROVE ObsTrue'
    BY <1>1 DEF ObsTrue, Plain, Clean, Quiet, EngineVars
  <2>2. UNCHANGED <<AtA, AtBnamed>> BY <1>1 DEF AtA, AtB, AtBnamed, EngineVars
  <2> QED
    BY <1>1, <2>2
       DEF ReportInv, ObsTrue, Plain, Clean, Quiet, Chained, Spun, Smped, Sited, Joined, EngineVars
<1> QED BY <1>5, <1>6, <1>7

\* Any step of the classification.
LEMMA VerdictKeeps ==
    ASSUME ReportInv, VerdictStep, UNCHANGED <<engine, auditVars, history>>
    PROVE  ReportInv'
<1>1. UNCHANGED EngineVars BY DEF engine, build, history, EngineVars
<1>2. VerdictTypeOK' /\ ObsInv' /\ ObsTrue'
  BY <1>1, ContextStep, SitesStep, ChainStep, StableStep, HdtsmpStep, SpinStep, RenderStep,
     WriteStep DEF VerdictStep
<1>3. AuditInv' /\ AuditTrue' BY AuditUntouched DEF ReportInv
<1>4. TypeOK'
  BY <1>2, TypesUntouched, Zenon DEF ReportInv, TypeOK
<1> QED BY <1>2, <1>3, <1>4 DEF ReportInv
-----------------------------------------------------------------------------
(***************************************************************************)
(* The steps of the audit.                                                 *)
(***************************************************************************)
\* One lemma per step, for the variables of the audit.
LEMMA AnchorsStep ==
    ASSUME ReportInv, CheckAnchors, UNCHANGED EngineVars
    PROVE  AuditTypeOK' /\ AuditInv' /\ AuditTrue'
<1>1. /\ aStep = "anchors" /\ UNCHANGED <<aCtx, inSites, evState, fields, bChain, rendered>>
      /\ UNCHANGED EngineVars
      /\ \/ /\ anchors \cap {"siteA", "siteB", "spin"} = {}
            /\ aStep' = "done" /\ outcome' = "unavailable"
         \/ aStep' = "context" /\ outcome' = outcome
  BY DEF CheckAnchors, Goto
<1>2. AuditTypeOK' BY <1>1 DEF ReportInv, TypeOK, AuditTypeOK
<1>3. AuditInv'
  BY <1>1 DEF ReportInv, AuditInv, EngineVars, Matches, Looked, Queried, HasFields
<1>4. AuditTrue' BY <1>1 DEF ReportInv, AuditTrue, EngineVars, Looked, Queried, HasFields
<1> QED BY <1>2, <1>3, <1>4

\* The steps of the audit.
LEMMA MainContextStep ==
    ASSUME ReportInv, AuditMainContext, UNCHANGED EngineVars
    PROVE  AuditTypeOK' /\ AuditInv' /\ AuditTrue'
<1>1. /\ aStep = "context" /\ UNCHANGED <<inSites, evState, fields, bChain, rendered>>
      /\ UNCHANGED EngineVars
      /\ \/ "main" \in tids /\ aStep' = "sites" /\ aCtx' = at /\ outcome' = outcome
         \/ /\ "main" \notin tids /\ aStep' = "done" /\ aCtx' = aCtx
            /\ outcome' = "unavailable"
  BY DEF AuditMainContext, Goto
<1>2. at \in been /\ at \in Places /\ fields = -1
  BY <1>1 DEF ReportInv, TypeOK, HistoryTypeOK, Places, AuditInv, Looked, Queried, HasFields
<1>3. AuditTypeOK' BY <1>1, <1>2 DEF ReportInv, TypeOK, AuditTypeOK, Places
<1>4. AuditInv'
  BY <1>1, <1>2 DEF ReportInv, AuditInv, EngineVars, Matches, Looked, Queried, HasFields
<1>5. AuditTrue' BY <1>1 DEF ReportInv, AuditTrue, EngineVars, Looked, Queried, HasFields
<1> QED BY <1>3, <1>4, <1>5

LEMMA AuditSitesStep ==
    ASSUME ReportInv, AuditSites, UNCHANGED EngineVars
    PROVE  AuditTypeOK' /\ AuditInv' /\ AuditTrue'
<1>0. PICK R \in SeenReturns(aCtx, at) :
        inSites' = {s \in {"A", "B"} : IF s = "A" THEN SiteAHit(R) ELSE SiteBHit(R)}
  BY DEF AuditSites
<1>1. /\ aStep = "sites" /\ aStep' = "handle" /\ UNCHANGED EngineVars
      /\ UNCHANGED <<aCtx, evState, fields, bChain, outcome, rendered>>
  BY DEF AuditSites, Goto
<1>2. /\ inSites' \subseteq {"A", "B"}
      /\ "A" \in inSites' <=> "siteA" \in anchors /\ (aCtx = "lockA" \/ "A" \in R)
      /\ "B" \in inSites' <=> /\ "siteB" \in anchors
                              /\ aCtx = "thunkB" \/ ("siteA" \in anchors /\ "B" \in R)
  BY <1>0 DEF SiteAHit, SiteBHit
<1>3. aCtx \in been \cup {"none"} /\ at \in been /\ been \subseteq Places /\ outcome = "none"
  BY <1>1 DEF ReportInv, TypeOK, HistoryTypeOK, AuditInv, Places
<1>4. AuditTypeOK' BY <1>1, <1>2 DEF ReportInv, TypeOK, AuditTypeOK
<1>5. AuditInv'
  <2>1. leftover = {} /\ "A" \in inSites' => been \cap {"lockA", "waitA"} # {}
    BY <1>0, <1>2, <1>3, VisitedReturns
  <2>2. leftover = {} /\ "B" \in inSites' => been \cap {"thunkB", "waitB"} # {}
    BY <1>0, <1>2, <1>3, VisitedReturns
  <2> QED
    BY <1>1, <1>3, <2>1, <2>2
       DEF ReportInv, AuditInv, EngineVars, Matches, Looked, Queried, HasFields
<1>6. AuditTrue'
  <2>1. Plain => /\ "A" \in inSites' <=> "siteA" \in anchors /\ AtA
                 /\ "B" \in inSites' <=> /\ "siteB" \in anchors
                                         /\ at = "thunkB" \/ ("siteA" \in anchors /\ AtB)
    <3> SUFFICES ASSUME Plain
                 PROVE  /\ "A" \in inSites' <=> "siteA" \in anchors /\ AtA
                        /\ "B" \in inSites' <=> /\ "siteB" \in anchors
                                                /\ at = "thunkB" \/ ("siteA" \in anchors /\ AtB)
      OBVIOUS
    <3>1. aCtx = at /\ R = Returns(at)
      BY <1>0, <1>1, <1>3, TrueReturns DEF ReportInv, AuditTrue, Plain, Clean
    <3>2. /\ "A" \in R <=> at = "waitA"
          /\ "B" \in R <=> AtB
      BY <1>3, <3>1 DEF Returns, AtB, Places
    <3> QED BY <1>2, <3>1, <3>2 DEF AtA, AtB
  <2>2. UNCHANGED <<AtA, AtB, Plain, Quiet>>
    BY <1>1 DEF AtA, AtB, Plain, Clean, Quiet, EngineVars
  <2> QED
    BY <1>1, <2>1, <2>2 DEF ReportInv, AuditTrue, EngineVars, Looked, Queried, HasFields
<1> QED BY <1>4, <1>5, <1>6

LEMMA RbxStep ==
    ASSUME ReportInv, ProbeRbx, UNCHANGED EngineVars
    PROVE  AuditTypeOK' /\ AuditInv' /\ AuditTrue'
<1>1. /\ aStep = "handle" /\ aStep' = "fields" /\ UNCHANGED EngineVars
      /\ UNCHANGED <<aCtx, inSites, fields, bChain, outcome, rendered>>
  BY DEF ProbeRbx, Goto
<1>2. /\ evState' \in {-1, 0, 1}
      /\ aCtx = "waitA" => evState' = IF ack THEN 1 ELSE 0
  BY DEF ProbeRbx
<1>3. outcome = "none" /\ fields = -1
  BY <1>1 DEF ReportInv, AuditInv, Looked, Queried, HasFields
<1>4. AuditTypeOK' BY <1>1, <1>2 DEF ReportInv, TypeOK, AuditTypeOK
<1>5. AuditInv'
  BY <1>1, <1>3 DEF ReportInv, AuditInv, EngineVars, Matches, Looked, Queried, HasFields
<1>6. AuditTrue'
  <2>1. UNCHANGED <<AtA, AtB, Plain, Quiet>>
    BY <1>1 DEF AtA, AtB, Plain, Clean, Quiet, EngineVars
  <2> QED
    BY <1>1, <1>2, <2>1 DEF ReportInv, AuditTrue, EngineVars, Looked, Queried, HasFields
<1> QED BY <1>4, <1>5, <1>6

LEMMA FieldsStep ==
    ASSUME ReportInv, ReadFields, UNCHANGED EngineVars
    PROVE  AuditTypeOK' /\ AuditInv' /\ AuditTrue'
<1>1. /\ aStep = "fields" /\ aStep' = "chain" /\ UNCHANGED EngineVars
      /\ UNCHANGED <<aCtx, inSites, evState, bChain, outcome, rendered>>
  BY DEF ReadFields, Goto
<1>2. pending = (IF at \in {"lockA", "waitA"} THEN 1 ELSE 0)
  BY DEF ReportInv, TypeOK, FreezeSitesTypeOK
<1>3. outcome = "none" /\ fields = -1
  BY <1>1 DEF ReportInv, AuditInv, Looked, Queried, HasFields
<1>4. /\ fields' \in {-1, 0, 1}
      /\ fields' # -1 => aCtx = "waitA"
      /\ at = "waitA" => fields' \in {-1, 1}
  BY <1>2, <1>3 DEF ReadFields
<1>5. AuditTypeOK' BY <1>1, <1>4 DEF ReportInv, TypeOK, AuditTypeOK
<1>6. AuditInv'
  BY <1>1, <1>3, <1>4 DEF ReportInv, AuditInv, EngineVars, Matches, Looked, Queried, HasFields
<1>7. AuditTrue'
  <2>1. UNCHANGED <<AtA, AtB, Plain, Quiet>>
    BY <1>1 DEF AtA, AtB, Plain, Clean, Quiet, EngineVars
  <2> QED
    BY <1>1, <1>4, <2>1 DEF ReportInv, AuditTrue, EngineVars, Looked, Queried, HasFields
<1> QED BY <1>5, <1>6, <1>7

LEMMA AuditChainStep ==
    ASSUME ReportInv, AuditChain, UNCHANGED EngineVars
    PROVE  AuditTypeOK' /\ AuditInv' /\ AuditTrue'
<1>1. /\ aStep = "chain" /\ aStep' = "verdict" /\ UNCHANGED EngineVars
      /\ UNCHANGED <<aCtx, inSites, evState, fields, outcome, rendered>>
  BY DEF AuditChain, Goto
<1>2. bChain' \in {"skipped", "broken", "confirmed", "other"} BY DEF AuditChain
<1>3. AuditTypeOK' BY <1>1, <1>2 DEF ReportInv, TypeOK, AuditTypeOK
<1>4. AuditInv'
  BY <1>1 DEF ReportInv, AuditInv, EngineVars, Matches, Looked, Queried, HasFields
<1>5. AuditTrue'
  <2>1. UNCHANGED <<AtA, AtB, Plain, Quiet>>
    BY <1>1 DEF AtA, AtB, Plain, Clean, Quiet, EngineVars
  <2> QED BY <1>1, <2>1 DEF ReportInv, AuditTrue, EngineVars, Looked, Queried, HasFields
<1> QED BY <1>3, <1>4, <1>5

LEMMA AuditVerdictStep ==
    ASSUME ReportInv, AuditVerdict, UNCHANGED EngineVars
    PROVE  AuditTypeOK' /\ AuditInv' /\ AuditTrue'
<1>1. /\ aStep = "verdict" /\ aStep' = "render" /\ UNCHANGED EngineVars
      /\ UNCHANGED <<aCtx, inSites, evState, fields, bChain, rendered>>
  BY DEF AuditVerdict, Goto
<1>2. /\ outcome' \in {"match", "imminent", "siteB", "silent", "unrecognised"}
      /\ outcome' \in {"match", "imminent"} => fields = 1
      /\ outcome' = "match" <=> Matches
  BY DEF AuditVerdict, Matches
<1>3. outcome = "none" BY <1>1 DEF ReportInv, AuditInv
<1>4. AuditTypeOK' BY <1>1, <1>2 DEF ReportInv, TypeOK, AuditTypeOK
<1>5. AuditInv'
  BY <1>1, <1>2 DEF ReportInv, AuditInv, EngineVars, Matches, Looked, Queried, HasFields
<1>6. AuditTrue'
  <2>1. UNCHANGED <<AtA, AtB, Plain, Quiet>>
    BY <1>1 DEF AtA, AtB, Plain, Clean, Quiet, EngineVars
  <2> QED
    BY <1>1, <1>3, <2>1 DEF ReportInv, AuditTrue, EngineVars, Looked, Queried, HasFields
<1> QED BY <1>4, <1>5, <1>6

LEMMA AuditRenderStep ==
    ASSUME ReportInv, WriteRenderSiteA, UNCHANGED EngineVars
    PROVE  AuditTypeOK' /\ AuditInv' /\ AuditTrue'
<1>1. /\ aStep = "render" /\ aStep' = "done" /\ UNCHANGED EngineVars
      /\ UNCHANGED <<aCtx, inSites, evState, fields, bChain, outcome>>
  BY DEF WriteRenderSiteA, Goto
<1>2. rendered' \in {"disabled", "unknown", "elsewhere", "fieldsOnly", "parked", "notSignaled"}
  BY DEF WriteRenderSiteA
<1>3. AuditTypeOK' BY <1>1, <1>2 DEF ReportInv, TypeOK, AuditTypeOK
<1>4. AuditInv'
  BY <1>1 DEF ReportInv, AuditInv, EngineVars, Matches, Looked, Queried, HasFields
<1>5. AuditTrue'
  <2>1. UNCHANGED <<AtA, AtB, Plain, Quiet>>
    BY <1>1 DEF AtA, AtB, Plain, Clean, Quiet, EngineVars
  <2> QED BY <1>1, <2>1 DEF ReportInv, AuditTrue, EngineVars, Looked, Queried, HasFields
<1> QED BY <1>3, <1>4, <1>5

\* Any step of the audit.
LEMMA AuditKeeps ==
    ASSUME ReportInv, AuditStep, UNCHANGED <<engine, verdictVars, history>>
    PROVE  ReportInv'
<1>1. UNCHANGED EngineVars BY DEF engine, build, history, EngineVars
<1>2. AuditTypeOK' /\ AuditInv' /\ AuditTrue'
  BY <1>1, AnchorsStep, MainContextStep, AuditSitesStep, RbxStep, FieldsStep, AuditChainStep,
     AuditVerdictStep, AuditRenderStep DEF AuditStep
<1>3. ObsInv' /\ ObsTrue' BY ObsUntouched DEF ReportInv
<1>4. TypeOK'
  BY <1>2, TypesUntouched, Zenon DEF ReportInv, TypeOK
<1> QED BY <1>2, <1>3, <1>4 DEF ReportInv

\* The invariant of a report.
LEMMA ReportInvariance == Spec => []ReportInv
<1>1. Init => ReportInv BY InitReport
<1>2. ReportInv /\ [Next]_vars => ReportInv'
  <2> SUFFICES ASSUME ReportInv, [Next]_vars PROVE ReportInv' OBVIOUS
  <2>1. CASE VerdictStep /\ UNCHANGED <<engine, auditVars, history>> BY <2>1, VerdictKeeps
  <2>2. CASE AuditStep /\ UNCHANGED <<engine, verdictVars, history>> BY <2>2, AuditKeeps
  <2>3. CASE EngineMove /\ Remember /\ UNCHANGED <<verdictVars, auditVars>>
    BY <2>3, EngineStep
  <2>4. CASE UNCHANGED vars
    <3>1. UNCHANGED <<engine, verdictVars, auditVars, history>> BY <2>4 DEF vars
    <3>2. ObsInv' /\ ObsTrue' BY <3>1, ObsUntouched DEF ReportInv
    <3>3. AuditInv' /\ AuditTrue' BY <3>1, AuditUntouched DEF ReportInv
    <3>4. TypeOK' BY <3>1, TypesUntouched, Zenon DEF ReportInv, TypeOK
    <3> QED BY <3>2, <3>3, <3>4 DEF ReportInv
  <2> QED BY <2>1, <2>2, <2>3, <2>4 DEF Next
<1> QED BY <1>1, <1>2, PTL DEF Spec
-----------------------------------------------------------------------------
(***************************************************************************)
(* What follows for a finished section.                                    *)
(***************************************************************************)
\* Without main's heartbeat nothing is observed, and no freeze is named.
LEMMA NothingSeen == Classify(NoObservations) = <<"Unrecognised", "low">>
  BY DEF Classify, NoObservations

\* The verdict of a true freeze, in terms of the freeze.
LEMMA TrueVerdict ==
    ASSUME ReportInv, Plain, class # "none"
    PROVE  \/ "main" \notin tids /\ class = "Unrecognised"
           \/ /\ "main" \in tids
              /\ class = Classify(obs)[1] /\ confidence = Classify(obs)[2]
              /\ obs.inSiteA <=> se1597 /\ AtA
              /\ obs.inSiteB <=> AtBnamed
              /\ obs.ownedByMain => obs.spinnerSeen
              /\ obs.renderInSiteA <=> {"render"} \subseteq anchors \cap tids /\ join
<1>1. vStep = "done" /\ class = Classify(obs)[1] /\ confidence = Classify(obs)[2]
  BY DEF ReportInv, ObsInv
<1>2. CASE "main" \notin tids
  BY <1>1, <1>2, NothingSeen DEF ReportInv, ObsInv
<1>3. CASE "main" \in tids
  <2>1. /\ obs.inSiteA <=> se1597 /\ AtA
        /\ obs.inSiteB <=> AtBnamed
        /\ obs.renderInSiteA <=> {"render"} \subseteq anchors \cap tids /\ join
    BY <1>1, <1>3 DEF ReportInv, ObsTrue, Joined, Spun, Smped, Chained, Sited
  <2> QED BY <1>1, <1>3, <2>1 DEF ReportInv, ObsInv
<1> QED BY <1>2, <1>3

\* A freeze told to be in WaitForJobTask is there, and not at Site A.
LEMMA NamedSites == AtBnamed => AtB /\ ~AtA
  BY DEF AtBnamed, AtB, AtA

\* The class and its confidence: what they say, and that a freeze gets its class.
LEMMA ClassFacts == ReportInv => ClassIsTrue /\ ConfidenceIsEarned /\ FreezesAreNamed
<1> SUFFICES ASSUME ReportInv PROVE ClassIsTrue /\ ConfidenceIsEarned /\ FreezesAreNamed
  OBVIOUS
<1>0. class # "none" => class = Classify(obs)[1] /\ confidence = Classify(obs)[2]
  BY DEF ReportInv, ObsInv
<1>1. ClassIsTrue
  <2> SUFFICES ASSUME Clean, class # "none"
               PROVE  /\ class = "SpinlockAbBa" => BeenAtA /\ "main" \in spun
                      /\ class \in {"HdtsmpSiteB", "SiteBNoHdtsmp"} => BeenAtB
                      /\ class = "SiteAWorkerAck" => BeenAtA
                      /\ class = "RenderSiteAWorkerAck" => joined
    BY DEF ClassIsTrue
  <2>1. /\ obs.inSiteA => BeenAtA
        /\ obs.inSiteB => BeenAtB
        /\ obs.ownedByMain => "main" \in spun
        /\ obs.renderInSiteA => joined
    BY DEF Clean, ReportInv, ObsInv, BeenAtA, BeenAtB
  <2>2. /\ class = "SpinlockAbBa" => obs.inSiteA /\ obs.ownedByMain
        /\ class \in {"HdtsmpSiteB", "SiteBNoHdtsmp"} => obs.inSiteB
        /\ class = "SiteAWorkerAck" => obs.inSiteA
        /\ class = "RenderSiteAWorkerAck" => obs.renderInSiteA
    BY <1>0 DEF Classify
  <2> QED BY <2>1, <2>2, Zenon
<1>2. ConfidenceIsEarned
  <2> SUFFICES ASSUME Clean, class # "none"
               PROVE  /\ class = "HdtsmpSiteB" /\ confidence = "high" =>
                            cuts # {Intact} /\ smp.inside >= 1 /\ "siteB" \in anchors
                      /\ class = "SiteBNoHdtsmp" /\ confidence = "medium" =>
                            cuts # {Intact}
                      /\ \/ class = "SiteAWorkerAck" /\ confidence = "medium"
                         \/ class = "RenderSiteAWorkerAck" /\ confidence = "high"
                         => spun # {"none"}
    BY DEF ConfidenceIsEarned
  <2>1. /\ ChainGone(obs) => cuts # {Intact} /\ "siteB" \in anchors
        /\ obs.spinnerSeen => spun # {"none"}
        /\ obs.workersInside >= 1 => smp.inside >= 1
    BY DEF Clean, ReportInv, ObsInv, ChainGone
  <2>2. /\ class = "HdtsmpSiteB" /\ confidence = "high" =>
              ChainGone(obs) /\ obs.workersInside >= 1
        /\ class = "SiteBNoHdtsmp" /\ confidence = "medium" => ChainGone(obs)
        /\ class = "SiteAWorkerAck" /\ confidence = "medium" => obs.spinnerSeen
        /\ class = "RenderSiteAWorkerAck" /\ confidence = "high" => obs.spinnerSeen
    BY <1>0 DEF Classify
  <2> QED BY <2>1, <2>2, Zenon
<1>3. FreezesAreNamed
  <2> SUFFICES ASSUME Plain, class # "none", "main" \in tids
               PROVE  /\ se1597 /\ AtA => class \in {"SpinlockAbBa", "SiteAWorkerAck"}
                      /\ AtBnamed => class \in {"HdtsmpSiteB", "SiteBNoHdtsmp"}
                      /\ at = "run" /\ join /\ {"render"} \subseteq anchors \cap tids
                            => class = "RenderSiteAWorkerAck"
    BY DEF FreezesAreNamed, AtBnamed
  <2>1. at = "run" => ~AtA /\ ~AtB BY DEF AtA, AtB
  <2> QED BY <2>1, TrueVerdict, NamedSites DEF Classify
<1> QED BY <1>1, <1>2, <1>3

\* A report is true, of a freeze and of an engine that moves between the probes: what
\* its class and its confidence stand on was so at some moment of the report
\* (Verdict.cpp:638-718), no section names a site that main was not at meanwhile, and
\* nothing rests on the address of another build (Verdict.cpp:49-58).
THEOREM ClassificationIsTrue == Spec => []ReportIsTrue
<1>1. ReportInv => ReportIsTrue
  <2> SUFFICES ASSUME ReportInv PROVE ReportIsTrue OBVIOUS
  <2>1. SitesWereVisited
    <3>1. fields # -1 => "waitA" \in been
      BY DEF ReportInv, AuditInv
    <3>2. outcome \in {"match", "imminent"} => "waitA" \in been
      BY <3>1 DEF ReportInv, AuditInv
    <3> QED BY <3>2 DEF SitesWereVisited, ReportInv, ObsInv, AuditInv, BeenAtA, BeenAtB
  <2>2. NoStaleAddress
    <3>1. ~se1597 => class \notin {"SpinlockAbBa", "SiteAWorkerAck"}
      BY DEF ReportInv, ObsInv, Classify
    <3> QED BY <3>1 DEF NoStaleAddress, ReportInv, ObsInv
  <2> QED BY <2>1, <2>2, ClassFacts DEF ReportIsTrue, ReportInv
<1> QED BY <1>1, ReportInvariance, PTL

\* A true freeze with a fingerprint gets its class: on SE 1.5.97 both sites, on the
\* other builds the WaitForJobTask thunk, and the render thread's join when main is
\* at neither (Classify, Verdict.cpp:638-718; Observe, Verdict.cpp:545-632).
THEOREM FreezesGetTheirClass == Spec => []FreezesAreNamed
  BY ReportInvariance, ClassFacts, PTL

\* DEADLOCK SIGNATURE MATCH is printed of a true freeze exactly where main waits with
\* the flag set for an event nobody has signaled, and the audit never misses one that
\* it has the anchor for and whose fields it could read (MainWaitProbe.cpp:1897-1909,
\* 2128-2141).
THEOREM SignatureIsLostAck == Spec => []MatchIsLostAck
<1>1. ReportInv => MatchIsLostAck
  <2> SUFFICES ASSUME ReportInv PROVE MatchIsLostAck OBVIOUS
  <2>1. /\ pending = (IF at \in {"lockA", "waitA"} THEN 1 ELSE 0)
        /\ aStep \in {"anchors", "context", "sites", "handle", "fields", "chain",
                      "verdict", "render", "done"}
    BY DEF ReportInv, TypeOK, FreezeSitesTypeOK, AuditTypeOK
  <2>2. outcome = "match" /\ Quiet => at = "waitA" /\ pending = 1 /\ ~ack
    <3> SUFFICES ASSUME outcome = "match", Quiet PROVE at = "waitA" /\ pending = 1 /\ ~ack
      OBVIOUS
    <3>1. aStep \in {"render", "done"} /\ aCtx = "waitA" /\ evState = 0
      BY DEF ReportInv, AuditInv
    <3>2. at = "waitA" BY <3>1 DEF ReportInv, AuditTrue
    <3>3. evState = IF ack THEN 1 ELSE 0
      BY <3>1, <3>2 DEF ReportInv, AuditTrue, Queried, Looked
    <3> QED BY <2>1, <3>1, <3>2, <3>3
  <2>3. ASSUME Plain, outcome \notin {"none", "unavailable"}, "siteA" \in anchors,
               at = "waitA", ~ack, fields # -1
        PROVE  outcome = "match"
    <3>1. aStep \in {"render", "done"} /\ Quiet BY <2>1, <2>3 DEF ReportInv, AuditInv, Plain
    <3>2. "A" \in inSites /\ evState = 0
      BY <2>3, <3>1 DEF ReportInv, AuditTrue, Looked, Queried, AtA
    <3>3. fields = 1 BY <2>3, <3>1, <3>2 DEF ReportInv, AuditTrue, HasFields, Queried, Looked
    <3> QED BY <2>3, <3>2, <3>3 DEF ReportInv, AuditInv, Matches
  <2> QED BY <2>2, <2>3 DEF MatchIsLostAck
<1> QED BY <1>1, ReportInvariance, PTL

\* The classification (Verdict.cpp:545-574) and the audit (MainWaitProbe.cpp:1799-1830)
\* read the engine one after the other and exchange nothing; of one true freeze, on
\* SE 1.5.97 with all anchors, they name the same site.
THEOREM BothSectionsAgree == Spec => []SectionsAgree
<1>1. ReportInv => SectionsAgree
  <2> SUFFICES ASSUME ReportInv, Plain, Finished, se1597, anchors = AnchorNames,
                      "main" \in tids
               PROVE  /\ class \in {"SpinlockAbBa", "SiteAWorkerAck"} <=> inSites = {"A"}
                      /\ class \in {"HdtsmpSiteB", "SiteBNoHdtsmp"} <=> inSites = {"B"}
    BY DEF SectionsAgree
  <2>1. {"siteA", "siteB", "spin"} \subseteq anchors BY DEF AnchorNames
  <2>2. vStep = "done" /\ aStep = "done" /\ outcome # "unavailable" /\ Quiet
    BY <2>1 DEF Finished, ReportInv, AuditInv, Plain
  <2>3. /\ inSites \subseteq {"A", "B"}
        /\ "A" \in inSites <=> AtA
        /\ "B" \in inSites <=> AtB
    <3>1. inSites \subseteq {"A", "B"} BY DEF ReportInv, TypeOK, AuditTypeOK
    <3>2. at = "thunkB" => AtB BY DEF AtB
    <3> QED BY <2>1, <2>2, <3>1, <3>2 DEF ReportInv, AuditTrue, Looked
  <2>4. /\ inSites = {"A"} <=> AtA
        /\ inSites = {"B"} <=> AtB
    BY <2>3 DEF AtA, AtB
  <2>5. AtBnamed <=> AtB BY DEF AtBnamed
  <2>6. class # "none" BY <2>2 DEF ReportInv, ObsInv
  <2>7. /\ class \in {"SpinlockAbBa", "SiteAWorkerAck"} <=> AtA
        /\ class \in {"HdtsmpSiteB", "SiteBNoHdtsmp"} <=> AtB
    BY <2>5, <2>6, TrueVerdict, NamedSites DEF Classify
  <2> QED BY <2>4, <2>7
<1> QED BY <1>1, ReportInvariance, PTL
-----------------------------------------------------------------------------
(***************************************************************************)
(* The task pool: the healthy sample and the section that compares it with *)
(* the frozen pool, for any queues, entries, handles, threads and period.  *)
(***************************************************************************)

\* Frames of main since the tick gate was last open.
Since == IF tick = 0 THEN (TickWrap - 1) % Period ELSE (tick - 1) % Period

\* A queue has its own entry and an entry its own handle.
PoolInv ==
    /\ \A p, q \in Queues : queue[p] = queue[q] /\ p # q => queue[p] = None
    /\ \A d, e \in Entries : table[d] = table[e] /\ d # e => table[d] = None

\* No instance, no steady frame; a hit of the gate that published made age zero.
BaselineInv ==
    /\ single = 0 => steady = 0
    /\ \A s \in latest : s.single # 0
    /\ \A r \in Readers : reading[r].at = "sub" => reading[r].next = 0
    /\ reading["main"].at = "off" /\ slot /\ steady > Since => age <= Since /\ latest # {}
    /\ reading["main"].at # "off" => slot /\ Since = 0
    /\ reading["main"].at \in {"sub", "entries"} => reading["main"].sample.single # 0
    /\ reading["main"].at = "done" /\ reading["main"].sample.single = 0 => steady = 0

\* The entries of sample s are those of the queues below n, each once.
Mirrors(s, n) ==
    /\ \A q \in Queues : q < n /\ queue[q] # None =>
          \E i \in DOMAIN s.entries : s.entries[i] = Captured(queue[q])
    /\ \A i \in DOMAIN s.entries :
          \E q \in Queues : q < n /\ queue[q] # None /\ s.entries[i] = Captured(queue[q])
    /\ \A i, j \in DOMAIN s.entries : s.entries[i].ptr = s.entries[j].ptr => i = j

\* While nothing moves the frozen sample mirrors the pool as far as it was read.
FrozenInv ==
    /\ step \in {"attribute", "probe", "done"} => reading["watchdog"].at = "done"
    /\ quiet /\ step \in {"frozen", "attribute", "probe", "done"} =>
         /\ reading["watchdog"].at = "sub" =>
               single # 0 /\ frozenSample.single = single /\ frozenSample.entries = <<>>
         /\ reading["watchdog"].at = "entries" =>
               /\ Alive /\ Mirrors(frozenSample, reading["watchdog"].next)
               /\ frozenSample.single = single
         /\ reading["watchdog"].at = "done" =>
               /\ IF Alive THEN Mirrors(frozenSample, MaxEntries) ELSE frozenSample.entries = <<>>
               /\ frozenSample.single = single

\* A thread that was probed is named exactly if it held a target.
ProbeInv ==
    /\ step \notin {"probe", "done"} => candidates = {} /\ mainHandle = None
    /\ step = "done" /\ mainHandle # None => left = {}
    /\ candidates \cap left = {}
    /\ mainHandle # None =>
          \A w \in Workers \ left : w \in candidates <=> holds[w] \cap Targets(mainHandle) # {}
    /\ quiet /\ mainWait # None /\ step \in {"probe", "done"} => mainHandle = mainWait

SectionType ==
    /\ holds \in [Workers -> SUBSET Held]
    /\ step \in {"idle", "latest", "frozen", "attribute", "probe", "done", "unavailable"}
    /\ baseline \subseteq Sample
    /\ mainHandle \in Handles \cup {None}
    /\ left \subseteq Workers /\ candidates \subseteq Workers
    /\ quiet \in BOOLEAN

SectionInv ==
    /\ JobPoolTypeOK /\ PoolInv
    /\ BaselineTypeOK /\ BaselineInv
    /\ SectionType /\ FrozenInv /\ ProbeInv

-----------------------------------------------------------------------------
(***************************************************************************)
(* Lemmas: the counter of the gate, the types, the samples.                *)
(***************************************************************************)
\* Division with remainder, and the distance of multiples.
LEMMA DivMod ==
    \A a \in Nat, p \in Nat \ {0} :
        a = p * (a \div p) + (a % p) /\ a \div p \in Nat /\ a % p \in 0..(p - 1)
  OBVIOUS

\* Between two multiples of the period lies a whole period.
LEMMA NextMultiple ==
    ASSUME NEW p \in Nat \ {0}, NEW q \in Nat, NEW k \in Nat, k > q
    PROVE  p * k >= p * q + p
<1>1. PICK d \in Nat : k = q + 1 + d BY k - q - 1 \in Nat
<1>2. p * k = p * q + p + p * d BY <1>1
<1>3. p * d \in Nat /\ p * q \in Nat OBVIOUS
<1> QED BY <1>2, <1>3

\* Between two multiples of the period the remainder counts by one.
LEMMA ModSteps ==
    ASSUME NEW a \in Nat, NEW p \in Nat \ {0}, (a + 1) % p # 0
    PROVE  (a + 1) % p = (a % p) + 1
<1> DEFINE q == a \div p        r == a % p
           k == (a + 1) \div p  s == (a + 1) % p
<1>1. a = p * q + r /\ q \in Nat /\ r \in 0..(p - 1) BY DivMod
<1>2. a + 1 = p * k + s /\ k \in Nat /\ s \in 1..(p - 1)
  <2>1. a + 1 \in Nat OBVIOUS
  <2>2. a + 1 = p * k + s /\ k \in Nat /\ s \in 0..(p - 1) BY <2>1, DivMod
  <2> QED BY <2>2
<1> HIDE DEF q, r, k, s
<1>3. p * q \in Nat /\ p * k \in Nat BY <1>1, <1>2
<1>4. ~(k > q)
  <2>1. k > q => p * k >= p * q + p BY <1>1, <1>2, NextMultiple
  <2> QED BY <1>1, <1>2, <1>3, <2>1
<1>5. ~(q > k)
  <2>1. q > k => p * q >= p * k + p BY <1>1, <1>2, NextMultiple
  <2> QED BY <1>1, <1>2, <1>3, <2>1
<1>6. q = k BY <1>1, <1>2, <1>4, <1>5
<1>7. s = r + 1 BY <1>1, <1>2, <1>3, <1>6
<1> QED BY <1>7 DEF s, r

\* A frame at which the gate stays shut is one more since it was open.
LEMMA GateCounts ==
    ASSUME tick \in 0..(TickWrap - 1), tick' = (tick + 1) % TickWrap
    PROVE  /\ tick' \in 0..(TickWrap - 1) /\ Since' = tick % Period
           /\ Since \in Nat /\ tick % Period \in Nat
           /\ tick % Period # 0 => tick % Period = Since + 1
<1>0. TickWrap \in Nat /\ TickWrap > 0 /\ Period \in Nat \ {0} BY BaselineAssumption
<1>1. tick \in Nat /\ tick % Period \in Nat BY <1>0, DivMod
<1>2. Since \in Nat
  <2>1. CASE tick = 0 BY <1>0, <2>1, DivMod DEF Since
  <2>2. CASE tick # 0 BY <1>0, <1>1, <2>2, DivMod, tick - 1 \in Nat DEF Since
  <2> QED BY <2>1, <2>2
<1>3. CASE tick = TickWrap - 1
  <2>1. tick' = 0 BY <1>0, <1>3
  <2>2. Since' = tick % Period BY <1>0, <1>3, <2>1 DEF Since
  <2> QED
    <3>1. tick % Period # 0 => tick % Period = Since + 1
      <4> SUFFICES ASSUME tick % Period # 0 PROVE tick % Period = Since + 1 OBVIOUS
      <4>1. tick # 0 BY <1>0
      <4>2. tick - 1 \in Nat /\ tick = (tick - 1) + 1 BY <1>1, <4>1
      <4> QED BY <1>0, <4>1, <4>2, ModSteps DEF Since
    <3> QED BY <1>0, <1>1, <1>2, <2>1, <2>2, <3>1
<1>4. CASE tick # TickWrap - 1
  <2>1. tick' = tick + 1 BY <1>0, <1>4
  <2>2. Since' = tick % Period BY <1>1, <2>1 DEF Since
  <2> QED
    <3>1. tick % Period # 0 => tick % Period = Since + 1
      <4> SUFFICES ASSUME tick % Period # 0 PROVE tick % Period = Since + 1 OBVIOUS
      <4>1. tick # 0 BY <1>0
      <4>2. tick - 1 \in Nat /\ tick = (tick - 1) + 1 BY <1>1, <4>1
      <4> QED BY <1>0, <4>1, <4>2, ModSteps DEF Since
    <3> QED BY <1>0, <1>1, <1>2, <1>4, <2>1, <2>2, <3>1
<1> QED BY <1>3, <1>4

\* The parts of the types.
LEMMA SinceType == BaselineTypeOK => Since \in Nat
<1> SUFFICES ASSUME BaselineTypeOK PROVE Since \in Nat OBVIOUS
<1>0. TickWrap - 1 \in Nat /\ Period \in Nat \ {0} BY BaselineAssumption
<1>1. CASE tick = 0
  <2>1. (TickWrap - 1) % Period \in 0..(Period - 1) BY <1>0, DivMod
  <2> QED BY <1>0, <1>1, <2>1 DEF Since
<1>2. CASE tick # 0
  <2>1. tick - 1 \in Nat BY <1>0, <1>2 DEF BaselineTypeOK
  <2>2. (tick - 1) % Period \in 0..(Period - 1) BY <1>0, <2>1, DivMod
  <2> QED BY <1>0, <1>2, <2>2 DEF Since
<1> QED BY <1>1, <1>2

\* The section and the baseline have types of their own.
LEMMA TypeParts == TaskPoolTypeOK <=> JobPoolTypeOK /\ BaselineTypeOK /\ SectionType
  BY Zenon DEF TaskPoolTypeOK, SectionType

\* The samples a reader starts from, and the entries it copies.
LEMMA EmptyIsSample ==
    ASSUME NEW n \in 0..2
    PROVE  /\ [EmptySample EXCEPT !.single = n] \in Sample
           /\ [EmptySample EXCEPT !.single = n].single = n
           /\ [EmptySample EXCEPT !.single = n].entries = <<>>
           /\ EmptySample \in Sample /\ EmptySample.entries = <<>>
<1>1. <<>> \in Seq(Entry) OBVIOUS
<1>2. EmptySample \in Sample /\ EmptySample.entries = <<>>
  BY <1>1 DEF Sample, EmptySample
<1>3. EmptySample \in [single : 0..2, sub : BOOLEAN, entries : Seq(Entry)]
  BY <1>2 DEF Sample
<1> QED BY <1>2, <1>3 DEF Sample

\* A captured entry keeps its pointer, readable or not.
LEMMA CapturedType ==
    ASSUME JobPoolTypeOK, NEW e \in Entries
    PROVE  Captured(e) \in Entry /\ Captured(e).ptr = e
  BY DEF JobPoolTypeOK, Captured, Entry

\* A change of the pool keeps it a pool.
LEMMA PoolMoveKeeps ==
    ASSUME JobPoolTypeOK, PoolInv, PoolMove
    PROVE  JobPoolTypeOK' /\ PoolInv' /\ mainWait' \in Handles \cup {None}
<1>0. /\ poolMoves \in Nat /\ poolMoves' = poolMoves + 1 /\ poolMoves < MaxPoolMoves
      /\ MaxPoolMoves \in Nat /\ far' = far
  BY JobPoolAssumption
     DEF JobPoolTypeOK, PoolMove, Moved, AddEntry, DropEntry, TearDown, Recreate,
         MainWaits, Signal
<1>1. single' \in 0..2
  BY DEF JobPoolTypeOK, PoolMove, AddEntry, DropEntry, TearDown, Recreate, MainWaits, Signal
<1>2. sub' \in BOOLEAN
  <2>1. sub' = sub \/ sub' = TRUE \/ sub' = FALSE
    BY DEF PoolMove, AddEntry, DropEntry, TearDown, Recreate, MainWaits, Signal
  <2> QED BY <2>1, Zenon DEF JobPoolTypeOK
<1>3. mainWait' \in Handles \cup {None}
  BY DEF JobPoolTypeOK, PoolMove, AddEntry, DropEntry, TearDown, Recreate, MainWaits, Signal
<1>4. /\ queue' \in [Queues -> Entries \cup {None}]
      /\ table' \in [Entries -> Handles \cup {None}]
      /\ PoolInv'
  <2>1. CASE \E q \in Queues, e \in Entries, h \in Handles : AddEntry(q, e, h)
    BY <2>1 DEF AddEntry, JobPoolTypeOK, PoolInv
  <2>2. CASE \E q \in Queues : DropEntry(q) BY <2>2 DEF DropEntry, JobPoolTypeOK, PoolInv
  <2>3. CASE Recreate BY <2>3 DEF Recreate, JobPoolTypeOK, PoolInv
  <2>4. CASE UNCHANGED <<queue, table>> BY <2>4 DEF JobPoolTypeOK, PoolInv
  <2> QED BY <2>1, <2>2, <2>3, <2>4 DEF PoolMove, TearDown, MainWaits, Signal
<1>5. poolMoves' \in 0..MaxPoolMoves BY <1>0
<1>6. JobPoolTypeOK' BY <1>0, <1>1, <1>2, <1>3, <1>4, <1>5 DEF JobPoolTypeOK
<1> QED BY <1>3, <1>4, <1>6

\* The next queue of the pool is skipped when it is empty, copied when it is not.
LEMMA MirrorsSkip ==
    ASSUME NEW s, NEW n \in Nat, Mirrors(s, n), n \in Queues => queue[n] = None
    PROVE  Mirrors(s, n + 1)
<1>1. \A q \in Queues : q < n + 1 /\ queue[q] # None => q < n
  BY JobPoolAssumption
<1>2. \A q \in Queues : q < n => q < n + 1 BY JobPoolAssumption
<1> QED BY <1>1, <1>2, Zenon DEF Mirrors

\* A sample with one entry more.
LEMMA AppendEntry ==
    ASSUME JobPoolTypeOK, NEW s \in Sample, NEW e \in Entries
    PROVE  LET t == [s EXCEPT !.entries = Append(@, Captured(e))] IN
           /\ t \in Sample /\ t.single = s.single
           /\ t.entries = Append(s.entries, Captured(e))
           /\ Len(t.entries) = Len(s.entries) + 1
<1> DEFINE c == Captured(e)
           E == Append(s.entries, c)
           t == [s EXCEPT !.entries = Append(@, Captured(e))]
<1>1. c \in Entry BY CapturedType
<1>2. s.entries \in Seq(Entry) BY DEF Sample
<1>3. t = [s EXCEPT !.entries = E] BY DEF Sample
<1> HIDE DEF c, t
<1>4. E \in Seq(Entry) /\ Len(E) = Len(s.entries) + 1 BY <1>1, <1>2
<1> HIDE DEF E
<1>5. t \in Sample /\ t.single = s.single /\ t.entries = E BY <1>3, <1>4 DEF Sample
<1> QED BY <1>4, <1>5 DEF E, t, c

\* One more queue copied is one more queue mirrored.
LEMMA MirrorsCopy ==
    ASSUME JobPoolTypeOK, PoolInv, NEW s \in Sample, NEW n \in Nat, Mirrors(s, n),
           n \in Queues, queue[n] # None, Len(s.entries) \in Nat
    PROVE  LET t == [s EXCEPT !.entries = Append(@, Captured(queue[n]))] IN
           /\ t \in Sample /\ Mirrors(t, n + 1) /\ Len(t.entries) = Len(s.entries) + 1
           /\ t.single = s.single
<1> DEFINE c == Captured(queue[n])
           E == Append(s.entries, c)
           t == [s EXCEPT !.entries = Append(@, Captured(queue[n]))]
<1>0. queue[n] \in Entries BY DEF JobPoolTypeOK
<1>1. c \in Entry /\ c.ptr = queue[n] BY <1>0, CapturedType
<1>2. s.entries \in Seq(Entry) BY DEF Sample
<1>3. t \in Sample /\ t.entries = E /\ t.single = s.single BY <1>0, AppendEntry
<1> HIDE DEF c
<1>4. /\ Len(E) = Len(s.entries) + 1 /\ DOMAIN E = 1..(Len(s.entries) + 1)
      /\ E[Len(s.entries) + 1] = c
      /\ \A i \in 1..Len(s.entries) : E[i] = s.entries[i]
      /\ DOMAIN s.entries = 1..Len(s.entries)
  BY <1>1, <1>2
<1> HIDE DEF E, t
<1>5. Mirrors(t, n + 1)
  <2>1. \A q \in Queues : q < n + 1 /\ queue[q] # None =>
           \E i \in DOMAIN E : E[i] = Captured(queue[q])
    <3> SUFFICES ASSUME NEW q \in Queues, q < n + 1, queue[q] # None
                 PROVE  \E i \in DOMAIN E : E[i] = Captured(queue[q])
      OBVIOUS
    <3>1. CASE q = n
      <4>1. Len(s.entries) + 1 \in DOMAIN E BY <1>4
      <4> QED BY <1>4, <3>1, <4>1 DEF c
    <3>2. CASE q # n
      <4>1. q < n BY <3>2, JobPoolAssumption
      <4>2. PICK i \in DOMAIN s.entries : s.entries[i] = Captured(queue[q])
        BY <4>1 DEF Mirrors
      <4>3. i \in DOMAIN E /\ E[i] = s.entries[i] BY <1>4
      <4> QED BY <4>2, <4>3
    <3> QED BY <3>1, <3>2
  <2>2. \A i \in DOMAIN E :
           \E q \in Queues : q < n + 1 /\ queue[q] # None /\ E[i] = Captured(queue[q])
    <3> SUFFICES ASSUME NEW i \in DOMAIN E
                 PROVE  \E q \in Queues : q < n + 1 /\ queue[q] # None
                                           /\ E[i] = Captured(queue[q])
      OBVIOUS
    <3>1. CASE i = Len(s.entries) + 1
      <4>1. n < n + 1 OBVIOUS
      <4> QED BY <1>4, <3>1, <4>1 DEF c
    <3>2. CASE i # Len(s.entries) + 1
      <4>1. i \in DOMAIN s.entries /\ E[i] = s.entries[i] BY <1>4, <3>2
      <4>2. PICK q \in Queues : q < n /\ queue[q] # None /\ s.entries[i] = Captured(queue[q])
        BY <4>1 DEF Mirrors
      <4>3. q < n + 1
        <5>1. q \in Nat /\ n \in Nat BY JobPoolAssumption
        <5>2. q < n BY <4>2
        <5> QED BY <5>1, <5>2
      <4> QED BY <4>1, <4>2, <4>3
    <3> QED BY <3>1, <3>2
  <2>3. \A i, j \in DOMAIN E : E[i].ptr = E[j].ptr => i = j
    <3>1. \A i \in DOMAIN s.entries : s.entries[i].ptr # queue[n]
      <4> SUFFICES ASSUME NEW i \in DOMAIN s.entries PROVE s.entries[i].ptr # queue[n]
        OBVIOUS
      <4>1. PICK q \in Queues : q < n /\ queue[q] # None /\ s.entries[i] = Captured(queue[q])
        BY DEF Mirrors
      <4>2. queue[q] \in Entries BY <4>1 DEF JobPoolTypeOK
      <4>3. s.entries[i].ptr = queue[q] BY <4>1, <4>2, CapturedType
      <4>4. q # n BY <4>1, JobPoolAssumption
      <4> QED BY <4>1, <4>3, <4>4 DEF PoolInv
    <3>2. \A i \in DOMAIN E : \/ i \in DOMAIN s.entries /\ E[i] = s.entries[i]
                              \/ i = Len(s.entries) + 1 /\ E[i].ptr = queue[n]
      BY <1>1, <1>4
    <3>3. \A i, j \in DOMAIN s.entries : s.entries[i].ptr = s.entries[j].ptr => i = j
      BY DEF Mirrors
    <3> QED BY <3>1, <3>2, <3>3
  <2> QED BY <1>3, <2>1, <2>2, <2>3 DEF Mirrors
<1>6. Len(t.entries) = Len(s.entries) + 1 BY <1>3, <1>4
<1> QED BY <1>3, <1>5, <1>6 DEF t

\* The stages of a sample.
Stages == {"off", "slot", "sub", "entries", "done"}

ReadingType ==
    /\ reading \in [Readers -> [at : Stages, next : 0..MaxEntries, sample : Sample]]
    /\ \A r \in Readers : Len(reading[r].sample.entries) <= reading[r].next

\* The type of the baseline in parts, and what a reader's step does to it.
LEMMA BaselineParts ==
    BaselineTypeOK <=> /\ ReadingType /\ latest \subseteq Sample
                       /\ slot \in BOOLEAN /\ tick \in 0..(TickWrap - 1)
                       /\ frames \in 0..MaxFrames /\ age \in 0..MaxFrames
                       /\ steady \in 0..MaxFrames
  BY Zenon DEF BaselineTypeOK, ReadingType, Stages

\* A read sets the reader it is of, and no other.
LEMMA ReadSets ==
    ASSUME ReadingType, NEW r \in Readers, NEW a \in Stages, NEW n \in 0..MaxEntries,
           NEW s \in Sample, Len(s.entries) <= n, Read(r, a, n, s)
    PROVE  /\ ReadingType'
           /\ reading'[r].at = a /\ reading'[r].next = n /\ reading'[r].sample = s
           /\ \A x \in Readers \ {r} : reading'[x] = reading[x]
<1> DEFINE rec == [at |-> a, next |-> n, sample |-> s]
<1>1. reading' = [reading EXCEPT ![r] = rec] BY DEF Read
<1>2. rec \in [at : Stages, next : 0..MaxEntries, sample : Sample] OBVIOUS
<1>3. rec.at = a /\ rec.next = n /\ rec.sample = s OBVIOUS
<1> HIDE DEF rec
<1>4. reading'[r] = rec /\ \A x \in Readers \ {r} : reading'[x] = reading[x]
  BY <1>1 DEF ReadingType
<1>5. reading' \in [Readers -> [at : Stages, next : 0..MaxEntries, sample : Sample]]
  BY <1>1, <1>2 DEF ReadingType
<1>6. \A x \in Readers : Len(reading'[x].sample.entries) <= reading'[x].next
  BY <1>3, <1>4 DEF ReadingType
<1>7. ReadingType' BY <1>5, <1>6 DEF ReadingType
<1> QED BY <1>3, <1>4, <1>7

\* One link of a sample, by either reader.
LEMMA SingletonLink ==
    ASSUME JobPoolTypeOK, ReadingType, NEW r \in Readers, ReadSingleton(r)
    PROVE  /\ ReadingType' /\ \A x \in Readers \ {r} : reading'[x] = reading[x]
           /\ reading[r].at = "slot" /\ reading'[r].next = 0
           /\ reading'[r].at = IF single = 0 THEN "done" ELSE "sub"
           /\ reading'[r].sample.single = single /\ reading'[r].sample.entries = <<>>
<1> DEFINE s == [EmptySample EXCEPT !.single = single]
           a == IF single = 0 THEN "done" ELSE "sub"
<1>0. single \in 0..2 BY DEF JobPoolTypeOK
<1>1. reading[r].at = "slot" /\ Read(r, a, 0, s) BY DEF ReadSingleton
<1>2. s \in Sample /\ s.single = single /\ s.entries = <<>> BY <1>0, EmptyIsSample
<1>3. a \in Stages /\ 0 \in 0..MaxEntries BY BaselineAssumption DEF Stages
<1> HIDE DEF s
<1>4. Len(s.entries) <= 0 BY <1>2
<1>5. /\ ReadingType' /\ reading'[r].at = a /\ reading'[r].next = 0
      /\ reading'[r].sample = s /\ \A x \in Readers \ {r} : reading'[x] = reading[x]
  <2> HIDE DEF a
  <2> QED BY <1>1, <1>2, <1>3, <1>4, ReadSets
<1> QED BY <1>1, <1>2, <1>5

\* The pointer to the array of queues: without it the sample ends.
LEMMA SubArrayLink ==
    ASSUME JobPoolTypeOK, ReadingType, NEW r \in Readers, ReadSubArray(r),
           reading[r].next = 0
    PROVE  /\ ReadingType' /\ \A x \in Readers \ {r} : reading'[x] = reading[x]
           /\ reading[r].at = "sub" /\ reading'[r].at \in {"entries", "done"}
           /\ reading[r].sample.single = single => (reading'[r].at = "entries" <=> sub)
           /\ reading'[r].sample.single = reading[r].sample.single
           /\ reading'[r].sample.entries = reading[r].sample.entries
           /\ reading'[r].next = 0
<1> DEFINE s == reading[r].sample
<1>0. sub \in BOOLEAN /\ s \in Sample BY Zenon DEF JobPoolTypeOK, ReadingType
<1>1. PICK there \in (IF s.single = single THEN {sub} ELSE BOOLEAN) :
        Read(r, IF there THEN "entries" ELSE "done", 0, [s EXCEPT !.sub = there])
  BY Zenon DEF ReadSubArray
<1>2. there \in BOOLEAN /\ (s.single = single => there = sub) BY <1>0, <1>1, Zenon
<1> DEFINE u == [s EXCEPT !.sub = there]
           a == IF there THEN "entries" ELSE "done"
<1>3. u \in Sample /\ u.single = s.single /\ u.entries = s.entries
  <2> HIDE DEF s
  <2> QED BY <1>0, <1>2 DEF Sample
<1>4. Len(u.entries) <= 0 /\ 0 \in 0..MaxEntries
  BY <1>3, BaselineAssumption DEF ReadingType
<1>5. a \in Stages BY DEF Stages
<1>6. /\ ReadingType' /\ reading'[r].at = a /\ reading'[r].next = 0
      /\ reading'[r].sample = u /\ \A x \in Readers \ {r} : reading'[x] = reading[x]
  <2>1. Read(r, a, 0, u) BY <1>1
  <2> HIDE DEF a, u, s
  <2> QED BY <2>1, <1>3, <1>4, <1>5, ReadSets
<1>7. reading[r].at = "sub" BY DEF ReadSubArray
<1>8. s.single = single => (reading'[r].at = "entries" <=> sub)
  <2>1. s.single = single => (a = "entries" <=> sub) BY <1>2
  <2> HIDE DEF a, s
  <2> QED BY <1>6, <2>1
<1> QED BY <1>3, <1>6, <1>7, <1>8

\* One queue, empty, unreadable or copied: one more is mirrored.
LEMMA EntryLink ==
    ASSUME JobPoolTypeOK, PoolInv, ReadingType, NEW r \in Readers, ReadEntry(r)
    PROVE  /\ ReadingType' /\ \A x \in Readers \ {r} : reading'[x] = reading[x]
           /\ reading[r].at = "entries" /\ reading'[r].at \in {"entries", "done"}
           /\ reading'[r].sample.single = reading[r].sample.single
           /\ Mirrors(reading[r].sample, reading[r].next) =>
                 Mirrors(reading'[r].sample, reading'[r].next)
           /\ reading'[r].at = "done" => reading'[r].next = MaxEntries
<1> DEFINE s == reading[r].sample
           q == reading[r].next
           t == [s EXCEPT !.entries = Append(@, Captured(queue[q]))]
<1>0. s \in Sample /\ q \in 0..MaxEntries /\ Len(s.entries) <= q BY DEF ReadingType
<1>1. reading[r].at = "entries" BY DEF ReadEntry
<1>2. q \in Nat /\ MaxEntries \in Nat /\ Len(s.entries) \in Nat
  BY <1>0, BaselineAssumption DEF Sample
<1>3. CASE q = MaxEntries
  <2>1. Read(r, "done", q, s) BY <1>3 DEF ReadEntry
  <2>2. "done" \in Stages BY DEF Stages
  <2> HIDE DEF s, q
  <2>3. /\ ReadingType' /\ reading'[r].at = "done" /\ reading'[r].next = q
        /\ reading'[r].sample = s /\ \A x \in Readers \ {r} : reading'[x] = reading[x]
    BY <1>0, <2>1, <2>2, ReadSets
  <2> QED BY <1>1, <1>3, <2>3 DEF s, q
<1>4. CASE q # MaxEntries /\ (q \in Queues => queue[q] = None)
  <2>1. Read(r, "entries", q + 1, s) BY <1>4 DEF ReadEntry
  <2>2. "entries" \in Stages BY DEF Stages
  <2> HIDE DEF s, q
  <2>3. q + 1 \in 0..MaxEntries /\ Len(s.entries) <= q + 1 BY <1>0, <1>2, <1>4
  <2>4. /\ ReadingType' /\ reading'[r].at = "entries" /\ reading'[r].next = q + 1
        /\ reading'[r].sample = s /\ \A x \in Readers \ {r} : reading'[x] = reading[x]
    BY <1>0, <2>1, <2>2, <2>3, ReadSets
  <2>5. Mirrors(s, q) => Mirrors(s, q + 1) BY <1>2, <1>4, MirrorsSkip
  <2> QED BY <1>1, <2>4, <2>5 DEF s, q
<1>5. CASE q # MaxEntries /\ q \in Queues /\ queue[q] # None
  <2>1. Read(r, "entries", q + 1, t) BY <1>5 DEF ReadEntry
  <2>2. "entries" \in Stages BY DEF Stages
  <2>3. t \in Sample /\ Len(t.entries) = Len(s.entries) + 1 /\ t.single = s.single
    <3> HIDE DEF s, q
    <3>1. queue[q] \in Entries BY <1>5 DEF JobPoolTypeOK
    <3> QED BY <1>0, <3>1, AppendEntry
  <2>4. Mirrors(s, q) => Mirrors(t, q + 1)
    <3> HIDE DEF s, q
    <3> QED BY <1>0, <1>2, <1>5, MirrorsCopy
  <2> HIDE DEF s, q, t
  <2>5. q + 1 \in 0..MaxEntries /\ Len(t.entries) <= q + 1 BY <1>0, <1>2, <1>5, <2>3
  <2>6. /\ ReadingType' /\ reading'[r].at = "entries" /\ reading'[r].next = q + 1
        /\ reading'[r].sample = t /\ \A x \in Readers \ {r} : reading'[x] = reading[x]
    BY <2>1, <2>2, <2>3, <2>5, ReadSets
  <2> QED BY <1>1, <2>3, <2>4, <2>6 DEF s, q
<1> QED BY <1>3, <1>4, <1>5
-----------------------------------------------------------------------------
(***************************************************************************)
(* Each step keeps the invariant.                                          *)
(***************************************************************************)
\* The first states.
LEMMA InitSection == TaskPoolInit => SectionInv
<1> SUFFICES ASSUME TaskPoolInit PROVE SectionInv OBVIOUS
<1> USE JobPoolAssumption, BaselineAssumption DEF TaskPoolInit, BaselineInit
<1>1. PoolInv BY DEF PoolInv
<1>2. JobPoolTypeOK
  <2>1. sub \in BOOLEAN
    <3>1. sub = (single # 0) OBVIOUS
    <3> QED BY <3>1, Zenon
  <2>2. far \subseteq Handles /\ poolMoves \in 0..MaxPoolMoves /\ single \in 0..2 OBVIOUS
  <2>3. /\ queue \in [Queues -> Entries \cup {None}]
        /\ table \in [Entries -> Handles \cup {None}] /\ mainWait \in Handles \cup {None}
    OBVIOUS
  <2> QED BY <2>1, <2>2, <2>3 DEF JobPoolTypeOK
<1>3. reading = [r \in Readers |-> Off] OBVIOUS
<1>4. Off.at = "off" /\ Off.next = 0 /\ Off.sample = EmptySample BY DEF Off
<1>5. ReadingType
  <2>1. EmptySample \in Sample /\ EmptySample.entries = <<>> BY EmptyIsSample
  <2>2. Off \in [at : Stages, next : 0..MaxEntries, sample : Sample]
    BY <2>1 DEF Off, Stages
  <2>3. Len(Off.sample.entries) <= Off.next BY <1>4, <2>1
  <2> HIDE DEF Off
  <2> QED BY <1>3, <2>2, <2>3 DEF ReadingType
<1>6. BaselineTypeOK
  <2>1. /\ latest \subseteq Sample /\ tick \in 0..(TickWrap - 1) /\ frames \in 0..MaxFrames
        /\ age \in 0..MaxFrames /\ steady \in 0..MaxFrames /\ slot \in BOOLEAN
    OBVIOUS
  <2> QED BY <1>5, <2>1, BaselineParts
<1>7. \A r \in Readers : reading[r].at = "off" BY <1>3, <1>4
<1>8. BaselineInv
  <2>1. steady = 0 /\ latest = {} /\ "main" \in Readers BY DEF Readers
  <2>2. Since \in Nat BY <1>6, SinceType
  <2> QED BY <1>7, <2>1, <2>2 DEF BaselineInv
<1>9. SectionType BY DEF SectionType
<1>10. FrozenInv BY DEF FrozenInv
<1>11. ProbeInv BY DEF ProbeInv
<1> QED BY <1>1, <1>2, <1>6, <1>8, <1>9, <1>10, <1>11 DEF SectionInv

\* The targets are those of the frozen sample.
LEMMA TargetsUntouched ==
    ASSUME reading'["watchdog"] = reading["watchdog"], mainHandle' = mainHandle
    PROVE  Targets(mainHandle)' = Targets(mainHandle) /\ frozenSample' = frozenSample
  BY DEF Targets, SampleEntries, frozenSample

\* What main does with its own sample does not concern the section.
LEMMA SectionUntouched ==
    ASSUME FrozenInv, ProbeInv, SectionType, UNCHANGED <<pool, reportVars>>,
           reading'["watchdog"] = reading["watchdog"]
    PROVE  FrozenInv' /\ ProbeInv' /\ SectionType'
<1>1. UNCHANGED <<single, sub, queue, table, far, mainWait>> BY DEF pool
<1>2. UNCHANGED <<holds, step, baseline, mainHandle, left, candidates, quiet>>
  BY DEF reportVars
<1>3. Targets(mainHandle)' = Targets(mainHandle) /\ frozenSample' = frozenSample
  BY <1>2, TargetsUntouched
<1>4. FrozenInv' BY <1>1, <1>2, <1>3 DEF FrozenInv, Mirrors, Alive, Captured
<1>5. ProbeInv' BY <1>1, <1>2, <1>3 DEF ProbeInv
<1>6. SectionType' BY <1>2, Zenon DEF SectionType
<1> QED BY <1>4, <1>5, <1>6

\* What is not touched keeps its part of the invariant.
LEMMA PoolUntouched ==
    ASSUME JobPoolTypeOK, PoolInv, UNCHANGED pool
    PROVE  JobPoolTypeOK' /\ PoolInv'
<1>1. UNCHANGED <<single, sub, queue, table, far, mainWait, poolMoves>> BY DEF pool
<1>2. JobPoolTypeOK' BY <1>1, Zenon DEF JobPoolTypeOK
<1>3. PoolInv' BY <1>1 DEF PoolInv
<1> QED BY <1>2, <1>3

\* Outside BaselineTick and the section the baseline is left alone.
LEMMA BaselineUntouched ==
    ASSUME BaselineTypeOK, BaselineInv, UNCHANGED <<baselineVars, single>>
    PROVE  BaselineTypeOK' /\ BaselineInv'
<1>1. UNCHANGED <<slot, tick, latest, reading, frames, age, steady, single>>
  BY DEF baselineVars
<1>2. BaselineTypeOK' BY <1>1, Zenon DEF BaselineTypeOK
<1>3. BaselineInv' BY <1>1 DEF BaselineInv, Since
<1> QED BY <1>2, <1>3

\* A change of the pool ends the freeze, and a lost instance the steady state.
LEMMA PoolStep ==
    ASSUME SectionInv, PoolMove, step # "done", quiet' = FALSE,
           steady' = IF single' = 0 THEN 0 ELSE steady,
           UNCHANGED <<slot, tick, latest, reading, frames, age>>,
           UNCHANGED <<step, baseline, mainHandle, left, holds, candidates>>
    PROVE  SectionInv'
<1>1. JobPoolTypeOK' /\ PoolInv' BY PoolMoveKeeps DEF SectionInv
<1>2. steady' \in 0..MaxFrames /\ (steady' = steady \/ steady' = 0)
  BY BaselineAssumption, BaselineParts DEF SectionInv
<1>3. BaselineTypeOK'
  <2>1. ReadingType' BY BaselineParts, Zenon DEF SectionInv, ReadingType
  <2>2. /\ latest' \subseteq Sample /\ slot' \in BOOLEAN /\ tick' \in 0..(TickWrap - 1)
        /\ frames' \in 0..MaxFrames /\ age' \in 0..MaxFrames
    BY BaselineParts, Zenon DEF SectionInv
  <2>3. BaselineTypeOK' <=>
          /\ ReadingType' /\ latest' \subseteq Sample
          /\ slot' \in BOOLEAN /\ tick' \in 0..(TickWrap - 1)
          /\ frames' \in 0..MaxFrames /\ age' \in 0..MaxFrames /\ steady' \in 0..MaxFrames
    BY Zenon DEF BaselineTypeOK, ReadingType, Stages
  <2> QED BY <1>2, <2>1, <2>2, <2>3
<1>4. BaselineInv'
  <2>1. Since' = Since BY DEF Since
  <2>2. Since \in Nat BY SinceType DEF SectionInv
  <2>3. steady \in Nat BY BaselineParts DEF SectionInv
  <2> QED BY <1>2, <2>1, <2>2, <2>3 DEF SectionInv, BaselineInv
<1>5. SectionType' BY Zenon DEF SectionInv, SectionType
<1>6. FrozenInv' BY DEF SectionInv, FrozenInv
<1>7. ProbeInv'
  <2>1. Targets(mainHandle)' = Targets(mainHandle) BY TargetsUntouched
  <2> QED BY <2>1 DEF SectionInv, ProbeInv
<1> QED BY <1>1, <1>3, <1>4, <1>5, <1>6, <1>7 DEF SectionInv

\* The parts of the baseline's type in the next state.
LEMMA BaselinePartsNext ==
    ASSUME ReadingType', latest' \subseteq Sample, slot' \in BOOLEAN,
           tick' \in 0..(TickWrap - 1), frames' \in 0..MaxFrames, age' \in 0..MaxFrames,
           steady' \in 0..MaxFrames
    PROVE  BaselineTypeOK'
  BY Zenon DEF BaselineTypeOK, ReadingType, Stages

\* One call of MaybeCapture: the gate shut, open, or no anchor.
LEMMA CaptureStep ==
    ASSUME SectionInv, MaybeCapture, UNCHANGED <<pool, reportVars>>
    PROVE  SectionInv'
<1>0. /\ reading["main"].at = "off" /\ frames < MaxFrames /\ frames' = frames + 1
      /\ age' = IF age < MaxFrames THEN age + 1 ELSE age
      /\ steady' = IF single = 0 THEN 0 ELSE IF steady < MaxFrames THEN steady + 1 ELSE steady
      /\ slot' = slot /\ latest' = latest /\ single' = single
  BY DEF MaybeCapture, pool
<1>1. /\ ReadingType /\ latest \subseteq Sample /\ slot \in BOOLEAN
      /\ tick \in 0..(TickWrap - 1) /\ frames \in 0..MaxFrames /\ age \in 0..MaxFrames
      /\ steady \in 0..MaxFrames /\ MaxFrames \in Nat
  BY BaselineParts, BaselineAssumption DEF SectionInv
<1>2. frames' \in 0..MaxFrames /\ age' \in 0..MaxFrames /\ steady' \in 0..MaxFrames
  BY <1>0, <1>1
<1>3. slot' \in BOOLEAN BY <1>0, <1>1, Zenon
<1>4. "main" \in Readers /\ "watchdog" \in Readers /\ "watchdog" # "main" BY DEF Readers
<1>5. CASE ~slot
  <2>1. tick' = tick /\ reading' = reading BY <1>5 DEF MaybeCapture
  <2>2. ReadingType' BY <1>1, <2>1 DEF ReadingType
  <2>3. BaselineTypeOK' BY <1>0, <1>1, <1>2, <1>3, <2>1, <2>2, BaselinePartsNext
  <2>4. BaselineInv' BY <1>0, <1>5, <2>1 DEF SectionInv, BaselineInv
  <2> QED
    BY <2>1, <2>3, <2>4, PoolUntouched, SectionUntouched DEF SectionInv
<1>6. CASE slot /\ tick % Period # 0
  <2>1. tick' = (tick + 1) % TickWrap /\ reading' = reading BY <1>6 DEF MaybeCapture
  <2>2. ReadingType' BY <1>1, <2>1 DEF ReadingType
  <2>3. tick' \in 0..(TickWrap - 1) /\ Since \in Nat /\ Since' = Since + 1
    BY <1>1, <1>6, <2>1, GateCounts
  <2>4. BaselineTypeOK' BY <1>0, <1>1, <1>2, <1>3, <2>2, <2>3, BaselinePartsNext
  <2>5. BaselineInv'
    <3>1. /\ steady' > Since' => steady > Since
          /\ age <= Since => age' <= Since'
      BY <1>0, <1>1, <2>3
    <3>2. single' = 0 => steady' = 0 BY <1>0
    <3> HIDE DEF Since
    <3>3. slot' /\ steady' > Since' => age' <= Since' /\ latest' # {}
      BY <1>0, <1>6, <3>1 DEF SectionInv, BaselineInv
    <3> QED BY <1>0, <2>1, <3>2, <3>3 DEF SectionInv, BaselineInv
  <2> QED
    BY <2>1, <2>4, <2>5, PoolUntouched, SectionUntouched DEF SectionInv
<1>7. CASE slot /\ tick % Period = 0
  <2>1. tick' = (tick + 1) % TickWrap /\ Read("main", "slot", 0, EmptySample)
    BY <1>7 DEF MaybeCapture
  <2>2. EmptySample \in Sample /\ Len(EmptySample.entries) <= 0
    <3>1. EmptySample \in Sample /\ EmptySample.entries = <<>> BY EmptyIsSample
    <3> QED BY <3>1
  <2>3. "slot" \in Stages /\ 0 \in 0..MaxEntries BY BaselineAssumption DEF Stages
  <2>4. /\ ReadingType' /\ reading'["main"].at = "slot"
        /\ \A x \in Readers \ {"main"} : reading'[x] = reading[x]
    BY <1>1, <1>4, <2>1, <2>2, <2>3, ReadSets
  <2>5. tick' \in 0..(TickWrap - 1) /\ Since' = 0 BY <1>1, <1>7, <2>1, GateCounts
  <2>6. BaselineTypeOK' BY <1>0, <1>1, <1>2, <1>3, <2>4, <2>5, BaselinePartsNext
  <2>7. BaselineInv'
    <3>1. single' = 0 => steady' = 0 BY <1>0
    <3>2. \A r \in Readers : reading'[r].at = "sub" => reading'[r].next = 0
      BY <2>4 DEF SectionInv, BaselineInv
    <3> QED BY <1>0, <1>7, <2>4, <2>5, <3>1, <3>2 DEF SectionInv, BaselineInv
  <2>8. reading'["watchdog"] = reading["watchdog"] BY <1>4, <2>4
  <2> QED BY <2>6, <2>7, <2>8, PoolUntouched, SectionUntouched DEF SectionInv
<1> QED BY <1>5, <1>6, <1>7

\* One link of either sample keeps what is known of the healthy one.
LEMMA LinkStep ==
    ASSUME SectionInv, NEW r \in Readers, ReadLink(r), UNCHANGED pool
    PROVE  /\ BaselineTypeOK' /\ BaselineInv'
           /\ \A x \in Readers \ {r} : reading'[x] = reading[x]
<1>0. UNCHANGED <<slot, tick, latest, frames, age, steady, single>> BY DEF ReadLink, pool
<1>1. /\ ReadingType /\ latest \subseteq Sample /\ slot \in BOOLEAN
      /\ tick \in 0..(TickWrap - 1) /\ frames \in 0..MaxFrames /\ age \in 0..MaxFrames
      /\ steady \in 0..MaxFrames
  BY BaselineParts DEF SectionInv
<1>2. /\ ReadingType' /\ \A x \in Readers \ {r} : reading'[x] = reading[x]
      /\ reading[r].at # "off" /\ reading'[r].at \in {"sub", "entries", "done"}
      /\ reading'[r].at = "sub" => reading'[r].next = 0
      /\ reading'[r].at \in {"sub", "entries"} /\ reading'[r].sample.single = 0 =>
            reading[r].at # "slot" /\ reading[r].sample.single = 0
      /\ reading'[r].sample.single = 0 =>
            single = 0 \/ (reading[r].at # "slot" /\ reading[r].sample.single = 0)
      /\ reading[r].at \in {"slot", "sub", "entries"}
  <2>1. CASE ReadSingleton(r) BY <1>1, <2>1, SingletonLink DEF SectionInv
  <2>2. CASE ReadSubArray(r)
    <3>1. reading[r].next = 0 BY <2>2 DEF ReadSubArray, SectionInv, BaselineInv
    <3> QED BY <1>1, <2>2, <3>1, SubArrayLink DEF SectionInv
  <2>3. CASE ReadEntry(r) BY <1>1, <2>3, EntryLink DEF SectionInv
  <2> QED BY <2>1, <2>2, <2>3 DEF ReadLink
<1>3. BaselineTypeOK' BY <1>0, <1>1, <1>2, BaselinePartsNext
<1>4. BaselineInv'
  <2>0. Since' = Since BY <1>0 DEF Since
  <2>1. \A x \in Readers : reading'[x].at = "sub" => reading'[x].next = 0
    BY <1>2 DEF SectionInv, BaselineInv
  <2>2. CASE r = "main"
    <3>1. reading'["main"].at \in {"sub", "entries"} => reading'["main"].sample.single # 0
      BY <1>2, <2>2 DEF SectionInv, BaselineInv
    <3>2. reading'["main"].sample.single = 0 => steady = 0
      BY <1>2, <2>2 DEF SectionInv, BaselineInv
    <3>3. slot /\ Since = 0 BY <1>2, <2>2 DEF SectionInv, BaselineInv
    <3> QED
      BY <1>0, <1>2, <2>0, <2>1, <2>2, <3>1, <3>2, <3>3 DEF SectionInv, BaselineInv
  <2>3. CASE r # "main"
    <3>1. reading'["main"] = reading["main"] BY <1>2, <2>3 DEF Readers
    <3> QED BY <1>0, <2>0, <2>1, <3>1 DEF SectionInv, BaselineInv
  <2> QED BY <2>2, <2>3
<1> QED BY <1>2, <1>3, <1>4

\* The links and the commit of the healthy sample.
LEMMA BuildStep ==
    ASSUME SectionInv, BuildSample, UNCHANGED <<pool, reportVars>>
    PROVE  SectionInv'
<1>0. "main" \in Readers /\ "watchdog" \in Readers \ {"main"} BY DEF Readers
<1>1. ReadLink("main") BY DEF BuildSample
<1>2. /\ BaselineTypeOK' /\ BaselineInv' /\ reading'["watchdog"] = reading["watchdog"]
  BY <1>0, <1>1, LinkStep
<1> QED BY <1>2, PoolUntouched, SectionUntouched DEF SectionInv

\* A reader's record replaced as a whole.
LEMMA RecordSets ==
    ASSUME ReadingType, NEW r \in Readers, NEW rec,
           rec \in [at : Stages, next : 0..MaxEntries, sample : Sample],
           Len(rec.sample.entries) <= rec.next, reading' = [reading EXCEPT ![r] = rec]
    PROVE  /\ ReadingType' /\ reading'[r] = rec
           /\ \A x \in Readers \ {r} : reading'[x] = reading[x]
  BY DEF ReadingType

LEMMA CommitStep ==
    ASSUME SectionInv, Commit, UNCHANGED <<pool, reportVars>>
    PROVE  SectionInv'
<1>0. /\ reading["main"].at = "done" /\ UNCHANGED <<slot, tick, frames, steady>>
      /\ reading' = [reading EXCEPT !["main"] = Off] /\ single' = single
      /\ IF reading["main"].sample.single = 0 THEN UNCHANGED <<latest, age>>
         ELSE latest' = {reading["main"].sample} /\ age' = 0
  BY DEF Commit, pool
<1>1. /\ ReadingType /\ latest \subseteq Sample /\ slot \in BOOLEAN
      /\ tick \in 0..(TickWrap - 1) /\ frames \in 0..MaxFrames /\ age \in 0..MaxFrames
      /\ steady \in 0..MaxFrames /\ MaxFrames \in Nat
  BY BaselineParts, BaselineAssumption DEF SectionInv
<1>2. "main" \in Readers /\ "watchdog" \in Readers \ {"main"} BY DEF Readers
<1>3. /\ Off \in [at : Stages, next : 0..MaxEntries, sample : Sample]
      /\ Off.at = "off" /\ Len(Off.sample.entries) <= Off.next
  <2>1. EmptySample \in Sample /\ EmptySample.entries = <<>> BY EmptyIsSample
  <2>2. 0 \in 0..MaxEntries BY BaselineAssumption
  <2> QED BY <2>1, <2>2 DEF Off, Stages
<1>4. /\ ReadingType' /\ reading'["main"].at = "off"
      /\ \A x \in Readers \ {"main"} : reading'[x] = reading[x]
  <2> HIDE DEF Off
  <2> QED BY <1>0, <1>1, <1>2, <1>3, RecordSets
<1>5. reading["main"].sample \in Sample BY <1>1, <1>2 DEF ReadingType
<1>6. latest' \subseteq Sample /\ age' \in 0..MaxFrames BY <1>0, <1>1, <1>5
<1>7. BaselineTypeOK' BY <1>0, <1>1, <1>4, <1>6, BaselinePartsNext
<1>8. BaselineInv'
  <2>0. Since' = 0 /\ Since = 0 /\ slot BY <1>0 DEF Since, SectionInv, BaselineInv
  <2>1. \A x \in Readers : reading'[x].at = "sub" => reading'[x].next = 0
    BY <1>4 DEF SectionInv, BaselineInv
  <2>2. \A s \in latest' : s.single # 0
    BY <1>0 DEF SectionInv, BaselineInv
  <2>3. steady' > 0 => age' <= 0 /\ latest' # {}
    BY <1>0, <1>1 DEF SectionInv, BaselineInv
  <2> QED BY <1>0, <1>4, <2>0, <2>1, <2>2, <2>3 DEF SectionInv, BaselineInv
<1>9. reading'["watchdog"] = reading["watchdog"] BY <1>2, <1>4
<1> QED BY <1>7, <1>8, <1>9, PoolUntouched, SectionUntouched DEF SectionInv

\* The steps of the section: start, baseline, frozen sample, handle, threads, end.
LEMMA WriteSectionStep ==
    ASSUME SectionInv, Write, UNCHANGED pool
    PROVE  SectionInv'
<1>0. /\ step = "idle" /\ step' \in {"latest", "unavailable"} /\ quiet' = TRUE
      /\ UNCHANGED <<reading, baseline, mainHandle, left, holds, candidates>>
      /\ UNCHANGED <<baselineVars, single>>
  BY DEF Write, baselineVars, pool
<1>1. SectionType' BY <1>0 DEF SectionInv, SectionType
<1>2. FrozenInv' BY <1>0 DEF FrozenInv
<1>3. ProbeInv' BY <1>0 DEF SectionInv, ProbeInv
<1> QED BY <1>0, <1>1, <1>2, <1>3, PoolUntouched, BaselineUntouched DEF SectionInv

LEMMA LatestStep ==
    ASSUME SectionInv, Latest, UNCHANGED pool
    PROVE  SectionInv'
<1> DEFINE rec == [Off EXCEPT !.at = "slot"]
<1>0. /\ step = "latest" /\ step' = "frozen" /\ baseline' = latest
      /\ reading' = [reading EXCEPT !["watchdog"] = rec] /\ single' = single
      /\ UNCHANGED <<slot, tick, latest, frames, age, steady>>
      /\ UNCHANGED <<mainHandle, left, holds, candidates, quiet>>
  BY DEF Latest, pool
<1>1. /\ ReadingType /\ latest \subseteq Sample /\ slot \in BOOLEAN
      /\ tick \in 0..(TickWrap - 1) /\ frames \in 0..MaxFrames /\ age \in 0..MaxFrames
      /\ steady \in 0..MaxFrames
  BY BaselineParts DEF SectionInv
<1>2. "watchdog" \in Readers /\ "main" \in Readers \ {"watchdog"} BY DEF Readers
<1>3. /\ rec \in [at : Stages, next : 0..MaxEntries, sample : Sample]
      /\ rec.at = "slot" /\ Len(rec.sample.entries) <= rec.next
  <2>1. EmptySample \in Sample /\ EmptySample.entries = <<>> BY EmptyIsSample
  <2>2. 0 \in 0..MaxEntries BY BaselineAssumption
  <2>3. rec = [at |-> "slot", next |-> 0, sample |-> EmptySample] BY DEF Off
  <2> QED BY <2>1, <2>2, <2>3 DEF Stages
<1>4. /\ ReadingType' /\ reading'["watchdog"].at = "slot"
      /\ \A x \in Readers \ {"watchdog"} : reading'[x] = reading[x]
  <2> HIDE DEF rec
  <2> QED BY <1>0, <1>1, <1>2, <1>3, RecordSets
<1>5. BaselineTypeOK' BY <1>0, <1>1, <1>4, BaselinePartsNext
<1>6. BaselineInv'
  <2>0. Since' = Since BY <1>0 DEF Since
  <2>1. \A x \in Readers : reading'[x].at = "sub" => reading'[x].next = 0
    BY <1>4 DEF SectionInv, BaselineInv
  <2>2. reading'["main"] = reading["main"] BY <1>2, <1>4
  <2> QED BY <1>0, <2>0, <2>1, <2>2 DEF SectionInv, BaselineInv
<1>7. SectionType'
  <2>1. baseline' \subseteq Sample BY <1>0, <1>1
  <2>2. quiet' \in BOOLEAN BY <1>0, Zenon DEF SectionInv, SectionType
  <2> QED BY <1>0, <2>1, <2>2 DEF SectionInv, SectionType
<1>8. FrozenInv' BY <1>0, <1>4 DEF FrozenInv
<1>9. ProbeInv' BY <1>0 DEF SectionInv, ProbeInv
<1> QED BY <1>5, <1>6, <1>7, <1>8, <1>9, PoolUntouched DEF SectionInv

LEMMA FrozenLinkStep ==
    ASSUME SectionInv, step = "frozen", ReadLink("watchdog"),
           UNCHANGED <<step, baseline, mainHandle, left, holds, candidates, quiet>>,
           UNCHANGED pool
    PROVE  SectionInv'
<1>0. "watchdog" \in Readers BY DEF Readers
<1>1. BaselineTypeOK' /\ BaselineInv' BY <1>0, LinkStep
<1>2. UNCHANGED <<single, sub, queue, table, far, mainWait>> BY DEF pool
<1>3. SectionType' BY Zenon DEF SectionInv, SectionType
<1>4. ProbeInv' BY DEF SectionInv, ProbeInv
<1>5. ReadingType BY BaselineParts DEF SectionInv
<1>6. FrozenInv'
  <2> SUFFICES ASSUME quiet
               PROVE  /\ reading'["watchdog"].at = "sub" =>
                            single # 0 /\ frozenSample'.single = single /\ frozenSample'.entries = <<>>
                      /\ reading'["watchdog"].at = "entries" =>
                            /\ Alive /\ Mirrors(frozenSample', reading'["watchdog"].next)
                            /\ frozenSample'.single = single
                      /\ reading'["watchdog"].at = "done" =>
                            /\ IF Alive THEN Mirrors(frozenSample', MaxEntries)
                                        ELSE frozenSample'.entries = <<>>
                            /\ frozenSample'.single = single
    BY <1>2 DEF FrozenInv, Mirrors, Alive, Captured
  <2>0. frozenSample = reading["watchdog"].sample /\ frozenSample' = reading'["watchdog"].sample
    BY DEF frozenSample
  <2>1. CASE ReadSingleton("watchdog")
    BY <1>0, <1>5, <2>0, <2>1, SingletonLink DEF SectionInv, Alive
  <2>2. CASE ReadSubArray("watchdog")
    <3>1. /\ reading["watchdog"].next = 0 /\ single # 0 /\ frozenSample.single = single
          /\ frozenSample.entries = <<>>
      BY <1>0, <2>2 DEF ReadSubArray, SectionInv, BaselineInv, FrozenInv
    <3>2. /\ reading'["watchdog"].at \in {"entries", "done"}
          /\ reading'["watchdog"].at = "entries" <=> sub
          /\ frozenSample'.entries = <<>> /\ reading'["watchdog"].next = 0
          /\ frozenSample'.single = single
      BY <1>0, <1>5, <2>0, <2>2, <3>1, SubArrayLink DEF SectionInv
    <3>3. Mirrors(frozenSample', 0)
      <4>1. DOMAIN frozenSample'.entries = {} BY <3>2
      <4>2. \A q \in Queues : ~(q < 0) BY JobPoolAssumption
      <4> QED BY <4>1, <4>2 DEF Mirrors
    <3>4. Alive <=> sub BY <3>1 DEF Alive
    <3> QED BY <3>2, <3>3, <3>4
  <2>3. CASE ReadEntry("watchdog")
    <3>1. reading["watchdog"].at = "entries" BY <2>3 DEF ReadEntry
    <3>2. /\ Alive /\ Mirrors(frozenSample, reading["watchdog"].next)
          /\ frozenSample.single = single
      BY <3>1 DEF SectionInv, FrozenInv
    <3>3. /\ Mirrors(frozenSample', reading'["watchdog"].next)
          /\ reading'["watchdog"].at \in {"entries", "done"}
          /\ reading'["watchdog"].at = "done" => reading'["watchdog"].next = MaxEntries
          /\ frozenSample'.single = single
      BY <1>0, <1>5, <2>0, <2>3, <3>2, EntryLink DEF SectionInv
    <3> QED BY <3>2, <3>3
  <2> QED BY <2>1, <2>2, <2>3 DEF ReadLink
<1> QED BY <1>1, <1>3, <1>4, <1>6, PoolUntouched DEF SectionInv

LEMMA FrozenDoneStep ==
    ASSUME SectionInv, step = "frozen", reading["watchdog"].at = "done",
           step' = "attribute", UNCHANGED baselineVars, UNCHANGED pool,
           UNCHANGED <<baseline, mainHandle, left, holds, candidates, quiet>>
    PROVE  SectionInv'
<1>0. UNCHANGED <<single, sub, queue, table, far, mainWait, reading>>
  BY DEF pool, baselineVars
<1>1. quiet' \in BOOLEAN BY Zenon DEF SectionInv, SectionType
<1>2. SectionType' BY <1>1 DEF SectionInv, SectionType
<1>3. frozenSample' = frozenSample BY <1>0 DEF frozenSample
<1>4. FrozenInv' BY <1>0, <1>3 DEF SectionInv, FrozenInv, Mirrors, Alive, Captured
<1>5. ProbeInv' BY DEF SectionInv, ProbeInv
<1> QED BY <1>0, <1>2, <1>4, <1>5, PoolUntouched, BaselineUntouched DEF SectionInv

LEMMA HandleStep ==
    ASSUME SectionInv, ReadMainWaitHandle, UNCHANGED pool
    PROVE  SectionInv'
<1>0. /\ UNCHANGED <<single, sub, queue, table, far, mainWait, reading>>
      /\ UNCHANGED <<baselineVars, baseline, holds, candidates, quiet>>
      /\ step = "attribute" /\ step' \in {"probe", "done"}
  BY DEF ReadMainWaitHandle, pool, baselineVars
<1>1. mainWait \in Handles \cup {None} BY DEF SectionInv, JobPoolTypeOK
<1>2. /\ mainHandle' \in Handles \cup {None}
      /\ mainWait # None => mainHandle' = mainWait
      /\ mainHandle' = None => step' = "done" /\ left' = left
      /\ mainHandle' # None => step' = "probe" /\ left' = Workers
  BY <1>1 DEF ReadMainWaitHandle
<1>3. quiet' \in BOOLEAN BY <1>0, Zenon DEF SectionInv, SectionType
<1>4. SectionType' BY <1>0, <1>2, <1>3 DEF SectionInv, SectionType
<1>5. frozenSample' = frozenSample BY <1>0 DEF frozenSample
<1>6. FrozenInv' BY <1>0, <1>5 DEF SectionInv, FrozenInv, Mirrors, Alive, Captured
<1>7. ProbeInv' BY <1>0, <1>2 DEF SectionInv, ProbeInv
<1> QED BY <1>0, <1>4, <1>6, <1>7, PoolUntouched, BaselineUntouched DEF SectionInv

LEMMA ProbeStep ==
    ASSUME SectionInv, NEW w \in Workers, ProbeThread(w), UNCHANGED pool
    PROVE  SectionInv'
<1>0. PICK held \in {{}} \cup {{x} : x \in Held} :
        /\ holds' = [holds EXCEPT ![w] = held]
        /\ candidates' = IF held \cap Targets(mainHandle) # {}
                         THEN candidates \cup {w} ELSE candidates
  BY DEF ProbeThread
<1>1. /\ UNCHANGED <<single, sub, queue, table, far, mainWait, reading>>
      /\ UNCHANGED <<baselineVars, step, baseline, mainHandle, quiet>>
      /\ step = "probe" /\ w \in left /\ left' = left \ {w}
  BY DEF ProbeThread, pool, baselineVars
<1>2. Targets(mainHandle)' = Targets(mainHandle) /\ frozenSample' = frozenSample
  BY <1>1, TargetsUntouched
<1>3. /\ holds \in [Workers -> SUBSET Held]
      /\ left \subseteq Workers /\ candidates \subseteq Workers
  BY DEF SectionInv, SectionType
<1>4. held \subseteq Held OBVIOUS
<1>5. /\ holds' \in [Workers -> SUBSET Held]
      /\ holds'[w] = held /\ \A x \in Workers \ {w} : holds'[x] = holds[x]
  BY <1>0, <1>3, <1>4
<1>6. quiet' \in BOOLEAN BY <1>1, Zenon DEF SectionInv, SectionType
<1>7. SectionType' BY <1>0, <1>1, <1>3, <1>5, <1>6 DEF SectionInv, SectionType
<1>8. FrozenInv' BY <1>1, <1>2 DEF SectionInv, FrozenInv, Mirrors, Alive, Captured
<1>9. ProbeInv'
  <2>1. candidates \cap left = {} BY DEF SectionInv, ProbeInv
  <2>2. w \in candidates' <=> held \cap Targets(mainHandle) # {} BY <1>0, <1>1, <2>1
  <2>3. \A x \in Workers \ {w} : x \in candidates' <=> x \in candidates BY <1>0
  <2>4. candidates' \cap left' = {} BY <1>0, <1>1, <2>1
  <2>5. mainHandle' # None =>
          \A x \in Workers \ left' :
             x \in candidates' <=> holds'[x] \cap Targets(mainHandle) # {}
    <3> SUFFICES ASSUME mainHandle # None, NEW x \in Workers, x \notin left'
                 PROVE  x \in candidates' <=> holds'[x] \cap Targets(mainHandle) # {}
      BY <1>1
    <3>1. CASE x = w BY <1>5, <2>2, <3>1
    <3>2. CASE x # w
      <4>1. x \notin left BY <1>1, <3>2
      <4>2. x \in candidates <=> holds[x] \cap Targets(mainHandle) # {}
        BY <4>1 DEF SectionInv, ProbeInv
      <4> QED BY <1>5, <2>3, <3>2, <4>2
    <3> QED BY <3>1, <3>2
  <2> QED BY <1>1, <1>2, <2>4, <2>5 DEF SectionInv, ProbeInv
<1> QED BY <1>1, <1>7, <1>8, <1>9, PoolUntouched, BaselineUntouched DEF SectionInv

LEMMA ProbedStep ==
    ASSUME SectionInv, step = "probe", left = {}, step' = "done", UNCHANGED pool,
           UNCHANGED <<baselineVars, baseline, mainHandle, left, holds, candidates, quiet>>
    PROVE  SectionInv'
<1>0. UNCHANGED <<single, sub, queue, table, far, mainWait, reading>>
  BY DEF pool, baselineVars
<1>1. Targets(mainHandle)' = Targets(mainHandle) /\ frozenSample' = frozenSample
  BY <1>0, TargetsUntouched
<1>2. quiet' \in BOOLEAN BY Zenon DEF SectionInv, SectionType
<1>3. SectionType' BY <1>2 DEF SectionInv, SectionType
<1>4. FrozenInv' BY <1>0, <1>1 DEF SectionInv, FrozenInv, Mirrors, Alive, Captured
<1>5. ProbeInv' BY <1>0, <1>1 DEF SectionInv, ProbeInv
<1> QED BY <1>0, <1>3, <1>4, <1>5, PoolUntouched, BaselineUntouched DEF SectionInv

\* The invariant of the task-pool section.
LEMMA SectionInvariance == TaskPoolSpec => []SectionInv
<1>1. SectionInv /\ [TaskPoolNext]_taskPoolVars => SectionInv'
  <2> SUFFICES ASSUME SectionInv, [TaskPoolNext]_taskPoolVars PROVE SectionInv' OBVIOUS
  <2>1. CASE /\ step # "done" /\ PoolMove /\ quiet' = FALSE
             /\ steady' = IF single' = 0 THEN 0 ELSE steady
             /\ UNCHANGED <<slot, tick, latest, reading, frames, age>>
             /\ UNCHANGED <<step, baseline, mainHandle, left, holds, candidates>>
    BY <2>1, PoolStep
  <2>2. CASE BaselineStep /\ UNCHANGED <<pool, reportVars>>
    BY <2>2, CaptureStep, BuildStep, CommitStep DEF BaselineStep
  <2>3. CASE Write /\ UNCHANGED pool BY <2>3, WriteSectionStep
  <2>4. CASE Latest /\ UNCHANGED pool BY <2>4, LatestStep
  <2>5. CASE BuildFrozenSample /\ UNCHANGED pool
    BY <2>5, FrozenLinkStep, FrozenDoneStep DEF BuildFrozenSample
  <2>6. CASE WriteJobAttribution /\ UNCHANGED pool
    <3>1. CASE ReadMainWaitHandle BY <2>6, <3>1, HandleStep
    <3>2. CASE \E w \in Workers : ProbeThread(w) BY <2>6, <3>2, ProbeStep
    <3>3. CASE /\ step = "probe" /\ left = {} /\ step' = "done"
               /\ UNCHANGED <<baselineVars, baseline, mainHandle, left, holds, candidates, quiet>>
      BY <2>6, <3>3, ProbedStep
    <3> QED BY <2>6, <3>1, <3>2, <3>3 DEF WriteJobAttribution
  <2>7. CASE UNCHANGED taskPoolVars
    <3>1. UNCHANGED <<pool, baselineVars, reportVars>> BY <2>7 DEF taskPoolVars
    <3>2. UNCHANGED <<reading, single>> BY <3>1 DEF pool, baselineVars
    <3> QED
      BY <3>1, <3>2, PoolUntouched, BaselineUntouched, SectionUntouched DEF SectionInv
  <2> QED BY <2>1, <2>2, <2>3, <2>4, <2>5, <2>6, <2>7 DEF TaskPoolNext
<1> QED BY <1>1, InitSection, PTL DEF TaskPoolSpec
-----------------------------------------------------------------------------
(***************************************************************************)
(* What the section says.                                                  *)
(***************************************************************************)
\* The baseline that Latest copies is no older than a period of the gate once the
\* instance has been there that long, whatever the remainder of the counter's wrap by
\* the period, and is never the sample of a missing instance (TaskPoolBaseline.cpp:134-155).
THEOREM BaselineStaysSound == TaskPoolSpec => []BaselineIsSound
<1>1. SectionInv => BaselineIsSound
  <2> SUFFICES ASSUME SectionInv PROVE BaselineIsSound OBVIOUS
  <2>1. TaskPoolTypeOK BY TypeParts DEF SectionInv
  <2>2. Since \in Nat /\ Since < Period
    <3>0. TickWrap - 1 \in Nat /\ Period \in Nat \ {0} BY BaselineAssumption
    <3>1. CASE tick = 0
      <4>1. (TickWrap - 1) % Period \in 0..(Period - 1) BY <3>0, DivMod
      <4> QED BY <3>0, <3>1, <4>1 DEF Since
    <3>2. CASE tick # 0
      <4>1. tick - 1 \in Nat BY <3>0, <3>2 DEF SectionInv, BaselineTypeOK
      <4>2. (tick - 1) % Period \in 0..(Period - 1) BY <3>0, <4>1, DivMod
      <4> QED BY <3>0, <3>2, <4>2 DEF Since
    <3> QED BY <3>1, <3>2
  <2>3. age \in Nat /\ steady \in Nat /\ Period \in Nat
    BY BaselineParts, BaselineAssumption DEF SectionInv
  <2>4. BaselineIsRecent BY <2>2, <2>3 DEF BaselineIsRecent, SectionInv, BaselineInv
  <2> QED BY <2>1, <2>4 DEF BaselineIsSound
<1> QED BY <1>1, SectionInvariance, PTL

\* In a true freeze an entry is in the frozen sample exactly for its queue.
LEMMA FrozenEntries ==
    ASSUME SectionInv, Freeze
    PROVE  /\ mainHandle = mainWait /\ mainWait # None /\ left = {} /\ frozenSample \in Sample
           /\ \A i \in DOMAIN frozenSample.entries :
                \E q \in Queues : /\ Alive /\ q < MaxEntries /\ queue[q] # None
                                  /\ frozenSample.entries[i].ptr = queue[q]
                                  /\ frozenSample.entries[i].handle = Captured(queue[q]).handle
           /\ \A q \in Queues : Owns(q, mainWait) =>
                \E i \in DOMAIN frozenSample.entries : /\ frozenSample.entries[i].ptr = queue[q]
                                                       /\ frozenSample.entries[i].handle = mainWait
           /\ \A i, j \in DOMAIN frozenSample.entries :
                frozenSample.entries[i].ptr = frozenSample.entries[j].ptr => i = j
           /\ frozenSample.single = single
<1>1. step = "done" /\ quiet /\ mainWait # None BY DEF Freeze
<1>2. mainHandle = mainWait /\ left = {} BY <1>1 DEF SectionInv, ProbeInv
<1>3. frozenSample \in Sample
  <2>1. ReadingType /\ "watchdog" \in Readers BY BaselineParts DEF SectionInv, Readers
  <2> QED BY <2>1 DEF ReadingType, frozenSample
<1>4. /\ IF Alive THEN Mirrors(frozenSample, MaxEntries) ELSE frozenSample.entries = <<>>
      /\ frozenSample.single = single
  BY <1>1 DEF SectionInv, FrozenInv
<1>5. CASE ~Alive
  <2>1. DOMAIN frozenSample.entries = {} BY <1>4, <1>5
  <2> QED BY <1>1, <1>2, <1>3, <1>4, <1>5, <2>1 DEF Owns
<1>6. CASE Alive
  <2>1. Mirrors(frozenSample, MaxEntries) BY <1>4, <1>6
  <2>2. \A q \in Queues : queue[q] # None => queue[q] \in Entries
    BY DEF SectionInv, JobPoolTypeOK
  <2>3. \A e \in Entries : Captured(e).ptr = e BY CapturedType DEF SectionInv
  <2>4. \A i \in DOMAIN frozenSample.entries :
          \E q \in Queues : /\ Alive /\ q < MaxEntries /\ queue[q] # None
                            /\ frozenSample.entries[i].ptr = queue[q]
                            /\ frozenSample.entries[i].handle = Captured(queue[q]).handle
    BY <1>6, <2>1, <2>2, <2>3 DEF Mirrors
  <2>5. \A q \in Queues : Owns(q, mainWait) =>
          \E i \in DOMAIN frozenSample.entries : /\ frozenSample.entries[i].ptr = queue[q]
                                                 /\ frozenSample.entries[i].handle = mainWait
    <3> SUFFICES ASSUME NEW q \in Queues, Owns(q, mainWait)
                 PROVE  \E i \in DOMAIN frozenSample.entries :
                           /\ frozenSample.entries[i].ptr = queue[q]
                           /\ frozenSample.entries[i].handle = mainWait
      OBVIOUS
    <3>1. q < MaxEntries /\ queue[q] # None /\ table[queue[q]] = mainWait /\ mainWait \notin far
      BY DEF Owns
    <3>2. Captured(queue[q]).handle = mainWait BY <3>1 DEF Captured
    <3>3. PICK i \in DOMAIN frozenSample.entries : frozenSample.entries[i] = Captured(queue[q])
      BY <2>1, <3>1 DEF Mirrors
    <3> QED BY <2>2, <2>3, <3>1, <3>2, <3>3
  <2>6. \A i, j \in DOMAIN frozenSample.entries :
          frozenSample.entries[i].ptr = frozenSample.entries[j].ptr => i = j
    BY <2>1 DEF Mirrors
  <2> QED BY <1>1, <1>2, <1>3, <1>4, <2>4, <2>5, <2>6
<1> QED BY <1>5, <1>6

\* An entry whose handle was captured is the only one that has it.
LEMMA OneOwner ==
    ASSUME SectionInv, Freeze
    PROVE  /\ \A i \in OwningEntries(frozenSample, mainHandle) :
                \E q \in Queues : Owns(q, mainWait) /\ queue[q] = frozenSample.entries[i].ptr
           /\ \A i, j \in OwningEntries(frozenSample, mainHandle) : i = j
<1>1. \A i \in OwningEntries(frozenSample, mainHandle) :
        \E q \in Queues : Owns(q, mainWait) /\ queue[q] = frozenSample.entries[i].ptr
  <2> SUFFICES ASSUME NEW i \in OwningEntries(frozenSample, mainHandle)
               PROVE  \E q \in Queues : Owns(q, mainWait) /\ queue[q] = frozenSample.entries[i].ptr
    OBVIOUS
  <2>1. i \in DOMAIN frozenSample.entries /\ frozenSample.entries[i].handle = mainWait
    BY FrozenEntries DEF OwningEntries
  <2>2. PICK q \in Queues : /\ Alive /\ q < MaxEntries /\ queue[q] # None
                            /\ frozenSample.entries[i].ptr = queue[q]
                            /\ frozenSample.entries[i].handle = Captured(queue[q]).handle
    BY <2>1, FrozenEntries
  <2>3. mainWait # None BY FrozenEntries
  <2>4. table[queue[q]] = mainWait /\ mainWait \notin far BY <2>1, <2>2, <2>3 DEF Captured
  <2> QED BY <2>2, <2>4 DEF Owns
<1>2. ASSUME NEW i \in OwningEntries(frozenSample, mainHandle),
             NEW j \in OwningEntries(frozenSample, mainHandle)
      PROVE  i = j
  <2>1. PICK p \in Queues : Owns(p, mainWait) /\ queue[p] = frozenSample.entries[i].ptr BY <1>1
  <2>2. PICK q \in Queues : Owns(q, mainWait) /\ queue[q] = frozenSample.entries[j].ptr BY <1>1
  <2>3. queue[p] \in Entries /\ queue[q] \in Entries
    BY <2>1, <2>2 DEF Owns, SectionInv, JobPoolTypeOK
  <2>4. table[queue[p]] = mainWait /\ table[queue[q]] = mainWait BY <2>1, <2>2 DEF Owns
  <2>5. queue[p] = queue[q] BY <2>3, <2>4, FrozenEntries DEF SectionInv, PoolInv
  <2>6. i \in DOMAIN frozenSample.entries /\ j \in DOMAIN frozenSample.entries BY DEF OwningEntries
  <2> QED BY <2>1, <2>2, <2>5, <2>6, FrozenEntries
<1> QED BY <1>1, <1>2

\* What the section says of a true freeze is right: the queue named owns the handle
\* main waits for, a thread is named as a producer if it holds that handle, its entry
\* or the instance and only if it holds that handle or an object of the pool, and the
\* handle is printed when one of the two samples has it (TaskPool.cpp:464-545, 700-785).
THEOREM FreezeStaysAttributed == TaskPoolSpec => []FreezeIsAttributed
<1>1. SectionInv => HandleAttributed
  <2> SUFFICES ASSUME SectionInv, Freeze
               PROVE  LET i == PrimaryEntry(frozenSample, mainHandle) IN
                      /\ (\E q \in Queues : Owns(q, mainWait)) => i # 0
                      /\ i # 0 => \E q \in Queues : /\ Owns(q, mainWait)
                                                    /\ queue[q] = frozenSample.entries[i].ptr
    BY DEF HandleAttributed
  <2> DEFINE O == OwningEntries(frozenSample, mainHandle)
             i == PrimaryEntry(frozenSample, mainHandle)
  <2>1. CASE O = {}
    <3>1. i = 0 BY <2>1 DEF PrimaryEntry
    <3>2. ~ \E q \in Queues : Owns(q, mainWait)
      BY <2>1, FrozenEntries DEF OwningEntries
    <3> QED BY <3>1, <3>2
  <2>2. CASE O # {}
    <3>0. O \subseteq Nat \ {0}
      <4>1. frozenSample.entries \in Seq(Entry) BY FrozenEntries DEF Sample
      <4> QED BY <4>1 DEF OwningEntries
    <3>1. \E k \in O : \A j \in O : k <= j BY <2>2, <3>0, OneOwner
    <3>2. i = CHOOSE k \in O : \A j \in O : k <= j BY <2>2 DEF PrimaryEntry
    <3>3. i \in O BY <3>1, <3>2
    <3>4. i # 0 BY <3>0, <3>3
    <3> QED BY <3>3, <3>4, OneOwner
  <2> QED BY <2>1, <2>2
<1>2. SectionInv => ProducersAreNamed
  <2> SUFFICES ASSUME SectionInv, Freeze, NEW w \in Workers
               PROVE  /\ mainWait \in holds[w] => w \in candidates
                      /\ \A q \in Queues :
                            Owns(q, mainWait) /\ queue[q] \in holds[w] => w \in candidates
                      /\ single # 0 /\ single \in holds[w] => w \in candidates
                      /\ w \in candidates =>
                            \/ mainWait \in holds[w]
                            \/ single # 0 /\ single \in holds[w]
                            \/ \E q \in Queues : Alive /\ queue[q] # None /\ queue[q] \in holds[w]
    BY DEF ProducersAreNamed
  <2>1. w \in candidates <=> holds[w] \cap Targets(mainWait) # {}
    BY FrozenEntries DEF SectionInv, ProbeInv
  <2>2. mainWait \in Targets(mainWait) /\ (single # 0 => single \in Targets(mainWait))
    BY FrozenEntries DEF Targets
  <2>3. \A q \in Queues : Owns(q, mainWait) => queue[q] \in Targets(mainWait)
    <3> SUFFICES ASSUME NEW q \in Queues, Owns(q, mainWait)
                 PROVE  queue[q] \in Targets(mainWait)
      OBVIOUS
    <3>1. PICK i \in DOMAIN frozenSample.entries : frozenSample.entries[i].ptr = queue[q]
      BY FrozenEntries
    <3>2. frozenSample.entries[i] \in SampleEntries(frozenSample) BY DEF SampleEntries
    <3> QED BY <3>1, <3>2 DEF Targets
  <2>4. ASSUME NEW x \in Targets(mainWait), x # mainWait
        PROVE  \/ x = single /\ single # 0
               \/ \E q \in Queues : Alive /\ queue[q] # None /\ x = queue[q]
    <3>1. CASE x \in {frozenSample.single} \ {0} BY <3>1, FrozenEntries
    <3>2. CASE x \in {e.ptr : e \in SampleEntries(frozenSample)}
      <4>1. PICK i \in DOMAIN frozenSample.entries : x = frozenSample.entries[i].ptr
        BY <3>2 DEF SampleEntries
      <4> QED BY <4>1, FrozenEntries
    <3> QED BY <2>4, <3>1, <3>2 DEF Targets
  <2>5. ASSUME w \in candidates, mainWait \notin holds[w]
        PROVE  \/ single # 0 /\ single \in holds[w]
               \/ \E q \in Queues : Alive /\ queue[q] # None /\ queue[q] \in holds[w]
    <3>1. PICK x \in holds[w] : x \in Targets(mainWait) BY <2>1, <2>5
    <3>2. x # mainWait BY <2>5
    <3> QED BY <2>4, <3>1, <3>2
  <2> QED BY <2>1, <2>2, <2>3, <2>5
<1>3. SectionInv => HandleIsShown
  <2> SUFFICES ASSUME SectionInv, Freeze, mainWait \in EntryHandles(baseline \cup {frozenSample}),
                      frozenSample.entries = <<>> \/ \E q \in Queues : Owns(q, mainWait)
               PROVE  mainWait \in ShownHandles(baseline, frozenSample)
    BY DEF HandleIsShown
  <2>1. CASE frozenSample.entries = <<>>
    <3>1. SampleEntries(frozenSample) = {} BY <2>1 DEF SampleEntries
    <3>2. mainWait \in EntryHandles(baseline) BY <3>1 DEF EntryHandles
    <3> QED BY <2>1, <3>2 DEF ShownHandles
  <2>2. CASE \E q \in Queues : Owns(q, mainWait)
    <3>1. PICK i \in DOMAIN frozenSample.entries : frozenSample.entries[i].handle = mainWait
      BY <2>2, FrozenEntries
    <3>2. frozenSample.entries[i] \in SampleEntries(frozenSample) /\ frozenSample.entries # <<>>
      BY <3>1 DEF SampleEntries
    <3> QED BY <3>1, <3>2 DEF ShownHandles
  <2> QED BY <2>1, <2>2
<1>4. SectionInv => FreezeIsAttributed BY <1>1, <1>2, <1>3 DEF FreezeIsAttributed
<1> QED BY <1>4, SectionInvariance, PTL
-----------------------------------------------------------------------------
(***************************************************************************)
(* The report files, for any number of freezes and reports and whatever    *)
(* retention keeps.  A sequence of files changes by losing some and by one *)
(* at the end: Part(t) is what is left of the files.                       *)
(***************************************************************************)

\* A path names one file, a freeze has one report, a manual one is of no freeze.
OneEach(s, n) ==
    /\ \A i, j \in DOMAIN s : s[i].path = s[j].path => i = j
    /\ \A i, j \in DOMAIN s : s[i].of = n /\ s[j].of = n /\ n # 0 => i = j
    /\ \A i \in DOMAIN s : s[i].path.kind = "manual" <=> s[i].of = 0
    /\ \A i \in DOMAIN s : s[i].of <= n

\* The file being written is the last one, and of the freeze if the watchdog writes.
WriterInv ==
    /\ \A p \in Writers : doing[p] = "writing" <=> holder = p
    /\ holder # Nobody => /\ reports # <<>>
                          /\ reports[Len(reports)].of = IF holder = "hotkey" THEN 0 ELSE freezes
    /\ stalled["hotkey"] = "manual" /\ doing["hotkey"] # "resolving"
    /\ doing["watchdog"] \in {"waiting", "writing"} => stalled["watchdog"] \in Kinds /\ inFreeze
    /\ doing["watchdog"] = "resolving" => ~inFreeze
    /\ inFreeze \/ doing["watchdog"] = "resolving" => freezes >= 1

\* The last path is that of the freeze's report exactly as long as nothing disturbed it.
LatestInv ==
    /\ doing["watchdog"] = "waiting" => \A i \in DOMAIN reports : reports[i].of # freezes
    /\ doing["watchdog"] \in {"waiting", "writing"} => ~disturbed
    /\ inFreeze \/ doing["watchdog"] = "resolving" => ~Marked(freezes)
    /\ freezes >= 1 /\ ~disturbed /\ doing["watchdog"] \in {"polling", "resolving"} =>
          \E i \in DOMAIN reports : reports[i].path = lastReport /\ reports[i].of = freezes
    /\ freezes >= 1 /\ disturbed =>
          \A i \in DOMAIN reports : reports[i].path = lastReport => reports[i].of # freezes

ReporterInv == ReporterTypeOK /\ OneEach(reports, freezes) /\ WriterInv /\ LatestInv

\* The files of t are files of the directory, each at most once.
Part(t) ==
    /\ t \in Seq(Reports)
    /\ \E f \in [DOMAIN t -> DOMAIN reports] :
          /\ \A j \in DOMAIN t : t[j] = reports[f[j]]
          /\ \A j, k \in DOMAIN t : f[j] = f[k] => j = k

-----------------------------------------------------------------------------
(***************************************************************************)
(* The sequences of files.                                                 *)
(***************************************************************************)
LEMMA PartElement ==
    ASSUME NEW t, Part(t), NEW j \in DOMAIN t
    PROVE  \E i \in DOMAIN reports : t[j] = reports[i]
  BY DEF Part

\* All of the files, and all but one.
LEMMA PartAll == reports \in Seq(Reports) => Part(reports)
<1> SUFFICES ASSUME reports \in Seq(Reports) PROVE Part(reports) OBVIOUS
<1> DEFINE f == [j \in DOMAIN reports |-> j]
<1>1. f \in [DOMAIN reports -> DOMAIN reports] OBVIOUS
<1> QED BY <1>1 DEF Part

LEMMA PartDropped ==
    ASSUME reports \in Seq(Reports), NEW i \in DOMAIN reports
    PROVE  /\ Part(Dropped(i))
           /\ \A j \in DOMAIN Dropped(i) :
                \E k \in DOMAIN reports : k # i /\ Dropped(i)[j] = reports[k]
           /\ \A k \in DOMAIN reports \ {i} :
                \E j \in DOMAIN Dropped(i) : Dropped(i)[j] = reports[k]
<1> DEFINE n == Len(reports)
           src(j) == IF j < i THEN j ELSE j + 1
           f == [j \in 1..n - 1 |-> src(j)]
<1>1. n \in Nat /\ DOMAIN reports = 1..n /\ i \in 1..n OBVIOUS
<1>2. \A j \in 1..n - 1 : src(j) \in 1..n /\ src(j) # i BY <1>1
<1>3. \A j, k \in 1..n - 1 : src(j) = src(k) => j = k BY <1>1
<1>4. DOMAIN Dropped(i) = 1..n - 1 /\ \A j \in 1..n - 1 : Dropped(i)[j] = reports[src(j)]
  BY DEF Dropped
<1>5. \A k \in 1..n : reports[k] \in Reports BY <1>1
<1>6. Dropped(i) \in Seq(Reports)
  <2>1. n - 1 \in Nat BY <1>1
  <2>2. Dropped(i) \in [1..n - 1 -> Reports] BY <1>2, <1>5 DEF Dropped
  <2> QED BY <2>1, <2>2
<1>7. \A k \in DOMAIN reports \ {i} :
        \E j \in DOMAIN Dropped(i) : Dropped(i)[j] = reports[k]
  <2> SUFFICES ASSUME NEW k \in 1..n, k # i
               PROVE  \E j \in 1..n - 1 : src(j) = k
    BY <1>1, <1>4
  <2>1. CASE k < i BY <1>1, <2>1
  <2>2. CASE k > i
    <3>1. k - 1 \in 1..n - 1 /\ src(k - 1) = k BY <1>1, <2>2
    <3> QED BY <3>1
  <2> QED BY <1>1, <2>1, <2>2
<1>8. \A j \in DOMAIN Dropped(i) :
        \E k \in DOMAIN reports : k # i /\ Dropped(i)[j] = reports[k]
  BY <1>1, <1>2, <1>4
<1>9. Part(Dropped(i))
  <2>1. f \in [DOMAIN Dropped(i) -> DOMAIN reports] BY <1>1, <1>2, <1>4
  <2>2. \A j \in DOMAIN Dropped(i) : Dropped(i)[j] = reports[f[j]] BY <1>4
  <2>3. \A j, k \in DOMAIN Dropped(i) : f[j] = f[k] => j = k BY <1>3, <1>4
  <2> QED BY <1>6, <2>1, <2>2, <2>3 DEF Part
<1> QED BY <1>7, <1>8, <1>9

\* What retention keeps: a tail, with the newest file.
LEMMA PartTail ==
    ASSUME reports \in Seq(Reports), NEW m \in 1..Len(reports)
    PROVE  LET t == SubSeq(reports, m, Len(reports)) IN
           /\ Part(t) /\ t # <<>> /\ t[Len(t)] = reports[Len(reports)]
           /\ Len(t) \in DOMAIN t
<1> DEFINE n == Len(reports)
           t == SubSeq(reports, m, n)
           f == [j \in 1..n - m + 1 |-> m + j - 1]
<1>1. n \in Nat /\ DOMAIN reports = 1..n /\ m \in 1..n OBVIOUS
<1>2. n - m + 1 \in Nat /\ n - m + 1 >= 1 BY <1>1
<1>3. /\ t \in Seq(Reports) /\ Len(t) = n - m + 1 /\ DOMAIN t = 1..n - m + 1
      /\ \A j \in 1..n - m + 1 : t[j] = reports[m + j - 1]
  BY <1>1, <1>2
<1>4. f \in [DOMAIN t -> DOMAIN reports] BY <1>1, <1>3
<1>5. \A j, k \in DOMAIN t : f[j] = f[k] => j = k BY <1>1, <1>3
<1>6. \A j \in DOMAIN t : t[j] = reports[f[j]] BY <1>3
<1>7. Part(t) BY <1>3, <1>4, <1>5, <1>6 DEF Part
<1> HIDE DEF t, f
<1>8. Len(t) \in DOMAIN t /\ t[Len(t)] = reports[n] BY <1>1, <1>2, <1>3
<1>9. t # <<>> BY <1>2, <1>3
<1> QED BY <1>7, <1>8, <1>9 DEF t

\* Without a path no file has it, and the others are still there.
LEMMA PartWithout ==
    ASSUME reports \in Seq(Reports), NEW path,
           \A i, j \in DOMAIN reports : reports[i].path = reports[j].path => i = j
    PROVE  /\ Part(Without(path))
           /\ \A j \in DOMAIN Without(path) : Without(path)[j].path # path
           /\ \A k \in DOMAIN reports : reports[k].path # path =>
                \E j \in DOMAIN Without(path) : Without(path)[j] = reports[k]
           /\ Exists(path) => At(path) \in DOMAIN reports /\ reports[At(path)].path = path
<1>1. Exists(path) => At(path) \in DOMAIN reports /\ reports[At(path)].path = path
  BY DEF Exists, At
<1>2. CASE Exists(path)
  <2>1. Without(path) = Dropped(At(path)) BY <1>2 DEF Without
  <2>2. \A k \in DOMAIN reports : k # At(path) => reports[k].path # path BY <1>1, <1>2
  <2>3. \A k \in DOMAIN reports : reports[k].path # path => k # At(path) BY <1>1, <1>2
  <2> QED BY <1>1, <1>2, <2>1, <2>2, <2>3, PartDropped
<1>3. CASE ~Exists(path)
  <2>1. Without(path) = reports BY <1>3 DEF Without
  <2> QED BY <1>1, <1>3, <2>1, PartAll DEF Exists
<1> QED BY <1>2, <1>3

\* What names one file each still does when some are gone.
LEMMA PartOneEach ==
    ASSUME NEW n, OneEach(reports, n), NEW t, Part(t)
    PROVE  OneEach(t, n)
<1>1. PICK f \in [DOMAIN t -> DOMAIN reports] :
        /\ \A j \in DOMAIN t : t[j] = reports[f[j]]
        /\ \A j, k \in DOMAIN t : f[j] = f[k] => j = k
  BY DEF Part
<1>2. \A j \in DOMAIN t : f[j] \in DOMAIN reports /\ t[j] = reports[f[j]] BY <1>1
<1>3. \A i, j \in DOMAIN t : t[i].path = t[j].path => i = j BY <1>1, <1>2 DEF OneEach
<1>4. \A i, j \in DOMAIN t : t[i].of = n /\ t[j].of = n /\ n # 0 => i = j
  BY <1>1, <1>2 DEF OneEach
<1>5. \A i \in DOMAIN t : t[i].path.kind = "manual" <=> t[i].of = 0 BY <1>2 DEF OneEach
<1>6. \A i \in DOMAIN t : t[i].of <= n BY <1>2 DEF OneEach
<1> QED BY <1>3, <1>4, <1>5, <1>6 DEF OneEach

\* A new file comes last.
LEMMA AppendFile ==
    ASSUME NEW t \in Seq(Reports), NEW r \in Reports
    PROVE  LET u == Append(t, r) IN
           /\ u \in Seq(Reports) /\ Len(u) = Len(t) + 1 /\ u # <<>>
           /\ Len(u) \in DOMAIN u /\ u[Len(u)] = r
           /\ \A i \in DOMAIN u : \/ i \in DOMAIN t /\ u[i] = t[i]
                                  \/ i = Len(u) /\ u[i] = r
           /\ \A i \in DOMAIN t : i \in DOMAIN u /\ u[i] = t[i]
<1> DEFINE u == Append(t, r)
<1>1. Len(t) \in Nat /\ DOMAIN t = 1..Len(t) OBVIOUS
<1>2. /\ u \in Seq(Reports) /\ Len(u) = Len(t) + 1 /\ DOMAIN u = 1..Len(t) + 1
      /\ \A i \in 1..Len(t) : u[i] = t[i]
      /\ u[Len(t) + 1] = r
  BY <1>1
<1>3. u # <<>> BY <1>1, <1>2
<1> HIDE DEF u
<1>4. Len(u) \in DOMAIN u /\ u[Len(u)] = r BY <1>1, <1>2
<1>5. \A i \in DOMAIN u : \/ i \in DOMAIN t /\ u[i] = t[i]
                          \/ i = Len(u) /\ u[i] = r
  BY <1>1, <1>2
<1>6. \A i \in DOMAIN t : i \in DOMAIN u /\ u[i] = t[i] BY <1>1, <1>2
<1> QED BY <1>2, <1>3, <1>4, <1>5, <1>6 DEF u

\* And names one more thing, if no other file named it.
LEMMA AppendOneEach ==
    ASSUME NEW t \in Seq(Reports), NEW r \in Reports, NEW n \in Nat, OneEach(t, n),
           \A i \in DOMAIN t : t[i].path # r.path,
           r.of = n /\ n # 0 => \A i \in DOMAIN t : t[i].of # n,
           r.path.kind = "manual" <=> r.of = 0, r.of <= n
    PROVE  OneEach(Append(t, r), n)
<1> DEFINE u == Append(t, r)
<1>1. \A i \in DOMAIN u : \/ i \in DOMAIN t /\ u[i] = t[i]
                          \/ i = Len(u) /\ u[i] = r
  BY AppendFile
<1> HIDE DEF u
<1>2. \A i, j \in DOMAIN u : u[i].path = u[j].path => i = j BY <1>1 DEF OneEach
<1>3. \A i, j \in DOMAIN u : u[i].of = n /\ u[j].of = n /\ n # 0 => i = j
  BY <1>1 DEF OneEach
<1>4. \A i \in DOMAIN u : u[i].path.kind = "manual" <=> u[i].of = 0 BY <1>1 DEF OneEach
<1>5. \A i \in DOMAIN u : u[i].of <= n BY <1>1 DEF OneEach
<1>6. OneEach(u, n) BY <1>2, <1>3, <1>4, <1>5 DEF OneEach
<1> QED BY <1>6 DEF u
-----------------------------------------------------------------------------
(***************************************************************************)
(* The steps.                                                              *)
(***************************************************************************)
LEMMA ReporterStarts == ReporterInit => ReporterInv
<1> SUFFICES ASSUME ReporterInit PROVE ReporterInv OBVIOUS
<1> USE KeepAssumption, ReporterBounds
<1>1. ReporterTypeOK
  <2>1. doing \in [Writers -> Phases] /\ stalled \in [Writers -> Kinds \cup {"manual"}]
    BY DEF ReporterInit, Writers, Phases, Kinds
  <2>2. second \in 0..MaxSeconds /\ freezes \in 0..MaxFreezes /\ reports \in Seq(Reports)
        /\ lastReport \in Paths \cup {NoPath} /\ holder \in Writers \cup {Nobody}
    BY DEF ReporterInit
  <2>3. frozen \in BOOLEAN /\ keyDown \in BOOLEAN /\ wasDown \in BOOLEAN
        /\ inFreeze \in BOOLEAN /\ disturbed \in BOOLEAN /\ appends \in BOOLEAN
    BY Zenon DEF ReporterInit
  <2> QED BY <2>1, <2>2, <2>3 DEF ReporterTypeOK
<1>2. reports = <<>> /\ DOMAIN reports = {} BY DEF ReporterInit
<1>3. OneEach(reports, freezes) BY <1>2 DEF OneEach
<1>4. ~inFreeze /\ ~disturbed BY Zenon DEF ReporterInit
<1>5. /\ doing["watchdog"] = "polling" /\ doing["hotkey"] = "polling"
      /\ stalled["hotkey"] = "manual" /\ holder = Nobody /\ freezes = 0
  BY DEF ReporterInit, Writers
<1>6. WriterInv
  <2>1. \A p \in Writers : doing[p] = "writing" <=> holder = p
    BY <1>5 DEF Writers, Nobody
  <2>2. ~(doing["watchdog"] \in {"waiting", "writing"}) /\ doing["watchdog"] # "resolving"
        /\ doing["hotkey"] # "resolving"
    BY <1>5
  <2> QED BY <1>4, <1>5, <2>1, <2>2 DEF WriterInv
<1>7. LatestInv BY <1>2, <1>4, <1>5 DEF LatestInv
<1> QED BY <1>1, <1>3, <1>6, <1>7 DEF ReporterInv

\* Nothing of the reporter's own changes: the game, the clock, the player.
LEMMA OthersInv ==
    ASSUME ReporterInv, ReporterTypeOK',
           UNCHANGED <<loops, doing, stalled, holder, disk, disturbed>>
    PROVE  ReporterInv'
<1>1. /\ inFreeze' = inFreeze /\ freezes' = freezes /\ doing' = doing /\ stalled' = stalled
      /\ holder' = holder /\ reports' = reports /\ lastReport' = lastReport
      /\ disturbed' = disturbed
  BY DEF loops, disk
<1>2. OneEach(reports, freezes)' BY <1>1 DEF ReporterInv, OneEach
<1>3. WriterInv' BY <1>1 DEF ReporterInv, WriterInv
<1>4. LatestInv' BY <1>1 DEF ReporterInv, LatestInv, Marked
<1> QED BY <1>2, <1>3, <1>4 DEF ReporterInv

\* The steps of the reporter, one by one.
LEMMA StepOthers == ReporterInv /\ Others => ReporterInv'
<1> SUFFICES ASSUME ReporterInv, Others PROVE ReporterInv' OBVIOUS
<1> USE KeepAssumption, ReporterBounds
<1>1. UNCHANGED <<loops, doing, stalled, holder, disk, disturbed>> BY DEF Others
<1>2. second' \in 0..MaxSeconds
  BY DEF Others, Tick, Stall, PressKey, Blocks, ReporterInv, ReporterTypeOK
<1>3. frozen' \in BOOLEAN /\ keyDown' \in BOOLEAN /\ appends' \in BOOLEAN
  BY Zenon DEF Others, Tick, Stall, PressKey, Blocks, ReporterInv, ReporterTypeOK
<1>4. ReporterTypeOK'
  BY <1>1, <1>2, <1>3 DEF ReporterInv, ReporterTypeOK, loops, disk
<1> QED BY <1>1, <1>4, OthersInv

LEMMA StepStutter == ReporterInv /\ UNCHANGED reporterVars => ReporterInv'
<1> SUFFICES ASSUME ReporterInv, UNCHANGED reporterVars PROVE ReporterInv' OBVIOUS
<1>1. UNCHANGED <<loops, doing, stalled, holder, disk, disturbed>> /\ UNCHANGED clocks
  BY DEF reporterVars
<1>2. ReporterTypeOK' BY <1>1 DEF ReporterInv, ReporterTypeOK, loops, disk, clocks
<1> QED BY <1>1, <1>2, OthersInv

\* The two writers do not share a phase, and the freeze of a report is a number.
LEMMA ReporterFacts ==
    ASSUME ReporterInv
    PROVE  /\ freezes \in Nat /\ freezes \in 0..MaxFreezes
           /\ DOMAIN doing = Writers /\ DOMAIN stalled = Writers
           /\ reports \in Seq(Reports)
           /\ \A i \in DOMAIN reports : reports[i] \in Reports /\ reports[i].of \in Nat
           /\ OneEach(reports, freezes)
<1> USE KeepAssumption, ReporterBounds
<1>1. /\ freezes \in Nat /\ freezes \in 0..MaxFreezes /\ DOMAIN doing = Writers
      /\ DOMAIN stalled = Writers /\ reports \in Seq(Reports)
  BY DEF ReporterInv, ReporterTypeOK
<1>2. \A i \in DOMAIN reports : reports[i] \in Reports BY <1>1
<1>3. \A r \in Reports : r.of \in Nat BY DEF Reports
<1> QED BY <1>1, <1>2, <1>3 DEF ReporterInv

LEMMA StepHotkeyLoop == ReporterInv /\ HotkeyLoop => ReporterInv'
<1> SUFFICES ASSUME ReporterInv, HotkeyLoop PROVE ReporterInv' OBVIOUS
<1> USE ReporterFacts
<1> DEFINE ph == IF keyDown /\ ~wasDown THEN "waiting" ELSE "polling"
<1>0. ph \in {"waiting", "polling"} OBVIOUS
<1> HIDE DEF ph
<1>1. /\ doing["hotkey"] = "polling"
      /\ doing' = [doing EXCEPT !["hotkey"] = ph]
      /\ stalled' = [stalled EXCEPT !["hotkey"] = "manual"]
  BY DEF HotkeyLoop, Calls, ph
<1>2. /\ second' = second /\ frozen' = frozen /\ keyDown' = keyDown /\ wasDown' = keyDown
      /\ appends' = appends
      /\ inFreeze' = inFreeze /\ freezes' = freezes /\ holder' = holder
      /\ reports' = reports /\ lastReport' = lastReport /\ disturbed' = disturbed
  BY DEF HotkeyLoop, Calls, clocks, disk
<1>3. /\ doing'["hotkey"] = ph /\ doing'["watchdog"] = doing["watchdog"]
      /\ stalled'["hotkey"] = "manual" /\ stalled'["watchdog"] = stalled["watchdog"]
  BY <1>1 DEF Writers
<1>4. ReporterTypeOK'
  <2>1. doing' \in [Writers -> Phases] /\ stalled' \in [Writers -> Kinds \cup {"manual"}]
    BY <1>0, <1>1 DEF ReporterInv, ReporterTypeOK, Phases
  <2>2. wasDown' \in BOOLEAN BY <1>2, Zenon DEF ReporterInv, ReporterTypeOK
  <2> QED BY <1>2, <2>1, <2>2 DEF ReporterInv, ReporterTypeOK
<1>5. OneEach(reports, freezes)' BY <1>2 DEF ReporterInv, OneEach
<1>6. WriterInv'
  <2>1. \A p \in Writers : (doing[p] = "writing" <=> holder = p)'
    BY <1>0, <1>1, <1>2, <1>3 DEF ReporterInv, WriterInv, Writers
  <2>2. doing'["hotkey"] # "resolving" BY <1>0, <1>3
  <2>3. (holder # Nobody => /\ reports # <<>>
           /\ reports[Len(reports)].of = IF holder = "hotkey" THEN 0 ELSE freezes)'
    BY <1>2 DEF ReporterInv, WriterInv
  <2> QED BY <1>2, <1>3, <2>1, <2>2, <2>3 DEF ReporterInv, WriterInv
<1>7. LatestInv' BY <1>2, <1>3 DEF ReporterInv, LatestInv, Marked
<1> QED BY <1>4, <1>5, <1>6, <1>7 DEF ReporterInv

LEMMA StepAnnotateResolve == ReporterInv /\ AnnotateResolve => ReporterInv'
<1> SUFFICES ASSUME ReporterInv, AnnotateResolve PROVE ReporterInv' OBVIOUS
<1> USE ReporterFacts
<1> DEFINE ph == IF Annotates THEN "resolving" ELSE "polling"
<1>0. ph \in {"resolving", "polling"} OBVIOUS
<1> HIDE DEF ph
<1>1. /\ doing["watchdog"] = "polling" /\ inFreeze
      /\ doing' = [doing EXCEPT !["watchdog"] = ph]
      /\ stalled' = [stalled EXCEPT !["watchdog"] = stalled["watchdog"]]
  BY DEF AnnotateResolve, Calls, ph
<1>2. /\ second' = second /\ frozen' = frozen /\ keyDown' = keyDown /\ wasDown' = wasDown
      /\ appends' = appends
      /\ freezes' = freezes /\ holder' = holder
      /\ reports' = reports /\ lastReport' = lastReport /\ disturbed' = disturbed
  BY DEF AnnotateResolve, Calls, clocks, disk
<1>3. /\ doing'["watchdog"] = ph /\ doing'["hotkey"] = doing["hotkey"] /\ stalled' = stalled
  BY <1>1 DEF Writers, ReporterInv, ReporterTypeOK
<1>4. ~inFreeze' /\ inFreeze' \in BOOLEAN BY Zenon DEF AnnotateResolve
<1>5. ReporterTypeOK'
  <2>1. doing' \in [Writers -> Phases]
    BY <1>0, <1>1 DEF ReporterInv, ReporterTypeOK, Phases
  <2> QED BY <1>2, <1>3, <1>4, <2>1 DEF ReporterInv, ReporterTypeOK
<1>6. OneEach(reports, freezes)' BY <1>2 DEF ReporterInv, OneEach
<1>7. WriterInv'
  <2>1. \A p \in Writers : (doing[p] = "writing" <=> holder = p)'
    BY <1>0, <1>1, <1>2, <1>3 DEF ReporterInv, WriterInv, Writers
  <2>2. ~(doing'["watchdog"] \in {"waiting", "writing"}) BY <1>0, <1>3
  <2>3. (holder # Nobody => /\ reports # <<>>
           /\ reports[Len(reports)].of = IF holder = "hotkey" THEN 0 ELSE freezes)'
    BY <1>2 DEF ReporterInv, WriterInv
  <2>4. freezes' >= 1 BY <1>1, <1>2 DEF ReporterInv, WriterInv
  <2>5. stalled'["hotkey"] = "manual" /\ doing'["hotkey"] # "resolving"
    BY <1>3 DEF ReporterInv, WriterInv
  <2> QED BY <1>4, <2>1, <2>2, <2>3, <2>4, <2>5 DEF WriterInv
<1>8. LatestInv'
  <2>1. ~(doing'["watchdog"] \in {"waiting", "writing"}) /\ doing'["watchdog"] # "waiting"
    BY <1>0, <1>3
  <2>2. ~Marked(freezes)' BY <1>1, <1>2 DEF ReporterInv, LatestInv, Marked
  <2>3. (freezes >= 1 /\ ~disturbed =>
          \E i \in DOMAIN reports : reports[i].path = lastReport /\ reports[i].of = freezes)'
    BY <1>1, <1>2 DEF ReporterInv, LatestInv
  <2>4. (freezes >= 1 /\ disturbed =>
          \A i \in DOMAIN reports : reports[i].path = lastReport => reports[i].of # freezes)'
    BY <1>2 DEF ReporterInv, LatestInv
  <2> QED BY <2>1, <2>2, <2>3, <2>4 DEF LatestInv
<1> QED BY <1>5, <1>6, <1>7, <1>8 DEF ReporterInv

LEMMA StepEmitSnapshot ==
    ASSUME ReporterInv, NEW kind \in Kinds, EmitSnapshot(kind) PROVE ReporterInv'
<1> USE ReporterFacts
<1>1. /\ doing["watchdog"] = "polling"
      /\ doing' = [doing EXCEPT !["watchdog"] = "waiting"]
      /\ stalled' = [stalled EXCEPT !["watchdog"] = kind]
  BY DEF EmitSnapshot, Calls
<1>2. /\ second' = second /\ frozen' = frozen /\ keyDown' = keyDown /\ wasDown' = wasDown
      /\ appends' = appends
      /\ holder' = holder /\ reports' = reports /\ lastReport' = lastReport
  BY DEF EmitSnapshot, Calls, clocks, disk
<1>3. freezes' = freezes + 1 /\ freezes < MaxFreezes BY DEF EmitSnapshot
<1>4. inFreeze' /\ inFreeze' \in BOOLEAN /\ ~disturbed' /\ disturbed' \in BOOLEAN
  BY Zenon DEF EmitSnapshot
<1>5. /\ doing'["watchdog"] = "waiting" /\ doing'["hotkey"] = doing["hotkey"]
      /\ stalled'["watchdog"] = kind /\ stalled'["hotkey"] = stalled["hotkey"]
  BY <1>1 DEF Writers
<1>6. ReporterTypeOK'
  <2>1. doing' \in [Writers -> Phases] /\ stalled' \in [Writers -> Kinds \cup {"manual"}]
    BY <1>1 DEF ReporterInv, ReporterTypeOK, Phases
  <2>2. freezes' \in 0..MaxFreezes BY <1>3, ReporterBounds
  <2> QED BY <1>2, <1>4, <2>1, <2>2 DEF ReporterInv, ReporterTypeOK
<1>7. \A i \in DOMAIN reports : reports[i].of # freezes' /\ reports[i].of <= freezes'
  BY <1>3 DEF OneEach
<1>8. OneEach(reports', freezes')
  BY <1>2, <1>7 DEF OneEach
<1>9. holder # "watchdog" BY <1>1 DEF ReporterInv, WriterInv, Writers
<1>10. WriterInv'
  <2>1. \A p \in Writers : (doing[p] = "writing" <=> holder = p)'
    BY <1>1, <1>2, <1>5 DEF ReporterInv, WriterInv, Writers
  <2>2. (holder # Nobody => /\ reports # <<>>
           /\ reports[Len(reports)].of = IF holder = "hotkey" THEN 0 ELSE freezes)'
    <3>1. holder # Nobody => holder = "hotkey"
      BY <1>9 DEF ReporterInv, ReporterTypeOK, Writers
    <3> QED BY <1>2, <3>1 DEF ReporterInv, WriterInv
  <2>3. freezes' >= 1 BY <1>3
  <2>4. stalled'["hotkey"] = "manual" /\ doing'["hotkey"] # "resolving"
    BY <1>5 DEF ReporterInv, WriterInv
  <2> QED BY <1>4, <1>5, <2>1, <2>2, <2>3, <2>4 DEF WriterInv
<1>11. LatestInv'
  <2>1. (\A i \in DOMAIN reports : reports[i].of # freezes)' BY <1>2, <1>7
  <2>2. ~Marked(freezes)' BY <2>1 DEF Marked
  <2> QED BY <1>4, <1>5, <2>1, <2>2 DEF LatestInv
<1> QED BY <1>6, <1>8, <1>10, <1>11 DEF ReporterInv

\* What is left of a directory is typed, and no file of it is of another freeze.
LEMMA PartFacts ==
    ASSUME ReporterInv, NEW t, Part(t)
    PROVE  /\ t \in Seq(Reports) /\ OneEach(t, freezes)
           /\ \A j \in DOMAIN t : \E i \in DOMAIN reports : t[j] = reports[i]
BY ReporterFacts, PartOneEach, PartElement DEF Part

LEMMA StepDeletes ==
    ASSUME ReporterInv, NEW i \in DOMAIN reports, Deletes(i) PROVE ReporterInv'
<1> USE ReporterFacts
<1>1. /\ holder = Nobody /\ reports' = Dropped(i) /\ holder' = holder /\ doing' = doing
      /\ stalled' = stalled /\ lastReport' = lastReport /\ inFreeze' = inFreeze
      /\ freezes' = freezes
  BY DEF Deletes, loops
<1>2. disturbed' <=> disturbed \/ reports[i].of = freezes BY Zenon DEF Deletes
<1>3. disturbed' \in BOOLEAN BY Zenon DEF Deletes
<1>4. /\ Part(reports')
      /\ \A j \in DOMAIN reports' : \E k \in DOMAIN reports : k # i /\ reports'[j] = reports[k]
      /\ \A k \in DOMAIN reports \ {i} : \E j \in DOMAIN reports' : reports'[j] = reports[k]
  BY <1>1, PartDropped
<1>5. reports' \in Seq(Reports) /\ OneEach(reports', freezes') BY <1>1, <1>4, PartFacts
<1>6. ReporterTypeOK'
  <2>1. UNCHANGED <<clocks, loops>> BY DEF Deletes
  <2> QED BY <1>1, <1>3, <1>5, <2>1 DEF ReporterInv, ReporterTypeOK, clocks, loops
<1>7. WriterInv' BY <1>1 DEF ReporterInv, WriterInv
<1>8. LatestInv'
  <2>1. (doing["watchdog"] = "waiting" => \A j \in DOMAIN reports : reports[j].of # freezes)'
    BY <1>1, <1>4 DEF ReporterInv, LatestInv
  <2>2. (doing["watchdog"] \in {"waiting", "writing"} => ~disturbed)'
    <3> SUFFICES ASSUME doing["watchdog"] \in {"waiting", "writing"} PROVE ~disturbed'
      BY <1>1
    <3>1. doing["watchdog"] = "waiting"
      BY <1>1 DEF ReporterInv, WriterInv, Writers, Nobody
    <3> QED BY <1>2, <3>1 DEF ReporterInv, LatestInv
  <2>3. (inFreeze \/ doing["watchdog"] = "resolving" => ~Marked(freezes))'
    BY <1>1, <1>4 DEF ReporterInv, LatestInv, Marked
  <2>4. (freezes >= 1 /\ ~disturbed /\ doing["watchdog"] \in {"polling", "resolving"} =>
          \E j \in DOMAIN reports : reports[j].path = lastReport /\ reports[j].of = freezes)'
    <3> SUFFICES ASSUME freezes >= 1, ~disturbed', doing["watchdog"] \in {"polling", "resolving"}
                 PROVE  \E j \in DOMAIN reports' :
                           reports'[j].path = lastReport /\ reports'[j].of = freezes
      BY <1>1
    <3>1. ~disturbed /\ reports[i].of # freezes BY <1>2
    <3>2. PICK k \in DOMAIN reports : reports[k].path = lastReport /\ reports[k].of = freezes
      BY <3>1 DEF ReporterInv, LatestInv
    <3>3. k # i BY <3>1, <3>2
    <3> QED BY <1>4, <3>2, <3>3
  <2>5. (freezes >= 1 /\ disturbed =>
          \A j \in DOMAIN reports : reports[j].path = lastReport => reports[j].of # freezes)'
    <3> SUFFICES ASSUME freezes >= 1, disturbed', NEW j \in DOMAIN reports',
                        reports'[j].path = lastReport
                 PROVE  reports'[j].of # freezes
      BY <1>1
    <3>1. PICK k \in DOMAIN reports : k # i /\ reports'[j] = reports[k] BY <1>4
    <3>2. CASE disturbed BY <3>1, <3>2 DEF ReporterInv, LatestInv
    <3>3. CASE reports[i].of = freezes BY <3>1, <3>3 DEF OneEach
    <3> QED BY <1>2, <3>2, <3>3
  <2> QED BY <2>1, <2>2, <2>3, <2>4, <2>5 DEF LatestInv
<1> QED BY <1>5, <1>6, <1>7, <1>8 DEF ReporterInv

LEMMA StepOpenReport ==
    ASSUME ReporterInv, NEW p \in Writers, OpenReport(p) PROVE ReporterInv'
<1> USE ReporterFacts
<1> DEFINE path == PathOf(p)
           r == [path |-> path, of |-> IF p = "hotkey" THEN 0 ELSE freezes, ends |-> {}]
           t == Without(path)
<1>1. /\ doing[p] = "waiting" /\ holder = Nobody /\ holder' = p
      /\ doing' = [doing EXCEPT ![p] = "writing"] /\ reports' = Append(t, r)
      /\ stalled' = stalled /\ lastReport' = lastReport /\ inFreeze' = inFreeze
      /\ freezes' = freezes /\ disturbed' = disturbed
  BY DEF OpenReport, loops
<1>2. UNCHANGED <<clocks, loops>> BY DEF OpenReport
<1>3. /\ r \in Reports /\ r.of = (IF p = "hotkey" THEN 0 ELSE freezes) /\ r.ends = {}
      /\ r.path = path /\ (r.path.kind = "manual" <=> p = "hotkey")
  <2>1. path \in Paths /\ path.kind = stalled[p]
    BY DEF PathOf, Paths, ReporterInv, ReporterTypeOK
  <2>2. stalled[p] = "manual" <=> p = "hotkey"
    BY <1>1 DEF ReporterInv, WriterInv, Writers, Kinds
  <2>3. r.of \in 0..MaxFreezes BY ReporterBounds
  <2> QED BY <2>1, <2>2, <2>3 DEF Reports
<1>4. p = "watchdog" => inFreeze BY <1>1 DEF ReporterInv, WriterInv
<1>5. r.path.kind = "manual" <=> r.of = 0
  <2>1. p = "watchdog" => freezes >= 1 BY <1>4 DEF ReporterInv, WriterInv
  <2> QED BY <1>3, <2>1 DEF Writers
<1>6. /\ Part(t) /\ \A j \in DOMAIN t : t[j].path # path
      /\ \A k \in DOMAIN reports : reports[k].path # path =>
            \E j \in DOMAIN t : t[j] = reports[k]
  BY PartWithout DEF OneEach
<1>7. /\ t \in Seq(Reports) /\ OneEach(t, freezes)
      /\ \A j \in DOMAIN t : \E i \in DOMAIN reports : t[j] = reports[i]
  BY <1>6, PartFacts
<1> HIDE DEF t, r
<1>8. r.of = freezes /\ freezes # 0 => \A j \in DOMAIN t : t[j].of # freezes
  <2> SUFFICES ASSUME r.of = freezes, freezes # 0 PROVE \A j \in DOMAIN t : t[j].of # freezes
    OBVIOUS
  <2>1. doing["watchdog"] = "waiting" BY <1>1, <1>3 DEF Writers
  <2>2. \A i \in DOMAIN reports : reports[i].of # freezes
    BY <2>1 DEF ReporterInv, LatestInv
  <2> QED BY <1>7, <2>2
<1>9. OneEach(reports', freezes')
  <2>1. \A j \in DOMAIN t : t[j].path # r.path BY <1>3, <1>6
  <2>2. r.of <= freezes BY <1>3
  <2>3. OneEach(Append(t, r), freezes)
    BY <1>3, <1>5, <1>7, <1>8, <2>1, <2>2, AppendOneEach
  <2> QED BY <1>1, <2>3
<1>10. /\ reports' \in Seq(Reports) /\ reports' # <<>> /\ reports'[Len(reports')] = r
       /\ \A i \in DOMAIN reports' : reports'[i] = r \/ \E k \in DOMAIN reports : reports'[i] = reports[k]
       /\ \A k \in DOMAIN reports : reports[k].path # path =>
             \E j \in DOMAIN reports' : reports'[j] = reports[k]
  <2>1. /\ reports' \in Seq(Reports) /\ reports' # <<>> /\ reports'[Len(reports')] = r
        /\ \A i \in DOMAIN reports' : \/ i \in DOMAIN t /\ reports'[i] = t[i]
                                      \/ i = Len(reports') /\ reports'[i] = r
        /\ \A i \in DOMAIN t : i \in DOMAIN reports' /\ reports'[i] = t[i]
    BY <1>1, <1>3, <1>7, AppendFile
  <2>2. \A i \in DOMAIN reports' : reports'[i] = r \/ \E k \in DOMAIN reports : reports'[i] = reports[k]
    BY <1>7, <2>1
  <2>3. \A k \in DOMAIN reports : reports[k].path # path =>
             \E j \in DOMAIN reports' : reports'[j] = reports[k]
    BY <1>6, <2>1
  <2> QED BY <2>1, <2>2, <2>3
<1>11. /\ doing'[p] = "writing" /\ \A q \in Writers \ {p} : doing'[q] = doing[q]
  BY <1>1
<1>12. ReporterTypeOK'
  <2>1. doing' \in [Writers -> Phases] BY <1>1 DEF ReporterInv, ReporterTypeOK, Phases
  <2> QED BY <1>1, <1>2, <1>10, <2>1 DEF ReporterInv, ReporterTypeOK, clocks, loops
<1>13. WriterInv'
  <2>1. \A q \in Writers : (doing[q] = "writing" <=> holder = q)'
    BY <1>1, <1>11 DEF ReporterInv, WriterInv, Writers, Nobody
  <2>2. (holder # Nobody => /\ reports # <<>>
           /\ reports[Len(reports)].of = IF holder = "hotkey" THEN 0 ELSE freezes)'
    BY <1>1, <1>3, <1>10
  <2>3. stalled'["hotkey"] = "manual" /\ doing'["hotkey"] # "resolving"
    BY <1>1, <1>11 DEF ReporterInv, WriterInv, Writers
  <2>4. (doing["watchdog"] \in {"waiting", "writing"} => stalled["watchdog"] \in Kinds /\ inFreeze)'
    BY <1>1, <1>11 DEF ReporterInv, WriterInv, Writers
  <2>5. doing'["watchdog"] = "resolving" <=> doing["watchdog"] = "resolving"
    BY <1>1, <1>11 DEF Writers
  <2> QED BY <1>1, <2>1, <2>2, <2>3, <2>4, <2>5 DEF ReporterInv, WriterInv
<1>14. LatestInv'
  <2>1. (doing["watchdog"] = "waiting" => \A j \in DOMAIN reports : reports[j].of # freezes)'
    <3> SUFFICES ASSUME doing'["watchdog"] = "waiting", NEW j \in DOMAIN reports'
                 PROVE  reports'[j].of # freezes
      BY <1>1
    <3>1. p = "hotkey" /\ doing["watchdog"] = "waiting" BY <1>1, <1>11 DEF Writers
    <3>2. freezes >= 1 BY <3>1 DEF ReporterInv, WriterInv
    <3>3. r.of # freezes BY <1>3, <3>1, <3>2
    <3> QED BY <1>10, <3>1, <3>3 DEF ReporterInv, LatestInv
  <2>2. (doing["watchdog"] \in {"waiting", "writing"} => ~disturbed)'
    BY <1>1, <1>11 DEF ReporterInv, LatestInv, Writers
  <2>3. (inFreeze \/ doing["watchdog"] = "resolving" => ~Marked(freezes))'
    <3>1. doing'["watchdog"] = "resolving" <=> doing["watchdog"] = "resolving"
      BY <1>1, <1>11 DEF Writers
    <3> QED BY <1>1, <1>3, <1>10, <3>1 DEF ReporterInv, LatestInv, Marked
  <2>4. (freezes >= 1 /\ ~disturbed /\ doing["watchdog"] \in {"polling", "resolving"} =>
          \E j \in DOMAIN reports : reports[j].path = lastReport /\ reports[j].of = freezes)'
    <3> SUFFICES ASSUME freezes >= 1, ~disturbed, doing'["watchdog"] \in {"polling", "resolving"}
                 PROVE  \E j \in DOMAIN reports' :
                           reports'[j].path = lastReport /\ reports'[j].of = freezes
      BY <1>1
    <3>1. p = "hotkey" /\ doing["watchdog"] \in {"polling", "resolving"}
      BY <1>11 DEF Writers
    <3>2. PICK k \in DOMAIN reports : reports[k].path = lastReport /\ reports[k].of = freezes
      BY <3>1 DEF ReporterInv, LatestInv
    <3>3. reports[k].path # path BY <1>3, <3>1, <3>2 DEF OneEach
    <3> QED BY <1>10, <3>2, <3>3
  <2>5. (freezes >= 1 /\ disturbed =>
          \A j \in DOMAIN reports : reports[j].path = lastReport => reports[j].of # freezes)'
    <3> SUFFICES ASSUME freezes >= 1, disturbed, NEW j \in DOMAIN reports',
                        reports'[j].path = lastReport
                 PROVE  reports'[j].of # freezes
      BY <1>1
    <3>1. p = "hotkey" BY <1>1 DEF ReporterInv, LatestInv, Writers
    <3>2. r.of # freezes BY <1>3, <3>1
    <3> QED BY <1>10, <3>2 DEF ReporterInv, LatestInv
  <2> QED BY <2>1, <2>2, <2>3, <2>4, <2>5 DEF LatestInv
<1> QED BY <1>9, <1>12, <1>13, <1>14 DEF ReporterInv

LEMMA StepOpenFails ==
    ASSUME ReporterInv, NEW p \in Writers, OpenFails(p) PROVE ReporterInv'
<1> USE ReporterFacts
<1>1. /\ doing[p] = "waiting" /\ holder = Nobody /\ holder' = holder
      /\ doing' = [doing EXCEPT ![p] = "polling"] /\ reports' = reports
      /\ stalled' = stalled /\ lastReport' = lastReport /\ inFreeze' = inFreeze
      /\ freezes' = freezes
  BY DEF OpenFails, loops, disk
<1>2. UNCHANGED <<clocks, loops>> BY DEF OpenFails
<1>3. (disturbed' <=> disturbed \/ p = "watchdog") /\ disturbed' \in BOOLEAN
  BY Zenon DEF OpenFails
<1>4. /\ doing'[p] = "polling" /\ \A q \in Writers \ {p} : doing'[q] = doing[q]
  BY <1>1
<1>5. ReporterTypeOK'
  <2>1. doing' \in [Writers -> Phases] BY <1>1 DEF ReporterInv, ReporterTypeOK, Phases
  <2> QED BY <1>1, <1>2, <1>3, <2>1 DEF ReporterInv, ReporterTypeOK, clocks, loops
<1>6. OneEach(reports', freezes') BY <1>1
<1>7. /\ doing'["watchdog"] # "resolving" \/ doing["watchdog"] = "resolving"
      /\ doing'["watchdog"] \in {"waiting", "writing"} =>
            doing'["watchdog"] = doing["watchdog"] /\ p = "hotkey"
      /\ doing'["hotkey"] # "resolving"
  BY <1>1, <1>4 DEF ReporterInv, WriterInv, Writers
<1>8. WriterInv'
  <2>1. \A q \in Writers : (doing[q] = "writing" <=> holder = q)'
    BY <1>1, <1>4 DEF ReporterInv, WriterInv, Writers, Nobody
  <2>2. (holder # Nobody => /\ reports # <<>>
           /\ reports[Len(reports)].of = IF holder = "hotkey" THEN 0 ELSE freezes)'
    BY <1>1
  <2> QED BY <1>1, <1>7, <2>1, <2>2 DEF ReporterInv, WriterInv
<1>9. LatestInv'
  <2>1. (doing["watchdog"] = "waiting" => \A j \in DOMAIN reports : reports[j].of # freezes)'
    BY <1>1, <1>7 DEF ReporterInv, LatestInv
  <2>2. (doing["watchdog"] \in {"waiting", "writing"} => ~disturbed)'
    BY <1>1, <1>3, <1>7 DEF ReporterInv, LatestInv
  <2>3. (inFreeze \/ doing["watchdog"] = "resolving" => ~Marked(freezes))'
    BY <1>1, <1>7 DEF ReporterInv, LatestInv, Marked
  <2>4. (freezes >= 1 /\ ~disturbed /\ doing["watchdog"] \in {"polling", "resolving"} =>
          \E j \in DOMAIN reports : reports[j].path = lastReport /\ reports[j].of = freezes)'
    <3> SUFFICES ASSUME freezes >= 1, ~disturbed', doing'["watchdog"] \in {"polling", "resolving"}
                 PROVE  \E j \in DOMAIN reports :
                           reports[j].path = lastReport /\ reports[j].of = freezes
      BY <1>1
    <3>1. p = "hotkey" /\ ~disturbed BY <1>3 DEF Writers
    <3>2. doing["watchdog"] \in {"polling", "resolving"} BY <1>4, <3>1 DEF Writers
    <3> QED BY <3>1, <3>2 DEF ReporterInv, LatestInv
  <2>5. (freezes >= 1 /\ disturbed =>
          \A j \in DOMAIN reports : reports[j].path = lastReport => reports[j].of # freezes)'
    <3>1. CASE disturbed BY <1>1, <3>1 DEF ReporterInv, LatestInv
    <3>2. CASE p = "watchdog" BY <1>1, <3>2 DEF ReporterInv, LatestInv
    <3>3. CASE ~disturbed' BY <3>3
    <3> QED BY <1>3, <3>1, <3>2, <3>3
  <2> QED BY <2>1, <2>2, <2>3, <2>4, <2>5 DEF LatestInv
<1> QED BY <1>5, <1>6, <1>8, <1>9 DEF ReporterInv

\* Retention keeps some of the files, the newest one always.
LEMMA RetentionKeepsTheNewest ==
    ASSUME ReporterInv, EnforceRetention, reports # <<>>
    PROVE  /\ Part(reports') /\ reports' # <<>> /\ Len(reports') \in DOMAIN reports'
           /\ reports'[Len(reports')] = reports[Len(reports)]
<1> USE ReporterFacts
<1>1. Len(reports) \in Nat /\ Len(reports) >= 1 /\ DOMAIN reports = 1..Len(reports)
  OBVIOUS
<1>2. CASE reports' = reports BY <1>1, <1>2, PartAll
<1>3. CASE ~(Keep = 0 \/ Len(reports) <= Keep)
  <2>1. Len(reports) - Keep + 1 \in 1..Len(reports) BY <1>1, <1>3, KeepAssumption
  <2>2. reports' = SubSeq(reports, Len(reports) - Keep + 1, Len(reports))
    BY <1>3 DEF EnforceRetention
  <2> QED BY <2>1, <2>2, PartTail
<1> QED BY <1>2, <1>3 DEF EnforceRetention

LEMMA StepCloseReport ==
    ASSUME ReporterInv, NEW p \in Writers, CloseReport(p) PROVE ReporterInv'
<1> USE ReporterFacts
<1> DEFINE last == reports[Len(reports)]
<1>1. /\ doing[p] = "writing" /\ holder' = Nobody /\ lastReport' = last.path
      /\ doing' = [doing EXCEPT ![p] = "polling"]
      /\ stalled' = stalled /\ inFreeze' = inFreeze /\ freezes' = freezes
      /\ EnforceRetention
  BY DEF CloseReport, loops
<1>2. UNCHANGED <<clocks, loops>> BY DEF CloseReport
<1>3. /\ disturbed' <=> disturbed \/ (p = "hotkey" /\ doing["watchdog"] # "waiting")
      /\ disturbed' \in BOOLEAN
  BY Zenon DEF CloseReport
<1>4. /\ doing'[p] = "polling" /\ \A q \in Writers \ {p} : doing'[q] = doing[q]
  BY <1>1
<1>5. /\ holder = p /\ reports # <<>>
      /\ last.of = IF p = "hotkey" THEN 0 ELSE freezes
  BY <1>1 DEF ReporterInv, WriterInv, Writers, Nobody
<1>6. Len(reports) \in DOMAIN reports /\ last \in Reports
  <2>1. Len(reports) \in DOMAIN reports BY <1>5
  <2> QED BY <2>1
<1>7. /\ Part(reports') /\ Len(reports') \in DOMAIN reports' /\ reports'[Len(reports')] = last
  BY <1>1, <1>5, RetentionKeepsTheNewest
<1>8. /\ reports' \in Seq(Reports) /\ OneEach(reports', freezes')
      /\ \A j \in DOMAIN reports' : \E i \in DOMAIN reports : reports'[j] = reports[i]
  BY <1>1, <1>7, PartFacts
<1>9. \A q \in Writers : doing'[q] # "writing"
  BY <1>1, <1>4, <1>5 DEF ReporterInv, WriterInv
<1>10. ReporterTypeOK'
  <2>1. doing' \in [Writers -> Phases] BY <1>1 DEF ReporterInv, ReporterTypeOK, Phases
  <2>2. last.path \in Paths BY <1>6 DEF Reports
  <2> HIDE DEF last
  <2> QED BY <1>1, <1>2, <1>3, <1>8, <2>1, <2>2 DEF ReporterInv, ReporterTypeOK, clocks, loops
<1>11. WriterInv'
  <2>1. \A q \in Writers : (doing[q] = "writing" <=> holder = q)'
    BY <1>1, <1>9 DEF Writers, Nobody
  <2>2. (doing["watchdog"] \in {"waiting", "writing"} => stalled["watchdog"] \in Kinds /\ inFreeze)'
    BY <1>1, <1>4, <1>9 DEF ReporterInv, WriterInv, Writers
  <2>3. doing'["watchdog"] # "resolving" \/ doing["watchdog"] = "resolving"
    BY <1>1, <1>4 DEF Writers
  <2>4. doing'["hotkey"] # "resolving"
    BY <1>1, <1>4 DEF ReporterInv, WriterInv, Writers
  <2> QED BY <1>1, <2>1, <2>2, <2>3, <2>4 DEF ReporterInv, WriterInv
<1>12. doing'["watchdog"] = "waiting" => doing["watchdog"] = "waiting" /\ p = "hotkey"
  BY <1>1, <1>4 DEF Writers
<1>13. LatestInv'
  <2>1. (doing["watchdog"] = "waiting" => \A j \in DOMAIN reports : reports[j].of # freezes)'
    BY <1>1, <1>8, <1>12 DEF ReporterInv, LatestInv
  <2>2. (doing["watchdog"] \in {"waiting", "writing"} => ~disturbed)'
    BY <1>3, <1>9, <1>12 DEF ReporterInv, LatestInv, Writers
  <2>3. (inFreeze \/ doing["watchdog"] = "resolving" => ~Marked(freezes))'
    <3>1. doing'["watchdog"] # "resolving" \/ doing["watchdog"] = "resolving"
      BY <1>1, <1>4 DEF Writers
    <3> QED BY <1>1, <1>8, <3>1 DEF ReporterInv, LatestInv, Marked
  <2>4. (freezes >= 1 /\ ~disturbed /\ doing["watchdog"] \in {"polling", "resolving"} =>
          \E j \in DOMAIN reports : reports[j].path = lastReport /\ reports[j].of = freezes)'
    <3> SUFFICES ASSUME ~disturbed', doing'["watchdog"] \in {"polling", "resolving"}
                 PROVE  \E j \in DOMAIN reports' :
                           reports'[j].path = lastReport' /\ reports'[j].of = freezes
      BY <1>1
    <3>1. p = "watchdog" BY <1>3, <1>4 DEF Writers
    <3>2. last.of = freezes BY <1>5, <3>1
    <3> QED BY <1>1, <1>7, <3>2
  <2>5. (freezes >= 1 /\ disturbed =>
          \A j \in DOMAIN reports : reports[j].path = lastReport => reports[j].of # freezes)'
    <3> SUFFICES ASSUME freezes >= 1, disturbed', NEW j \in DOMAIN reports',
                        reports'[j].path = last.path
                 PROVE  reports'[j].of # freezes
      BY <1>1
    <3>1. PICK i \in DOMAIN reports : reports'[j] = reports[i] BY <1>8
    <3>2. reports[i] = last BY <1>6, <3>1 DEF OneEach
    <3>3. p = "hotkey"
      BY <1>1, <1>3 DEF ReporterInv, LatestInv, Writers
    <3> QED BY <1>5, <3>1, <3>2, <3>3
  <2> QED BY <2>1, <2>2, <2>3, <2>4, <2>5 DEF LatestInv
<1> QED BY <1>8, <1>10, <1>11, <1>13 DEF ReporterInv

\* What AnnotateLatestResolved does to the files: the last report takes the
\* mark and goes to the end, the others stay, and with no such file, or one that
\* does not open, nothing is done.
LEMMA AnnotationMovesOne ==
    ASSUME ReporterInv, AnnotateLatestResolved
    PROVE  LET i == At(lastReport)
               r == [reports[i] EXCEPT !.ends = @ \cup {freezes}] IN
           /\ reports' \in Seq(Reports) /\ OneEach(reports', freezes)
           /\ ~(Exists(lastReport) /\ appends) => reports' = reports
           /\ Exists(lastReport) => i \in DOMAIN reports /\ reports[i].path = lastReport
           /\ Exists(lastReport) /\ appends =>
                /\ r.path = lastReport /\ r.of = reports[i].of /\ freezes \in r.ends
                /\ \E j \in DOMAIN reports' : reports'[j] = r
                /\ \A j \in DOMAIN reports' :
                     \/ reports'[j] = r
                     \/ reports'[j].path # lastReport
                        /\ \E k \in DOMAIN reports : reports'[j] = reports[k]
<1> USE ReporterFacts
<1> DEFINE i == At(lastReport)
           r == [reports[i] EXCEPT !.ends = @ \cup {freezes}]
           t == Without(lastReport)
<1>1. CASE ~(Exists(lastReport) /\ appends)
  <2>1. reports' = reports BY <1>1 DEF AnnotateLatestResolved
  <2>2. Exists(lastReport) => i \in DOMAIN reports /\ reports[i].path = lastReport
    BY PartWithout DEF OneEach
  <2> QED BY <1>1, <2>1, <2>2
<1>2. CASE Exists(lastReport) /\ appends
  <2>1. reports' = Append(t, r) BY <1>2 DEF AnnotateLatestResolved
  <2>2. /\ Part(t) /\ \A j \in DOMAIN t : t[j].path # lastReport
        /\ i \in DOMAIN reports /\ reports[i].path = lastReport
    BY <1>2, PartWithout DEF OneEach
  <2>3. /\ t \in Seq(Reports) /\ OneEach(t, freezes)
        /\ \A j \in DOMAIN t : \E k \in DOMAIN reports : t[j] = reports[k]
    BY <2>2, PartFacts
  <2>4. freezes \in 1..MaxFreezes
    BY ReporterBounds DEF AnnotateLatestResolved, ReporterInv, WriterInv
  <2>5. reports[i] \in Reports BY <2>2
  <2>6. /\ r \in Reports /\ r.path = lastReport /\ r.of = reports[i].of
        /\ freezes \in r.ends
    BY <2>2, <2>4, <2>5 DEF Reports
  <2>7. /\ r.path.kind = "manual" <=> r.of = 0
        /\ r.of <= freezes
    BY <2>2, <2>6 DEF OneEach
  <2>8. r.of = freezes /\ freezes # 0 => \A j \in DOMAIN t : t[j].of # freezes
    BY <2>2, <2>3, <2>6 DEF OneEach
  <2> HIDE DEF r, t, i
  <2>9. OneEach(Append(t, r), freezes) BY <2>2, <2>3, <2>6, <2>7, <2>8, AppendOneEach
  <2>10. /\ reports' \in Seq(Reports)
         /\ \E j \in DOMAIN reports' : reports'[j] = r
         /\ \A j \in DOMAIN reports' : \/ j \in DOMAIN t /\ reports'[j] = t[j]
                                       \/ j = Len(reports') /\ reports'[j] = r
    BY <2>1, <2>3, <2>6, AppendFile
  <2>11. \A j \in DOMAIN reports' :
            \/ reports'[j] = r
            \/ reports'[j].path # lastReport
               /\ \E k \in DOMAIN reports : reports'[j] = reports[k]
    BY <2>2, <2>3, <2>10
  <2> QED BY <1>2, <2>1, <2>2, <2>6, <2>9, <2>10, <2>11 DEF r, i
<1> QED BY <1>1, <1>2

\* The end of a freeze is written into its report exactly when that opens and
\* nothing disturbed it: the last path names that report, and only then.
LEMMA AnnotationMarks ==
    ASSUME ReporterInv, AnnotateLatestResolved
    PROVE  Marked(freezes)' <=> ~disturbed /\ appends
<1> USE ReporterFacts
<1> DEFINE r == [reports[At(lastReport)] EXCEPT !.ends = @ \cup {freezes}]
<1>1. doing["watchdog"] = "resolving" /\ freezes >= 1 /\ ~Marked(freezes) /\ freezes' = freezes
  BY DEF AnnotateLatestResolved, ReporterInv, WriterInv, LatestInv, loops
<1>2. CASE ~appends
  <2>1. reports' = reports BY <1>2, AnnotationMovesOne
  <2> QED BY <1>1, <1>2, <2>1 DEF Marked
<1>3. CASE disturbed /\ appends
  <2>1. \A i \in DOMAIN reports : reports[i].path = lastReport => reports[i].of # freezes
    BY <1>1, <1>3 DEF ReporterInv, LatestInv
  <2>2. CASE Exists(lastReport)
    <3>1. r.of # freezes BY <1>3, <2>1, <2>2, AnnotationMovesOne
    <3>2. \A j \in DOMAIN reports' : reports'[j] = r \/ \E k \in DOMAIN reports : reports'[j] = reports[k]
      BY <1>3, <2>2, AnnotationMovesOne
    <3> HIDE DEF r
    <3> QED BY <1>1, <1>3, <3>1, <3>2 DEF Marked
  <2>3. CASE ~Exists(lastReport)
    <3>1. reports' = reports BY <2>3, AnnotationMovesOne
    <3> QED BY <1>1, <1>3, <3>1 DEF Marked
  <2> QED BY <2>2, <2>3
<1>4. CASE ~disturbed /\ appends
  <2>1. PICK i \in DOMAIN reports : reports[i].path = lastReport /\ reports[i].of = freezes
    BY <1>1, <1>4 DEF ReporterInv, LatestInv
  <2>2. Exists(lastReport) BY <2>1 DEF Exists
  <2>3. At(lastReport) = i BY <2>1, <2>2, AnnotationMovesOne DEF OneEach
  <2>4. r.of = freezes /\ freezes \in r.ends /\ \E j \in DOMAIN reports' : reports'[j] = r
    BY <1>4, <2>1, <2>2, <2>3, AnnotationMovesOne
  <2> HIDE DEF r
  <2> QED BY <1>1, <1>4, <2>4 DEF Marked
<1> QED BY <1>2, <1>3, <1>4

LEMMA StepAnnotate == ReporterInv /\ AnnotateLatestResolved => ReporterInv'
<1> SUFFICES ASSUME ReporterInv, AnnotateLatestResolved PROVE ReporterInv' OBVIOUS
<1> USE ReporterFacts
<1>1. /\ doing["watchdog"] = "resolving" /\ holder = Nobody /\ holder' = holder
      /\ doing' = [doing EXCEPT !["watchdog"] = "polling"]
      /\ stalled' = stalled /\ inFreeze' = inFreeze /\ freezes' = freezes
      /\ lastReport' = lastReport /\ disturbed' = disturbed
  BY DEF AnnotateLatestResolved, loops
<1>2. UNCHANGED <<clocks, loops>> BY DEF AnnotateLatestResolved
<1>3. /\ doing'["watchdog"] = "polling" /\ doing'["hotkey"] = doing["hotkey"]
  BY <1>1 DEF Writers
<1>4. freezes >= 1 /\ ~inFreeze BY <1>1 DEF ReporterInv, WriterInv
<1>5. reports' \in Seq(Reports) /\ OneEach(reports', freezes') BY <1>1, AnnotationMovesOne
<1>6. ReporterTypeOK'
  <2>1. doing' \in [Writers -> Phases] BY <1>1 DEF ReporterInv, ReporterTypeOK, Phases
  <2> QED BY <1>1, <1>2, <1>5, <2>1 DEF ReporterInv, ReporterTypeOK, clocks, loops
<1>7. WriterInv'
  <2>1. \A q \in Writers : (doing[q] = "writing" <=> holder = q)'
    BY <1>1, <1>3 DEF ReporterInv, WriterInv, Writers, Nobody
  <2>2. stalled'["hotkey"] = "manual" /\ doing'["hotkey"] # "resolving"
    BY <1>1, <1>3 DEF ReporterInv, WriterInv
  <2> QED BY <1>1, <1>3, <1>4, <2>1, <2>2 DEF WriterInv
<1>8. LatestInv'
  <2> DEFINE r == [reports[At(lastReport)] EXCEPT !.ends = @ \cup {freezes}]
  <2>1. (freezes >= 1 /\ ~disturbed =>
          \E j \in DOMAIN reports : reports[j].path = lastReport /\ reports[j].of = freezes)'
    <3> SUFFICES ASSUME ~disturbed
                 PROVE  \E j \in DOMAIN reports' :
                           reports'[j].path = lastReport /\ reports'[j].of = freezes
      BY <1>1
    <3>1. PICK i \in DOMAIN reports : reports[i].path = lastReport /\ reports[i].of = freezes
      BY <1>1, <1>4 DEF ReporterInv, LatestInv
    <3>2. Exists(lastReport) BY <3>1 DEF Exists
    <3>3. At(lastReport) = i BY <3>1, <3>2, AnnotationMovesOne DEF OneEach
    <3>4. CASE appends
      <4>1. /\ r.path = lastReport /\ r.of = freezes
            /\ \E j \in DOMAIN reports' : reports'[j] = r
        BY <3>1, <3>2, <3>3, <3>4, AnnotationMovesOne
      <4> HIDE DEF r
      <4> QED BY <4>1
    <3>5. CASE ~appends
      <4>1. reports' = reports BY <3>5, AnnotationMovesOne
      <4> QED BY <3>1, <4>1
    <3> QED BY <3>4, <3>5
  <2>2. (freezes >= 1 /\ disturbed =>
          \A j \in DOMAIN reports : reports[j].path = lastReport => reports[j].of # freezes)'
    <3> SUFFICES ASSUME disturbed, NEW j \in DOMAIN reports', reports'[j].path = lastReport
                 PROVE  reports'[j].of # freezes
      BY <1>1
    <3>1. \A i \in DOMAIN reports : reports[i].path = lastReport => reports[i].of # freezes
      BY <1>4 DEF ReporterInv, LatestInv
    <3>2. CASE Exists(lastReport) /\ appends
      <4>1. reports'[j] = r /\ r.of # freezes BY <3>1, <3>2, AnnotationMovesOne
      <4> HIDE DEF r
      <4> QED BY <4>1
    <3>3. CASE ~(Exists(lastReport) /\ appends)
      <4>1. reports' = reports BY <3>3, AnnotationMovesOne
      <4> QED BY <3>1, <4>1
    <3> QED BY <3>2, <3>3
  <2> QED BY <1>1, <1>3, <1>4, <2>1, <2>2 DEF LatestInv
<1> QED BY <1>5, <1>6, <1>7, <1>8 DEF ReporterInv

-----------------------------------------------------------------------------
LEMMA ReporterStep == ReporterInv /\ [ReporterNext]_reporterVars => ReporterInv'
<1> SUFFICES ASSUME ReporterInv, [ReporterNext]_reporterVars PROVE ReporterInv' OBVIOUS
<1>1. CASE Others BY <1>1, StepOthers
<1>2. CASE AnnotateResolve BY <1>2, StepAnnotateResolve
<1>3. CASE HotkeyLoop BY <1>3, StepHotkeyLoop
<1>4. CASE AnnotateLatestResolved BY <1>4, StepAnnotate
<1>5. ASSUME NEW i \in DOMAIN reports, Deletes(i) PROVE ReporterInv' BY <1>5, StepDeletes
<1>6. ASSUME NEW kind \in Kinds, EmitSnapshot(kind) PROVE ReporterInv'
  BY <1>6, StepEmitSnapshot
<1>7. ASSUME NEW p \in Writers, OpenReport(p) PROVE ReporterInv' BY <1>7, StepOpenReport
<1>8. ASSUME NEW p \in Writers, OpenFails(p) PROVE ReporterInv' BY <1>8, StepOpenFails
<1>9. ASSUME NEW p \in Writers, CloseReport(p) PROVE ReporterInv' BY <1>9, StepCloseReport
<1>10. CASE UNCHANGED reporterVars BY <1>10, StepStutter
<1> QED BY <1>1, <1>2, <1>3, <1>4, <1>5, <1>6, <1>7, <1>8, <1>9, <1>10 DEF ReporterNext

\* The watchdog goes from resolving to polling in AnnotateLatestResolved only.
LEMMA OnlyAnnotateResolves ==
    ASSUME ReporterInv, [ReporterNext]_reporterVars,
           doing["watchdog"] = "resolving", doing'["watchdog"] = "polling"
    PROVE  AnnotateLatestResolved
<1> USE ReporterFacts
<1>1. CASE Others BY <1>1 DEF Others
<1>2. CASE AnnotateResolve BY <1>2 DEF AnnotateResolve, Calls
<1>3. CASE HotkeyLoop BY <1>3 DEF HotkeyLoop, Calls, Writers
<1>4. ASSUME NEW i \in DOMAIN reports, Deletes(i) PROVE FALSE BY <1>4 DEF Deletes
<1>5. ASSUME NEW kind \in Kinds, EmitSnapshot(kind) PROVE FALSE
  BY <1>5 DEF EmitSnapshot, Calls
<1>6. ASSUME NEW p \in Writers, OpenReport(p) PROVE FALSE BY <1>6 DEF OpenReport
<1>7. ASSUME NEW p \in Writers, OpenFails(p) PROVE FALSE BY <1>7 DEF OpenFails
<1>8. ASSUME NEW p \in Writers, CloseReport(p) PROVE FALSE BY <1>8 DEF CloseReport
<1>9. CASE UNCHANGED reporterVars BY <1>9 DEF reporterVars
<1> QED BY <1>1, <1>2, <1>3, <1>4, <1>5, <1>6, <1>7, <1>8, <1>9 DEF ReporterNext

\* A resolution is written into the report of the freeze it ends exactly when that
\* report opens for appending and nothing disturbed it, however many freezes and
\* manual captures there are, whatever retention keeps and however the two writers
\* queue for the mutex (Reporter.cpp:256-269).
THEOREM ResolutionsMarkTheirFreeze == ReporterSpec => ResolutionMarksItsFreeze
<1> DEFINE Marks == doing["watchdog"] = "resolving" /\ doing'["watchdog"] = "polling" =>
                       (Marked(freezes)' <=> ~disturbed /\ appends)
<1>1. ReporterInv /\ [ReporterNext]_reporterVars => [Marks]_reporterVars
  BY OnlyAnnotateResolves, AnnotationMarks
<1>2. ReporterInv => ReporterTypeOK BY DEF ReporterInv
<1> QED BY <1>1, <1>2, ReporterStarts, ReporterStep, PTL DEF ReporterSpec, ResolutionMarksItsFreeze
=============================================================================
