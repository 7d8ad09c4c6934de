----------------------------- MODULE FreezeSites ----------------------------
(***************************************************************************)
(* What the classifying sections of a report look at: where the main       *)
(* thread waits (Site A, the worker-ack wait; Site B, WaitForJobTask), the *)
(* Singleton-A flag and event, the pointer chain of Singleton-B, a worker  *)
(* that spins on a lock, the render thread's task join and the FSMP module.*)
(*                                                                         *)
(* The engine is external.  It makes at most MaxMoves moves while a report *)
(* is written; a true freeze makes none.                                   *)
(***************************************************************************)
EXTENDS Naturals

CONSTANTS
    LastLink,   \* links of the Singleton-B chain are 0..LastLink, 4 in the code
    MaxInside,  \* threads inside hdtsmp64.dll
    MaxMoves    \* bound on the engine's moves during a report

ASSUME FreezeSitesAssumption ==
    LastLink \in Nat /\ MaxInside \in Nat /\ MaxMoves \in Nat

VARIABLES
    se1597,    \* the runtime is SE 1.5.97
    anchors,   \* the anchors SkyrimAnchors resolved
    tids,      \* the heartbeats that have ticked
    leftover,  \* return addresses that stay in main's stack window
    stray,     \* chance: an old return address of the lock's retry on a worker's
               \* stack, or a register of a spinner that points at main's id
    smp,       \* FSMP: loaded, its frame on main's stack, threads inside it
    at,        \* where main is
    pending,   \* Singleton-A +0x6c
    ack,       \* the worker-ack event is signaled
    cut,       \* link of the Singleton-B chain a walk stops at, none if it does not:
               \* null or unreadable; the last, the handle, only unreadable
    pointers,  \* the values of that chain
    spin,      \* owner of the lock a worker spins on
    join,      \* render is inside the task join, id 34557
    moves      \* engine moves since the report began

build  == <<se1597, anchors, tids, leftover, stray, smp>>
engine == <<build, at, pending, ack, cut, pointers, spin, join, moves>>

AnchorNames == {"siteA", "siteB", "spin", "render"}
Intact == LastLink + 1
Smp == [loaded : BOOLEAN, onStack : BOOLEAN, inside : 0..MaxInside]

FreezeSitesTypeOK ==
    /\ se1597 \in BOOLEAN /\ stray \in BOOLEAN
    /\ anchors \subseteq AnchorNames
    /\ tids \subseteq {"main", "render"}
    /\ leftover \subseteq {"A", "B"}
    /\ smp \in Smp /\ (~smp.loaded => ~smp.onStack /\ smp.inside = 0)
    /\ at \in {"run", "lockA", "waitA", "thunkB", "waitB"}
    /\ pending = (IF at \in {"lockA", "waitA"} THEN 1 ELSE 0)
    /\ ack \in BOOLEAN /\ (ack => at = "waitA")
    /\ cut \in 0..Intact
    /\ pointers \in {0, 1}
    /\ spin \in {"none", "main", "other"}
    /\ join \in BOOLEAN
    /\ moves \in 0..MaxMoves

Quiet == moves = 0

\* The saved return addresses of a place: the call in the lock primitive, or the
\* call of WaitForJobTask, whose thunk leaves by a jump.
Returns(place) == CASE place = "waitA" -> {"A"}
                    [] place \in {"thunkB", "waitB"} -> {"B"}
                    [] OTHER -> {}

\* What a scan finds of a stack window whose pointer was copied at place p while
\* main is at place q now.
SeenReturns(p, q) ==
    {R \in SUBSET {"A", "B"} :
        /\ leftover \cup (Returns(p) \cap Returns(q)) \subseteq R
        /\ R \subseteq leftover \cup Returns(p) \cup Returns(q)}

-----------------------------------------------------------------------------
Dispatch  == at = "run" /\ at' = "waitA" /\ pending' = 1 /\ UNCHANGED ack
WorkerAck == at = "waitA" /\ ~ack /\ ack' = TRUE /\ UNCHANGED <<at, pending>>
AckSeen   == at = "waitA" /\ ack /\ at' = "lockA" /\ ack' = FALSE /\ UNCHANGED pending
Unlock    == at = "lockA" /\ at' = "run" /\ pending' = 0 /\ UNCHANGED ack
WaitJobs  == at = "run" /\ at' = "thunkB" /\ UNCHANGED <<pending, ack>>
ParkJobs  == at = "thunkB" /\ at' = "waitB" /\ UNCHANGED <<pending, ack>>
JobsDone  == at = "waitB" /\ at' = "run" /\ UNCHANGED <<pending, ack>>

MainMove == Dispatch \/ WorkerAck \/ AckSeen \/ Unlock \/ WaitJobs \/ ParkJobs \/ JobsDone

RewriteChain == cut' \in 0..Intact /\ pointers' = 1 - pointers

EngineMove ==
    /\ moves < MaxMoves /\ moves' = moves + 1
    /\ \/ MainMove /\ UNCHANGED <<cut, pointers, spin, join>>
       \/ RewriteChain /\ UNCHANGED <<at, pending, ack, spin, join>>
       \/ /\ spin' \in {"none", "main", "other"} \ {spin}
          /\ UNCHANGED <<at, pending, ack, cut, pointers, join>>
       \/ join' = ~join /\ UNCHANGED <<at, pending, ack, cut, pointers, spin>>
    /\ UNCHANGED build
=============================================================================
