--------------------------- MODULE DependableWait ---------------------------
(***************************************************************************)
(* What a breaker promises about the wait it watches, without the breaker. *)
(* The main thread publishes a job and waits for it.  It never goes on     *)
(* while the job is at work, and it does go on once the job is done or     *)
(* lost: a lost job costs a delay, not the game.  The engine alone promises*)
(* the first half only.                                                    *)
(***************************************************************************)
CONSTANTS Idx,    \* job lists, named by their index in the pool
          NoIdx

VARIABLES waiting,  \* the job list the main thread waits for, or NoIdx
          job       \* what became of the job published last in each list

vars == <<waiting, job>>

Fates == {"working", "done", "lost"}

TypeOK == waiting \in Idx \cup {NoIdx} /\ job \in [Idx -> Fates]

Init == waiting = NoIdx /\ job = [i \in Idx |-> "done"]

Publish(i) == /\ waiting = NoIdx /\ job[i] # "working"
              /\ job' = [job EXCEPT ![i] = "working"]
              /\ UNCHANGED waiting

Finish(i, fate) == /\ job[i] = "working"
                   /\ job' = [job EXCEPT ![i] = fate]
                   /\ UNCHANGED waiting

Wait(i) == /\ waiting = NoIdx
           /\ waiting' = i
           /\ UNCHANGED job

Return == /\ waiting # NoIdx /\ job[waiting] # "working"
          /\ waiting' = NoIdx
          /\ UNCHANGED job

Next == \/ \E i \in Idx : Publish(i) \/ Wait(i)
        \/ \E i \in Idx, fate \in {"done", "lost"} : Finish(i, fate)
        \/ Return

Safety == Init /\ [][Next]_vars

Spec == Safety /\ WF_vars(Return)
=============================================================================
