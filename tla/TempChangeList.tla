--------------------------- MODULE TempChangeList ---------------------------
(***************************************************************************)
(* What Phase4Defer promises, without locks or hooks: the engine's list of *)
(* actors with a pending change, and one queue of calls per thread.  A     *)
(* call is made, and some time later it takes effect on the list, alone.   *)
(* The calls of one thread take effect in the order that thread made them; *)
(* nothing relates the calls of two threads.  Without the plugin the engine*)
(* implements this with queues that never hold more than one call.         *)
(***************************************************************************)
EXTENDS Sequences

CONSTANTS Threads, Actors, NoProcess

VARIABLES queue,  \* calls of each thread that have not taken effect, oldest first
          list    \* actors in the bucket array of ProcessLists

vars == <<queue, list>>

Kinds == {"Add", "Remove"}
Call  == [kind : Kinds, actor : Actors]

TypeOK == /\ queue \in [Threads -> Seq(Call)]
          /\ list \subseteq Actors

\* AddToTempChangeList ignores an actor without an AI process.
Effect(l, call) ==
    IF call.kind = "Remove"          THEN l \ {call.actor}
    ELSE IF call.actor \in NoProcess THEN l
    ELSE l \cup {call.actor}

Init == queue = [t \in Threads |-> <<>>] /\ list = {}

Issue(t, call) == /\ queue' = [queue EXCEPT ![t] = Append(@, call)]
                  /\ UNCHANGED list

Apply(t) == /\ queue[t] # <<>>
            /\ list'  = Effect(list, Head(queue[t]))
            /\ queue' = [queue EXCEPT ![t] = Tail(@)]

\* The engine takes an actor off the list of its own accord (id 40285).
TakeOff == list # {} /\ (\E a \in list : list' = list \ {a}) /\ UNCHANGED queue

Next == TakeOff \/ \E t \in Threads : Apply(t) \/ \E call \in Call : Issue(t, call)

Spec == Init /\ [][Next]_vars /\ \A t \in Threads : WF_vars(Apply(t))
=============================================================================
