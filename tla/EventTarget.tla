------------------------------ MODULE EventTarget ------------------------------
(***************************************************************************)
(* What nsIEventTarget promises to those who dispatch to a thread: an      *)
(* event that was accepted is begun by that thread and never a second      *)
(* time; a thread stops accepting only at an instant when nothing it       *)
(* accepted is waiting, and never accepts again.  (That an accepted event  *)
(* is begun at all is a liveness property: AcceptedEventsRun in nsThread.) *)
(***************************************************************************)
EXTENDS Naturals

CONSTANTS Thread,    \* the threads events are dispatched to
          EventId    \* the events

VARIABLES waiting,   \* the accepted events of each thread not yet begun
          begun,     \* how often each event has been begun
          closed     \* the threads that accept no more events

vars == <<waiting, begun, closed>>

Init == /\ waiting = [t \in Thread |-> {}]
        /\ begun = [e \in EventId |-> 0]
        /\ closed = {}

Known == {e \in EventId : begun[e] > 0} \cup UNION {waiting[t] : t \in Thread}

Accept(t, e) == /\ t \notin closed
                /\ e \notin Known
                /\ waiting' = [waiting EXCEPT ![t] = @ \cup {e}]
                /\ UNCHANGED <<begun, closed>>

Begin(t, e) == /\ e \in waiting[t]
               /\ waiting' = [waiting EXCEPT ![t] = @ \ {e}]
               /\ begun' = [begun EXCEPT ![e] = @ + 1]
               /\ UNCHANGED closed

Close(t) == /\ waiting[t] = {}
            /\ closed' = closed \cup {t}
            /\ UNCHANGED <<waiting, begun>>

Next == \E t \in Thread : \/ \E e \in EventId : Accept(t, e) \/ Begin(t, e)
                          \/ Close(t)

Spec == Init /\ [][Next]_vars
================================================================================
