------------------------------- MODULE EventFifo -------------------------------
(***************************************************************************)
(* What nsEventQueue promises its callers, with no pages: "A threadsafe    *)
(* FIFO event queue" (xpcom/threads/nsEventQueue.h).  Callers put events   *)
(* at the back, take them from the front in the same order, and may block  *)
(* while there is nothing to take.  A put may be refused for lack of       *)
(* memory and then leaves no trace.                                        *)
(***************************************************************************)
EXTENDS Naturals, Sequences

CONSTANTS Caller,   \* the threads that use the queue
          Event,    \* the nsIRunnable objects
          NoEvent   \* the null nsIRunnable pointer

VARIABLES queue,    \* the pending events, oldest first
          at,       \* where each caller is: "idle", "waiting" or "notified"
          result,   \* the last *result each caller got from GetEvent
          rv        \* the last PRBool each caller got back

vars == <<queue, at, result, rv>>

Init == /\ queue = <<>>
        /\ at = [c \in Caller |-> "idle"]
        /\ result = [c \in Caller |-> NoEvent]
        /\ rv = [c \in Caller |-> FALSE]

(* Everybody who sleeps is woken by a put. *)
Awakened == [c \in Caller |-> IF at[c] = "waiting" THEN "notified" ELSE at[c]]

Put(c, e) == /\ at[c] = "idle"
             /\ queue' = Append(queue, e)
             /\ at' = Awakened
             /\ rv' = [rv EXCEPT ![c] = TRUE]
             /\ UNCHANGED result

PutRefused(c) == /\ at[c] = "idle"
                 /\ rv' = [rv EXCEPT ![c] = FALSE]
                 /\ UNCHANGED <<queue, at, result>>

Take(c) == /\ at[c] \in {"idle", "notified"}
           /\ queue # <<>>
           /\ queue' = Tail(queue)
           /\ result' = [result EXCEPT ![c] = Head(queue)]
           /\ rv' = [rv EXCEPT ![c] = TRUE]
           /\ at' = [at EXCEPT ![c] = "idle"]

TakeNothing(c) == /\ at[c] = "idle"
                  /\ queue = <<>>
                  /\ result' = [result EXCEPT ![c] = NoEvent]
                  /\ rv' = [rv EXCEPT ![c] = FALSE]
                  /\ UNCHANGED <<queue, at>>

Sleep(c) == /\ at[c] \in {"idle", "notified"}
            /\ queue = <<>>
            /\ at' = [at EXCEPT ![c] = "waiting"]
            /\ UNCHANGED <<queue, result, rv>>

Peek(c) == /\ at[c] = "idle"
           /\ rv' = [rv EXCEPT ![c] = (queue # <<>>)]
           /\ UNCHANGED <<queue, at, result>>

Next == \E c \in Caller :
          \/ \E e \in Event : Put(c, e)
          \/ PutRefused(c)
          \/ Take(c)
          \/ TakeNothing(c)
          \/ Sleep(c)
          \/ Peek(c)

Spec == Init /\ [][Next]_vars
================================================================================
