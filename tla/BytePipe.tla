------------------------------- MODULE BytePipe -------------------------------
(***************************************************************************)
(* What a pipe promises its two ends, with no segments and no cursors: the *)
(* bytes one end writes come out of the other in the same order, each once *)
(* and unchanged, and never more than Capacity of them are in between.     *)
(* The n-th byte written stands for itself as the number n.                *)
(***************************************************************************)
EXTENDS Naturals, Sequences

CONSTANT Capacity   \* how many bytes the pipe can hold

VARIABLES content,  \* written and not yet read, oldest first
          sent,     \* how many bytes were written
          received  \* the bytes that were read, in order

vars == <<content, sent, received>>

Init == content = <<>> /\ sent = 0 /\ received = <<>>

Write == \E n \in 1..(Capacity - Len(content)) :
           /\ content' = content \o [i \in 1..n |-> sent + i]
           /\ sent' = sent + n
           /\ UNCHANGED received

Read == \E n \in 1..Len(content) :
          /\ received' = received \o SubSeq(content, 1, n)
          /\ content' = SubSeq(content, n + 1, Len(content))
          /\ UNCHANGED sent

Next == Write \/ Read

Spec == Init /\ [][Next]_vars
================================================================================
