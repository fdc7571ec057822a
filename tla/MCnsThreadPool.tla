---------------------------- MODULE MCnsThreadPool ----------------------------
(* Symmetry for the safety runs of nsThreadPool: nothing in the pool tells *)
(* one dispatching thread, or one worker, from another.                    *)
EXTENDS nsThreadPool, TLC

Symmetry == Permutations(Dispatcher) \cup Permutations(Worker)
================================================================================
