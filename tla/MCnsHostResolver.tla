---------------------------- MODULE MCnsHostResolver ----------------------------
(* nsHostResolver with three hosts: h1 is asked for at every priority (at   *)
(* low priority past the cache), h2 at low priority, and h3 is an IP        *)
(* address literal.                                                         *)
EXTENDS nsHostResolver
CONSTANTS h1, h2, h3

Call(h, p, b) == [host |-> h, priority |-> p, bypass |-> b]
MCCalls == {Call(h1, "high", FALSE), Call(h1, "medium", FALSE), Call(h1, "low", TRUE),
            Call(h2, "low", FALSE), Call(h3, "high", FALSE)}
================================================================================
