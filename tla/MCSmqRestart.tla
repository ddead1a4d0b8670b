----------------------------- MODULE MCSmqRestart -----------------------------
(***************************************************************************)
(* Small instances of SmqRestart for TLC.                                  *)
(***************************************************************************)
EXTENDS SmqRestart

\* At once, later, and much later.
CoarseTicks ==
    [d \in Delays |-> CASE d = 0 -> 0 [] d \in 1..75000 -> 1 [] OTHER -> 2]

================================================================================
