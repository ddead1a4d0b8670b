----------------------------- MODULE MCSmqManager -----------------------------
(***************************************************************************)
(* Small instances of SmqManager for TLC.                                  *)
(***************************************************************************)
EXTENDS SmqForward, TLC

\* Delays in ticks: equal delays stay equal, 75 s = 15 s + 60 s stays true.
SmallTicks ==
    [d \in Delays |->
        CASE d = 0 -> 0
          [] d \in 1..15000 -> 1
          [] d = 60000 -> 2
          [] d = 75000 -> 3
          [] OTHER -> 4]

\* Coarser still, for the instances that do not look at the length of a delay:
\* at once, later, and much later.
CoarseTicks ==
    [d \in Delays |-> CASE d = 0 -> 0 [] d \in 1..75000 -> 1 [] OTHER -> 2]

================================================================================
