------------------------------- MODULE MCLane -------------------------------
(* Lane on a small instance: budgets of a few milliseconds, a counter that   *)
(* wraps every TickMod of them, a judgement window of two blocks.            *)
EXTENDS Lane

\* Real budgets are 60 .. 1200 ms; the order of their sizes is kept.
MCTimeout ==
    [s \in States |->
        CASE s \in {"PLL_LOCK", "WAIT_SIGNAL", "AGC", "TRACK"} -> 2
          [] s \in {"CDR_LOCK", "EQ_TRAIN", "EQ_VERIFY"}      -> 3
          [] s = "UP" -> 0
          [] OTHER    -> 1]
=============================================================================
