---------------------------- MODULE MCTimerQueue ----------------------------
(* Instances of TimerQueue for TLC: t4 shares its ID with t1, t5 has no ID,  *)
(* t6 has no trigger, and t2 and t3 are due together.                       *)
EXTENDS TimerQueue, TLC

CONSTANTS t1, t2, t3, t4, t5, t6

MCIdOf == (t1 :> "a") @@ (t2 :> "b") @@ (t3 :> "c") @@ (t4 :> "a")
            @@ (t5 :> "") @@ (t6 :> "d")
MCTriggerAt == (t1 :> 2) @@ (t2 :> 1) @@ (t3 :> 1) @@ (t4 :> 1)
                 @@ (t5 :> 1) @@ (t6 :> 0)
=============================================================================
