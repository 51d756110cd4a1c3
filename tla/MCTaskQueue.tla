----------------------------- MODULE MCTaskQueue -----------------------------
(* Instances of TaskQueue for TLC: t1, t2, t3 and t4 have triggers, t5 and t6 *)
(* priorities, the others neither; t1 and t2 share an ID, as do t5 and t6,    *)
(* and only t1 is retried.                                                   *)
EXTENDS TaskQueue, TLC

CONSTANTS t1, t2, t3, t4, t5, t6, t7, t8, t9

MCIdOf == [t \in Task |->
  CASE t \in {t1, t2} -> "a" [] t = t3 -> "b" [] t = t4 -> "c"
    [] t \in {t5, t6} -> "d" [] OTHER -> "e"]
MCTriggerAt == [t \in Task |-> IF t \in {t1, t2, t3, t4} THEN 1 ELSE 0]
MCAskedPrio == [t \in Task |-> IF t \in {t5, t6} THEN 2 ELSE 0]
MCMaxRetries == [t \in Task |-> IF t = t1 THEN 1 ELSE 0]
===============================================================================
