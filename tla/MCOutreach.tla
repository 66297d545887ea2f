------------------------------ MODULE MCOutreach ------------------------------
(* One contact, two plans.  The first plan has an EMAIL step and may be       *)
(* assigned twice; the second has a TASK step.                                *)
EXTENDS OutreachProperties

CONSTANTS c1, p1, p2, a1, a2, a3, e1, e2, e3

OneContact == [a \in Assignments |-> c1]
TwoPlans == [a \in Assignments |-> IF a = a3 THEN p2 ELSE p1]
StepOf == [e \in Executions |-> CASE e = e1 -> a1 [] e = e2 -> a2 [] OTHER -> a3]
ToContact == [m \in Mails |-> c1]
=============================================================================
