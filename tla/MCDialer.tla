------------------------------- MODULE MCDialer -------------------------------
(* Instances of Dialer for TLC. *)
EXTENDS DialerProperties, TLC

CONSTANTS l1, l2, l3, s1, s2, s3, c1, c2

OneEach == [l \in Leads |-> IF l = l1 THEN c1 ELSE c2]
OnePerson == [l \in Leads |-> c1]
Descending == [l \in Leads |-> IF l = l1 THEN 2 ELSE 1]

Slots == Permutations(Sids)
=============================================================================
