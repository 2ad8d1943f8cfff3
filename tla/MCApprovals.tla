---------------------------- MODULE MCApprovals -----------------------------
(* Instance of Approvals: a requester, the requester's manager, and an      *)
(* administrator; no contract is due, so the renewal digest rests.          *)
EXTENDS Approvals

CONSTANTS u, m, a, p1

Managers   == [x \in User |-> IF x = u THEN m ELSE NoUser]
Places     == [p \in Policy |-> IF p = p1 THEN 1 ELSE 2]
Amounts    == [e \in Entity |-> 10]
Conditions == {[field |-> "amount", op |-> "GT", value |-> 10]}
Digits     == {<<1, 10>>, <<0, 10>>, <<10, 10>>}
None       == [c \in Contract |-> a]
Zero       == [c \in Contract |-> 0]
=============================================================================
