------------------------------- MODULE MCMail -------------------------------
(* Instance of Mail: the owner of the first two contracts in the query's    *)
(* order, which fill its LIMIT, and an administrator who owns the third.    *)
EXTENDS Mail

CONSTANTS u, m, c1, c2, c3

Ranks  == [c \in Contract |-> IF c = c1 THEN 1 ELSE IF c = c2 THEN 2 ELSE 3]
Owners == [c \in Contract |-> IF c = c3 THEN m ELSE u]
=============================================================================
