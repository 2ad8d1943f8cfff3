------------------------------ MODULE MCGateway ------------------------------
(* Instance of Gateway: a user at two doors, one idempotency key, a batch   *)
(* of several messages and an initialize.                                   *)
EXTENDS Gateway, TLC

CONSTANT u, d, e

Callers == {<<u, d>>, <<u, e>>}
Sent == {<<"call", "notification", "panic">>, <<"initialize">>}
Interchangeable == Permutations(Client) \cup Permutations(Door) \cup Permutations(Hash)
=============================================================================
