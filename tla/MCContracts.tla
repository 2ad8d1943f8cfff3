---------------------------- MODULE MCContracts ----------------------------
(* Instance of Contracts: a contract that bills on the 31st of three        *)
(* months, one of them shorter, for an amount that does not divide.         *)
EXTENDS Contracts, TLC

Interchangeable == Permutations(Customer) \cup Permutations(Client) \cup Permutations(Sale)

Calendar == <<31, 28, 31, 30>>

MonthEnd == [start |-> <<1, 31>>, end |-> <<3, 30>>, type |-> "MONTHLY", amount |-> 101]
TooLong  == [start |-> <<1, 31>>, end |-> <<4, 30>>, type |-> "MONTHLY", amount |-> 3]
Once     == [start |-> <<2, 1>>, end |-> NoDate, type |-> "ONE_TIME", amount |-> 1]
Several  == {MonthEnd, TooLong, Once}
=============================================================================
