------------------------------ MODULE MCVoices ------------------------------
(* Instance of Voices: one workspace that changes hands, its gate and its   *)
(* code scope.                                                              *)
EXTENDS Voices, TLC

CONSTANTS o1, o2

Options ==
    {[org |-> o1, isolated |-> TRUE, gate |-> TRUE, scope |-> "WORKSPACE", active |-> TRUE],
     [org |-> o2, isolated |-> TRUE, gate |-> FALSE, scope |-> "GLOBAL", active |-> TRUE]}

Interchangeable == Permutations(Client)
=============================================================================
