---------------------------- MODULE MCPipelines ----------------------------
(* Instance of Pipelines: the board Bootstrap creates, room for a third     *)
(* stage and for a second pipeline.                                         *)
EXTENDS Pipelines, TLC

Saved == {<<FALSE, {}>>,
          <<FALSE, {[rule |-> "present", field |-> "next action"], [rule |-> "empty", field |-> "competitor"]}>>,
          <<TRUE, {[rule |-> "playbook", field |-> "competitor"]}>>}
Interchangeable == Permutations(Client)
=============================================================================
