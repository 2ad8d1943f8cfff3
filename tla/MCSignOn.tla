------------------------------ MODULE MCSignOn -----------------------------
(* Instance of SignOn.                                                      *)
EXTENDS SignOn

Given == {{}, {Manager}}

Left == {[NoUser EXCEPT !.state = "inactive", !.person = CHOOSE p \in Person : TRUE, !.roles = {Starter}]}

Choices == {[enabled |-> TRUE, auto |-> TRUE, autoLogin |-> TRUE, role |-> NoRole, mapped |-> {}],
            [enabled |-> TRUE, auto |-> TRUE, autoLogin |-> FALSE, role |-> Manager, mapped |-> {Manager}],
            [enabled |-> FALSE, auto |-> TRUE, autoLogin |-> TRUE, role |-> NoRole, mapped |-> {}]}
=============================================================================
