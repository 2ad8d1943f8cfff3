--------------------------- MODULE MCPersonalKeys ---------------------------
(* Instance of PersonalKeys: two tabs of one user, two keys, a read-only    *)
(* and a full set of grants.                                                *)
EXTENDS PersonalKeys

CONSTANTS read, write

Grants     == {read, write}
AccessSets == {{read}, {read, write}}
=============================================================================
