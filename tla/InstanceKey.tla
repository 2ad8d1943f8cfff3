---------------------------- MODULE InstanceKey ----------------------------
(***************************************************************************)
(* What key resolution promises: an installation is bound to one data key  *)
(* for its whole life, every serving container uses that key, and every    *)
(* stored credential is protected by it.  Volumes, environment variables,  *)
(* envelopes, locks and restarts are all hidden here; KeyEnvelope is the   *)
(* detailed specification that implements this one.                        *)
(***************************************************************************)
CONSTANTS
    Container,   \* the Relio processes that share one PostgreSQL database
    Key,         \* 32-byte keys
    NoKey        \* "no key yet"

VARIABLES
    bound,       \* the data key the installation is bound to
    serving,     \* the data key each container serves with, NoKey when it is not up
    sealed       \* the keys that protect the stored credentials

avars == <<bound, serving, sealed>>

(* An installation starts unbound or already bound, with its credentials   *)
(* protected by at most one key: the bound one if there is one.            *)
AInit ==
    /\ bound \in Key \cup {NoKey}
    /\ serving = [c \in Container |-> NoKey]
    /\ \E m \in Key : sealed \subseteq {m} /\ (bound # NoKey => m = bound)

(* A container comes up.  The first one binds the installation, and only to *)
(* a key that opens every credential already stored.                        *)
Serve(c, k) ==
    /\ bound \in {NoKey, k}
    /\ sealed \subseteq {k}
    /\ bound' = k
    /\ serving' = [serving EXCEPT ![c] = k]
    /\ UNCHANGED sealed

Seal(c) ==
    /\ serving[c] # NoKey
    /\ sealed' = sealed \cup {serving[c]}
    /\ UNCHANGED <<bound, serving>>

Forget(c) ==
    /\ serving[c] # NoKey
    /\ sealed' \in SUBSET sealed
    /\ UNCHANGED <<bound, serving>>

Stop(c) ==
    /\ serving' = [serving EXCEPT ![c] = NoKey]
    /\ UNCHANGED <<bound, sealed>>

ANext ==
    \E c \in Container :
        \/ \E k \in Key : Serve(c, k)
        \/ Seal(c)
        \/ Forget(c)
        \/ Stop(c)

ASpec == AInit /\ [][ANext]_avars
=============================================================================
