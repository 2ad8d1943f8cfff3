---------------------------- MODULE KeyEnvelope ----------------------------
(***************************************************************************)
(* Start-up key resolution (secrets.Resolve) of several Relio containers   *)
(* that share one PostgreSQL database, and the maintenance pass of the     *)
(* running ones, which competes for the same advisory lock id.             *)
(*                                                                         *)
(* A wrapping key (ENCRYPTION_KEY, or the master.key file of the mounted   *)
(* volume) seals the installation's data key in an envelope stored in the  *)
(* database; the data key protects SSO secrets, secret settings and the    *)
(* digests of Personal Keys.  Every database or file access that another   *)
(* container can interleave with is a step of its own.                     *)
(*                                                                         *)
(* Keys are opaque: a fingerprint is modelled by the key it identifies,    *)
(* and AES-GCM by "opens exactly under the key that sealed it".            *)
(***************************************************************************)
EXTENDS FiniteSets

CONSTANTS
    Container,    \* Relio processes
    Volume,       \* relio-data volumes an operator can mount
    Key,          \* 32-byte keys
    EnvKey,       \* the ENCRYPTION_KEY values the operator has in the vault
    NoKey,        \* no key: no file, no environment variable, no row
    Torn,         \* a master.key file of the wrong length
    Malformed,    \* an ENCRYPTION_KEY that ParseKeyMaterial rejects
    Installs      \* the kinds of database the first boot may meet

(* FRESH: nothing stored.  REGISTERED: 1.5, which stores a fingerprint but  *)
(* no envelope.  CIPHERTEXT, DIGESTS: older still, no fingerprint either;   *)
(* DIGESTS holds Personal Keys but no encrypted value.                      *)
InstallKinds == {"FRESH", "REGISTERED", "CIPHERTEXT", "DIGESTS"}

ASSUME KeyAssumption ==
    /\ EnvKey \subseteq Key
    /\ NoKey \notin Key \cup Container \cup Volume
    /\ Torn \notin Key /\ Torn # NoKey
    /\ Malformed \notin Key /\ Malformed # NoKey
    /\ Installs \subseteq InstallKinds

VARIABLES
    file,       \* secrets/master.key on each volume
    envl,       \* instance_data_key: the data key, what seals it, where that came from
    registry,   \* instance_key_registry: the fingerprint of the data key
    ciphers,    \* the keys SSO secrets and secret settings are encrypted with
    digests,    \* the keys the digests of live Personal Keys are made with
    lock,       \* holder of advisory lock 733541122020269, NoKey when free
    pc,         \* where each container is in main / secrets.Resolve
    env,        \* its ENCRYPTION_KEY
    vol,        \* its mounted volume
    present,    \* status.FilePresent of the first Lstat
    protected,  \* protectedMaterialCount > 0, as read before the lock
    wrap,       \* the wrapping key
    alt,        \* the key loaded from the file, the other candidate
    data,       \* the resolved data key; the one served with once up
    event       \* resolvedKey.event

db    == <<envl, registry, ciphers, digests>>
input == <<env, vol>>
local == <<present, protected, wrap, alt, data, event>>
vars  == <<file, db, lock, pc, input, local>>

NoEnvelope == [key |-> NoKey, by |-> NoKey, origin |-> "NONE"]
Origins    == {"ENCRYPTION_KEY", "FILE"}
Events     == {"", "INITIALIZED", "ADOPTED", "REWRAPPED"}
Booting    == {"stat", "count", "lost", "wrap", "create", "write", "lock", "resolve", "commit"}

TypeOK ==
    /\ file \in [Volume -> Key \cup {NoKey, Torn}]
    /\ envl \in [key : Key, by : Key, origin : Origins] \cup {NoEnvelope}
    /\ registry \in Key \cup {NoKey}
    /\ ciphers \in SUBSET Key
    /\ digests \in SUBSET Key
    /\ lock \in Container \cup {NoKey}
    /\ pc \in [Container -> Booting \cup {"down", "up", "refused"}]
    /\ env \in [Container -> Key \cup {NoKey, Malformed}]
    /\ vol \in [Container -> Volume \cup {NoKey}]
    /\ present \in [Container -> BOOLEAN]
    /\ protected \in [Container -> BOOLEAN]
    /\ wrap \in [Container -> Key \cup {NoKey}]
    /\ alt \in [Container -> Key \cup {NoKey}]
    /\ data \in [Container -> Key \cup {NoKey}]
    /\ event \in [Container -> Events]

Blank(value) == [c \in Container |-> value]

(* The database the first container meets: a new one, or one written by an *)
(* earlier release with a master key m that some volume may still hold.    *)
Install(kind, m) ==
    CASE kind = "FRESH" ->
            registry = NoKey /\ ciphers = {} /\ digests = {}
      [] kind = "REGISTERED" ->
            registry = m /\ ciphers \in SUBSET {m} /\ digests \in SUBSET {m}
      [] kind = "CIPHERTEXT" ->
            registry = NoKey /\ ciphers = {m} /\ digests \in SUBSET {m}
      [] kind = "DIGESTS" ->
            registry = NoKey /\ ciphers = {} /\ digests = {m}

Init ==
    /\ file \in [Volume -> Key \cup {NoKey}]
    /\ envl = NoEnvelope
    /\ \E kind \in Installs, m \in Key : Install(kind, m)
    /\ lock = NoKey
    /\ pc = Blank("down")
    /\ env = Blank(NoKey)
    /\ vol = Blank(NoKey)
    /\ present = Blank(FALSE)
    /\ protected = Blank(FALSE)
    /\ wrap = Blank(NoKey)
    /\ alt = Blank(NoKey)
    /\ data = Blank(NoKey)
    /\ event = Blank("")

Goto(c, step) == pc' = [pc EXCEPT ![c] = step]

(* The local variables of Resolve go out of scope.                         *)
ForgetLocals(c) ==
    /\ present' = [present EXCEPT ![c] = FALSE]
    /\ protected' = [protected EXCEPT ![c] = FALSE]
    /\ wrap' = [wrap EXCEPT ![c] = NoKey]
    /\ alt' = [alt EXCEPT ![c] = NoKey]
    /\ event' = [event EXCEPT ![c] = ""]

(* The process is gone, and with its session the lock and the transaction. *)
Exit(c, how) ==
    /\ Goto(c, how)
    /\ lock' = IF lock = c THEN NoKey ELSE lock
    /\ env' = [env EXCEPT ![c] = NoKey]
    /\ vol' = [vol EXCEPT ![c] = NoKey]
    /\ data' = [data EXCEPT ![c] = NoKey]
    /\ ForgetLocals(c)
    /\ UNCHANGED db

(* Resolve returns an error, its deferred Rollback undoes the transaction   *)
(* and main exits 1.                                                        *)
Refuse(c) == Exit(c, "refused")

(* A random key is none of the keys that exist.                            *)
KeysInUse ==
    EnvKey \cup {file[v] : v \in Volume} \cup ciphers \cup digests
        \cup {registry, envl.key, envl.by}
        \cup UNION {{env[c], wrap[c], alt[c], data[c]} : c \in Container}

Fresh == Key \ KeysInUse

-----------------------------------------------------------------------------
(* Environment: operators start and kill processes and look after volumes. *)

(* The operator starts c with any volume and any value: from the vault,    *)
(* copied from a master.key, malformed or none.                            *)
Start(c) ==
    /\ pc[c] \in {"down", "refused"}
    /\ \E v \in Volume, e \in EnvKey \cup {file[w] : w \in Volume} \cup {NoKey, Malformed} :
        /\ e # Torn
        /\ env' = [env EXCEPT ![c] = e]
        /\ vol' = [vol EXCEPT ![c] = v]
    /\ Goto(c, "stat")
    /\ UNCHANGED <<file, db, lock, local>>

(* The process stops, is killed, or loses its database connection: its     *)
(* transaction or its session, and so its advisory lock, is gone.          *)
Crash(c) ==
    /\ pc[c] \notin {"down", "refused"}
    /\ Exit(c, "down")
    /\ UNCHANGED file

Unmounted(v) == \A c \in Container : vol[c] # v

(* A volume is recreated, or restored from a copy of another one.  Docker  *)
(* does not remove a volume a container still uses.                        *)
ReplaceVolume(v) ==
    /\ Unmounted(v)
    /\ \E k \in {NoKey} \cup {file[w] : w \in Volume} : file' = [file EXCEPT ![v] = k]
    /\ UNCHANGED <<db, lock, pc, input, local>>

-----------------------------------------------------------------------------
(* secrets.Resolve before its transaction.                                 *)

Stat(c) ==
    /\ pc[c] = "stat"
    /\ present' = [present EXCEPT ![c] = file[vol[c]] # NoKey]
    /\ Goto(c, "count")
    /\ UNCHANGED <<file, db, lock, input, protected, wrap, alt, data, event>>

(* protectedMaterialCount, outside any transaction.                        *)
Count(c) ==
    /\ pc[c] = "count"
    /\ protected' = [protected EXCEPT ![c] = ciphers \cup digests # {}]
    /\ Goto(c, IF env[c] = NoKey /\ ~present[c] THEN "lost" ELSE "wrap")
    /\ UNCHANGED <<file, db, lock, input, present, wrap, alt, data, event>>

(* Neither ENCRYPTION_KEY nor a file: refuse unless nothing was ever stored. *)
CheckLost(c) ==
    /\ pc[c] = "lost"
    /\ IF envl # NoEnvelope \/ registry # NoKey \/ protected[c]
       THEN Refuse(c)
       ELSE Goto(c, "wrap") /\ UNCHANGED <<db, lock, input, local>>
    /\ UNCHANGED file

(* wrappingKey: a file that is no 32-byte key ends the start even when      *)
(* ENCRYPTION_KEY is given; otherwise ENCRYPTION_KEY wins over the file.    *)
WrappingKey(c) ==
    LET f == file[vol[c]]
        k == IF env[c] = NoKey THEN f ELSE env[c]
    IN
    /\ pc[c] = "wrap"
    /\ \/ /\ f = Torn \/ env[c] = Malformed
          /\ Refuse(c)
       \/ /\ f # Torn /\ k \in Key
          /\ wrap' = [wrap EXCEPT ![c] = k]
          /\ alt' = [alt EXCEPT ![c] = f]
          /\ Goto(c, "lock")
          /\ UNCHANGED <<db, lock, input, present, protected, data, event>>
       \/ /\ f = NoKey /\ env[c] = NoKey
          /\ Goto(c, "create")
          /\ UNCHANGED <<db, lock, input, local>>
    /\ UNCHANGED file

(* Mutant: open without O_EXCL truncates a key another container wrote.      *)
CreateFileNotExclusive(c) ==
    /\ pc[c] = "create"
    /\ file' = [file EXCEPT ![vol[c]] = Torn]
    /\ Goto(c, "write")
    /\ UNCHANGED <<db, lock, input, local>>

(* LoadOrCreate: open with O_CREATE|O_EXCL.  The file is empty until the    *)
(* key is written; a container that lost the race loads again.              *)
CreateFile(c) ==
    /\ pc[c] = "create"
    /\ \/ /\ file[vol[c]] = NoKey
          /\ file' = [file EXCEPT ![vol[c]] = Torn]
          /\ Goto(c, "write")
       \/ /\ file[vol[c]] # NoKey
          /\ Goto(c, "wrap")
          /\ UNCHANGED file
    /\ UNCHANGED <<db, lock, input, local>>

WriteFile(c) ==
    /\ pc[c] = "write"
    /\ \/ \E k \in Fresh :
          /\ file' = [file EXCEPT ![vol[c]] = k]
          /\ wrap' = [wrap EXCEPT ![c] = k]
          /\ alt' = [alt EXCEPT ![c] = k]
          /\ Goto(c, "lock")
          /\ UNCHANGED <<db, lock, input, present, protected, data, event>>
       \/ Refuse(c) /\ UNCHANGED file      \* the write fails, the empty file stays

-----------------------------------------------------------------------------
(* secrets.Resolve inside its transaction.                                 *)

(* pg_advisory_xact_lock waits for whoever holds the lock id.              *)
AcquireLock(c) ==
    /\ pc[c] = "lock"
    /\ lock = NoKey
    /\ lock' = c
    /\ Goto(c, "resolve")
    /\ UNCHANGED <<file, db, input, local>>

Origin(c) == IF env[c] = NoKey THEN "FILE" ELSE "ENCRYPTION_KEY"

(* candidates: the wrapping key first, then a file that holds another key.  *)
Candidates(c) == {wrap[c], alt[c]} \ {NoKey}

(* Mutant: the first candidate is taken without opening anything.           *)
VerifiesNothing(k) == TRUE

(* verifyEncryptedValues: encrypted values are opened, digests are not.     *)
Verifies(k) == ciphers \subseteq {k}

AdoptionEvent(c, k) == IF k = wrap[c] THEN "INITIALIZED" ELSE "ADOPTED"

(* The first candidate of the list that satisfies the test.                *)
FirstMatch(c, matches) == IF wrap[c] \in matches THEN wrap[c] ELSE alt[c]

Resolved(c, k, e) ==
    /\ data' = [data EXCEPT ![c] = k]
    /\ event' = [event EXCEPT ![c] = e]
    /\ Goto(c, "commit")
    /\ UNCHANGED <<db, lock, input, present, protected, wrap, alt>>

(* resolveDataKey when an envelope is stored: the wrapping key opens it, or *)
(* the file does and the new wrapping key is adopted, or the start ends.    *)
OpenEnvelope(c) ==
    \/ /\ envl.by = wrap[c]
       /\ Resolved(c, envl.key, IF envl.origin = Origin(c) THEN "" ELSE "REWRAPPED")
    \/ /\ envl.by # wrap[c] /\ envl.by = alt[c]
       /\ Resolved(c, envl.key, "ADOPTED")
    \/ /\ envl.by \notin Candidates(c)
       /\ Refuse(c)

(* resolveDataKey without one: the registered fingerprint decides, else the *)
(* ciphertext, else the installation is new and gets a random key.          *)
AdoptMasterKey(c) ==
    LET matches == IF registry # NoKey THEN Candidates(c) \cap {registry}
                   ELSE {k \in Candidates(c) : Verifies(k)}
        k == FirstMatch(c, matches)
    IN
    /\ registry # NoKey \/ protected[c]
    /\ \/ matches # {} /\ Resolved(c, k, AdoptionEvent(c, k))
       \/ matches = {} /\ Refuse(c)

GenerateDataKey(c) ==
    /\ registry = NoKey /\ ~protected[c]
    /\ \E k \in Fresh : Resolved(c, k, "INITIALIZED")

ResolveDataKey(c) ==
    /\ pc[c] = "resolve"
    /\ \/ envl # NoEnvelope /\ OpenEnvelope(c)
       \/ envl = NoEnvelope /\ (AdoptMasterKey(c) \/ GenerateDataKey(c))
    /\ UNCHANGED file

(* The rest of Resolve: upsert the envelope when an event says so, register *)
(* or compare the fingerprint, verify every encrypted value, commit.        *)
Commit(c) ==
    /\ pc[c] = "commit"
    /\ IF registry \in {NoKey, data[c]} /\ Verifies(data[c])
       THEN /\ envl' = IF event[c] = "" THEN envl
                       ELSE [key |-> data[c], by |-> wrap[c], origin |-> Origin(c)]
            /\ registry' = data[c]
            /\ Goto(c, "up")
            /\ lock' = NoKey
            /\ ForgetLocals(c)
            /\ UNCHANGED <<ciphers, digests, input, data>>
       ELSE Refuse(c)
    /\ UNCHANGED file

-----------------------------------------------------------------------------
(* A running container.                                                    *)

(* An SSO client secret or a secret setting is saved, or a Personal Key issued. *)
StoreSecret(c) ==
    /\ pc[c] = "up"
    /\ ciphers' = ciphers \cup {data[c]}
    /\ UNCHANGED <<file, envl, registry, digests, lock, pc, input, local>>

IssueKey(c) ==
    /\ pc[c] = "up"
    /\ digests' = digests \cup {data[c]}
    /\ UNCHANGED <<file, envl, registry, ciphers, lock, pc, input, local>>

(* Secrets are cleared, Personal Keys revoked or expired.                  *)
Retire(c) ==
    /\ pc[c] = "up"
    /\ ciphers' \in SUBSET ciphers
    /\ digests' \in SUBSET digests
    /\ UNCHANGED <<file, envl, registry, lock, pc, input, local>>

(* job.Runner.maintain holds pg_try_advisory_lock for its whole pass.       *)
BeginMaintenance(c) ==
    /\ pc[c] = "up"
    /\ lock = NoKey
    /\ lock' = c
    /\ UNCHANGED <<file, db, pc, input, local>>

(* Mutant: the unlock goes to another pooled connection and the lock leaks. *)
EndMaintenanceLeaks(c) == pc[c] = "up" /\ lock = c /\ UNCHANGED vars

EndMaintenance(c) ==
    /\ pc[c] = "up"
    /\ lock = c
    /\ lock' = NoKey
    /\ UNCHANGED <<file, db, pc, input, local>>

-----------------------------------------------------------------------------
Boot(c) ==
    \/ Stat(c) \/ Count(c) \/ CheckLost(c) \/ WrappingKey(c)
    \/ CreateFile(c) \/ WriteFile(c)
    \/ ResolveDataKey(c) \/ Commit(c)

Serving(c) ==
    \/ StoreSecret(c) \/ IssueKey(c) \/ Retire(c)
    \/ BeginMaintenance(c) \/ EndMaintenance(c)

Next ==
    \/ \E c \in Container : Start(c) \/ Crash(c) \/ Boot(c) \/ AcquireLock(c) \/ Serving(c)
    \/ \E v \in Volume : ReplaceVolume(v)

Spec == Init /\ [][Next]_vars

(* A process that is not killed keeps executing.  PostgreSQL queues lock    *)
(* waiters and fails a try-lock while one waits, so a free lock is not      *)
(* withheld from a waiter for ever: strong fairness.                        *)
Fairness ==
    \A c \in Container :
        WF_vars(Boot(c)) /\ SF_vars(AcquireLock(c)) /\ WF_vars(EndMaintenance(c))

FairSpec == Spec /\ Fairness
-----------------------------------------------------------------------------
(* Every credential stored in PostgreSQL opens under the key a running      *)
(* container holds: SSO secrets, secret settings and Personal Key digests   *)
(* alike, whatever volumes and ENCRYPTION_KEY values the boots before had.  *)
CredentialsReadable ==
    \A c \in Container : pc[c] = "up" => ciphers \cup digests \subseteq {data[c]}

(* The envelope, the registry and the running containers name one key.      *)
KeysAgree ==
    /\ envl # NoEnvelope => registry = envl.key
    /\ \A c \in Container : pc[c] = "up" => envl # NoEnvelope /\ data[c] = registry

(* When a start seals the data key with a key from a file, that file holds  *)
(* the key on the mounted volume at that moment, so the next start with the *)
(* volume opens the envelope: two first starts on a shared volume never     *)
(* leave the envelope sealed with a key the loser of the race overwrote.    *)
SealedByDurableFile ==
    [][(envl' # envl /\ envl'.origin = "FILE") =>
          \E c \in Container : pc'[c] = "up" /\ pc[c] # "up" /\ file[vol[c]] = envl'.by]_vars

(* A start always ends, in service or refused, unless it is killed: neither *)
(* another start nor a maintenance pass, which take the same lock id, can   *)
(* keep it waiting for ever.                                                *)
BootEnds ==
    \A c \in Container : pc[c] \in Booting ~> pc[c] \notin Booting

(* The detailed specification implements InstanceKey: the installation is   *)
(* bound by the committed registry row.                                     *)
Promise == INSTANCE InstanceKey WITH
    bound   <- registry,
    serving <- [c \in Container |-> IF pc[c] = "up" THEN data[c] ELSE NoKey],
    sealed  <- ciphers \cup digests

BoundForLife == Promise!ASpec
-----------------------------------------------------------------------------
(* The inductive strengthening the proofs use.  Only the holder of the lock *)
(* is inside the transaction, so what it resolved is still right when it    *)
(* commits; until the installation is bound nobody serves, so the stored    *)
(* credentials, and the count a start read before the lock, cannot move.    *)

Credentials == ciphers \cup digests

Exclusive ==
    /\ \A c \in Container : pc[c] \in {"resolve", "commit"} => lock = c
    /\ \A c \in Container : pc[c] \in Booting \cup {"up"} => vol[c] \in Volume
    /\ \A c \in Container : pc[c] = "write" => file[vol[c]] = Torn
    /\ \A c, d \in Container : pc[c] = "write" /\ pc[d] = "write" /\ vol[c] = vol[d] => c = d

HoldsWrap ==
    \A c \in Container : pc[c] \in {"lock", "resolve", "commit"} =>
        /\ wrap[c] \in Key
        /\ env[c] = NoKey => file[vol[c]] = wrap[c]

Bound ==
    /\ registry # NoKey => Credentials \subseteq {registry}
    /\ registry = NoKey /\ ciphers = {} => digests = {}
    /\ registry = NoKey => \A j, k \in Credentials : j = k

CountIsFresh ==
    \A c \in Container :
        /\ registry = NoKey
        /\ pc[c] \in {"lost", "wrap", "create", "write", "lock", "resolve"}
        => (protected[c] <=> Credentials # {})

Proposal ==
    \A c \in Container : pc[c] = "commit" =>
        /\ data[c] \in Key
        /\ registry # NoKey => data[c] = registry
        /\ Credentials \subseteq {data[c]}
        /\ event[c] = "" => envl # NoEnvelope

IInv == TypeOK /\ Exclusive /\ HoldsWrap /\ Bound /\ CountIsFresh /\ Proposal /\ KeysAgree
=============================================================================
