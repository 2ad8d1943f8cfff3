----------------------------- MODULE Keys_proofs -----------------------------
(***************************************************************************)
(* Proofs about keys: KeyEnvelope, for every set of containers, volumes     *)
(* and keys and every installation whose credentials can be verified at     *)
(* start-up, and PersonalKeys, for any number of keys, tabs and scopes and  *)
(* any policy values.                                                       *)
(***************************************************************************)
EXTENDS KeyEnvelope, PersonalKeys, TLAPS

USE DEF Booting, Origins, Events, InstallKinds

(* The invariant holds of every database the first start may meet, except  *)
(* an unregistered one whose only credentials are Personal Key digests:     *)
(* nothing in it says which key made them.                                  *)
LEMMA InitInv ==
    ASSUME "DIGESTS" \notin Installs
    PROVE  Init => IInv
<1> SUFFICES ASSUME Init PROVE IInv
    OBVIOUS
<1> USE KeyAssumption
<1>1. PICK kind \in Installs, m \in Key : Install(kind, m)
    BY DEF Init
<1>2. kind \in {"FRESH", "REGISTERED", "CIPHERTEXT"}
    OBVIOUS
<1>3. TypeOK
    BY <1>1, <1>2 DEF Init, TypeOK, Blank, Install
<1>4. Exclusive /\ HoldsWrap /\ CountIsFresh /\ Proposal
    BY DEF Init, Blank, Exclusive, HoldsWrap, CountIsFresh, Proposal
<1>5. Bound
    BY <1>1, <1>2 DEF Install, Bound, Credentials
<1>6. KeysAgree
    BY DEF Init, Blank, KeysAgree
<1> QED
    BY <1>3, <1>4, <1>5, <1>6 DEF IInv

(* A process that goes away, refused or killed, takes its transaction and   *)
(* its lock with it and disturbs nothing else.                              *)
LEMMA ExitStep ==
    ASSUME NEW c \in Container, NEW how \in {"down", "refused"},
           IInv, Exit(c, how), UNCHANGED file
    PROVE  IInv'
<1> USE KeyAssumption DEF Exit, ForgetLocals, Goto, db, IInv
<1>1. TypeOK'
    BY DEF TypeOK
<1>2. Exclusive'
    BY ZenonT(60) DEF TypeOK, Exclusive
<1>3. HoldsWrap'
    BY ZenonT(60) DEF TypeOK, HoldsWrap, Exclusive
<1>4. Bound'
    BY DEF Bound, Credentials
<1>5. CountIsFresh'
    BY ZenonT(60) DEF TypeOK, CountIsFresh, Credentials
<1>6. Proposal'
    BY DEF TypeOK, Proposal, Credentials
<1>7. KeysAgree'
    BY DEF TypeOK, KeysAgree
<1> QED
    BY <1>1, <1>2, <1>3, <1>4, <1>5, <1>6, <1>7

(* A step that leaves the database and the resolved keys alone, and takes    *)
(* no container into service, into the commit or past the count, keeps all  *)
(* that is said about the database.                                         *)
Quiet(d) ==
    /\ pc'[d] \in {"lost", "wrap", "create", "write", "lock", "resolve"} =>
       pc[d] \in {"lost", "wrap", "create", "write", "lock", "resolve"}
    /\ pc'[d] \in {"commit", "up"} => pc'[d] = pc[d]

LEMMA Frame ==
    ASSUME IInv, UNCHANGED <<db, data, event, protected>>,
           \A d \in Container : Quiet(d)
    PROVE  Bound' /\ CountIsFresh' /\ Proposal' /\ KeysAgree'
<1> USE DEF IInv, db
<1>1. Bound' /\ Credentials' = Credentials
    BY DEF Bound, Credentials
<1>2. CountIsFresh'
    BY <1>1 DEF CountIsFresh, Quiet
<1>3. Proposal'
    BY <1>1 DEF Proposal, Quiet
<1>4. KeysAgree'
    BY DEF KeysAgree, Quiet
<1> QED
    BY <1>1, <1>2, <1>3, <1>4

(* An envelope binds the installation.                                      *)
LEMMA BoundByEnvelope ==
    ASSUME IInv, envl # NoEnvelope
    PROVE  envl.key \in Key /\ registry = envl.key /\ registry # NoKey
<1>1. envl \in [key : Key, by : Key, origin : Origins]
    BY DEF IInv, TypeOK
<1>2. registry = envl.key
    BY DEF IInv, KeysAgree
<1> QED
    BY <1>1, <1>2, KeyAssumption

LEMMA FileKeys ==
    ASSUME TypeOK
    PROVE  {file[w] : w \in Volume} \subseteq Key \cup {NoKey, Torn}
<1> SUFFICES ASSUME NEW w \in Volume PROVE file[w] \in Key \cup {NoKey, Torn}
    OBVIOUS
<1> QED
    BY DEF TypeOK

LEMMA StartStep ==
    ASSUME NEW c \in Container, IInv, Start(c)
    PROVE  IInv'
<1> USE KeyAssumption DEF Goto, db, local
<1>1. PICK v \in Volume, e \in Key \cup {NoKey, Malformed} :
          env' = [env EXCEPT ![c] = e] /\ vol' = [vol EXCEPT ![c] = v]
    <2>1. {file[w] : w \in Volume} \subseteq Key \cup {NoKey, Torn}
        BY FileKeys DEF IInv
    <2> QED
        BY <2>1 DEF Start
<1>2. TypeOK'
    BY <1>1 DEF IInv, TypeOK, Start
<1>3. Exclusive'
    BY <1>1, ZenonT(60) DEF IInv, TypeOK, Exclusive, Start
<1>4. HoldsWrap'
    BY <1>1 DEF IInv, TypeOK, HoldsWrap, Start
<1>5. Bound' /\ CountIsFresh' /\ Proposal' /\ KeysAgree'
    BY Frame DEF IInv, TypeOK, Quiet, Start
<1> QED
    BY <1>2, <1>3, <1>4, <1>5 DEF IInv

LEMMA ReplaceVolumeStep ==
    ASSUME NEW v \in Volume, IInv, ReplaceVolume(v)
    PROVE  IInv'
<1> USE KeyAssumption DEF db, input, local
<1>1. PICK k \in Key \cup {NoKey, Torn} : file' = [file EXCEPT ![v] = k]
    <2>1. {file[w] : w \in Volume} \subseteq Key \cup {NoKey, Torn}
        BY FileKeys DEF IInv
    <2> QED
        BY <2>1 DEF ReplaceVolume
<1>2. TypeOK'
    BY <1>1 DEF IInv, TypeOK, ReplaceVolume
<1>3. Exclusive' /\ HoldsWrap'
    BY <1>1, ZenonT(60) DEF IInv, TypeOK, Exclusive, HoldsWrap, ReplaceVolume, Unmounted
<1>4. Bound' /\ CountIsFresh' /\ Proposal' /\ KeysAgree'
    BY Frame DEF Quiet, ReplaceVolume
<1> QED
    BY <1>2, <1>3, <1>4 DEF IInv

LEMMA StatStep ==
    ASSUME NEW c \in Container, IInv, Stat(c)
    PROVE  IInv'
<1> USE KeyAssumption DEF Goto, db, input, local
<1>1. TypeOK'
    BY DEF IInv, TypeOK, Stat
<1>2. Exclusive'
    BY DEF IInv, TypeOK, Exclusive, Stat
<1>3. HoldsWrap'
    BY DEF IInv, TypeOK, HoldsWrap, Stat
<1>4. Bound' /\ CountIsFresh' /\ Proposal' /\ KeysAgree'
    BY Frame DEF IInv, TypeOK, Quiet, Stat
<1> QED
    BY <1>1, <1>2, <1>3, <1>4 DEF IInv

LEMMA CountStep ==
    ASSUME NEW c \in Container, IInv, Count(c)
    PROVE  IInv'
<1> USE KeyAssumption DEF Goto, db, input
<1>1. TypeOK'
    BY DEF IInv, TypeOK, Count
<1>2. Exclusive'
    BY ZenonT(60) DEF IInv, TypeOK, Exclusive, Count
<1>3. HoldsWrap'
    BY DEF IInv, TypeOK, HoldsWrap, Count
<1>4. Bound' /\ Credentials' = Credentials
    BY DEF IInv, Bound, Credentials, Count
<1>5. CountIsFresh'
    BY <1>4, ZenonT(60) DEF IInv, TypeOK, CountIsFresh, Credentials, Count
<1>6. Proposal'
    BY <1>4 DEF IInv, TypeOK, Proposal, Count
<1>7. KeysAgree'
    BY ZenonT(60) DEF IInv, TypeOK, KeysAgree, Count
<1> QED
    BY <1>1, <1>2, <1>3, <1>4, <1>5, <1>6, <1>7 DEF IInv

LEMMA AcquireLockStep ==
    ASSUME NEW c \in Container, IInv, AcquireLock(c)
    PROVE  IInv'
<1> USE KeyAssumption DEF Goto, db, input, local
<1>1. TypeOK'
    BY DEF IInv, TypeOK, AcquireLock
<1>2. Exclusive'
    BY ZenonT(60) DEF IInv, TypeOK, Exclusive, AcquireLock
<1>3. HoldsWrap'
    BY DEF IInv, TypeOK, HoldsWrap, AcquireLock
<1>4. Bound' /\ CountIsFresh' /\ Proposal' /\ KeysAgree'
    BY Frame, ZenonT(60) DEF IInv, TypeOK, Quiet, AcquireLock
<1> QED
    BY <1>1, <1>2, <1>3, <1>4 DEF IInv

LEMMA BeginMaintenanceStep ==
    ASSUME NEW c \in Container, IInv, BeginMaintenance(c)
    PROVE  IInv'
<1> USE KeyAssumption DEF Goto, db, input, local
<1>1. TypeOK'
    BY DEF IInv, TypeOK, BeginMaintenance
<1>2. Exclusive'
    BY DEF IInv, TypeOK, Exclusive, BeginMaintenance
<1>3. HoldsWrap'
    BY DEF IInv, TypeOK, HoldsWrap, BeginMaintenance
<1>4. Bound' /\ CountIsFresh' /\ Proposal' /\ KeysAgree'
    BY Frame DEF IInv, TypeOK, Quiet, BeginMaintenance
<1> QED
    BY <1>1, <1>2, <1>3, <1>4 DEF IInv

LEMMA EndMaintenanceStep ==
    ASSUME NEW c \in Container, IInv, EndMaintenance(c)
    PROVE  IInv'
<1> USE KeyAssumption DEF Goto, db, input, local
<1>1. TypeOK'
    BY DEF IInv, TypeOK, EndMaintenance
<1>2. Exclusive'
    BY DEF IInv, TypeOK, Exclusive, EndMaintenance
<1>3. HoldsWrap'
    BY DEF IInv, TypeOK, HoldsWrap, EndMaintenance
<1>4. Bound' /\ CountIsFresh' /\ Proposal' /\ KeysAgree'
    BY Frame DEF IInv, TypeOK, Quiet, EndMaintenance
<1> QED
    BY <1>1, <1>2, <1>3, <1>4 DEF IInv

LEMMA CreateFileStep ==
    ASSUME NEW c \in Container, IInv, CreateFile(c)
    PROVE  IInv'
<1> USE KeyAssumption DEF Goto, db, input, local
<1> DEFINE v == vol[c]
<1>1. pc[c] = "create" /\ v \in Volume
    BY DEF IInv, Exclusive, CreateFile
<1>2. PICK step \in {"write", "wrap"} :
          /\ pc' = [pc EXCEPT ![c] = step]
          /\ step = "write" => file[v] = NoKey /\ file' = [file EXCEPT ![v] = Torn]
          /\ step = "wrap" => file' = file
          /\ UNCHANGED <<db, lock, input, local>>
    BY DEF CreateFile
<1>3. TypeOK'
    BY <1>1, <1>2 DEF IInv, TypeOK
<1>4. Exclusive'
    <2>1. CASE step = "wrap"
        BY <1>1, <1>2, <2>1, ZenonT(60) DEF IInv, TypeOK, Exclusive
    <2>2. CASE step = "write"
        <3>1. \A w \in Volume : file'[w] = IF w = v THEN Torn ELSE file[w]
            BY <1>1, <1>2, <2>2 DEF IInv, TypeOK
        <3>2. \A d \in Container : pc[d] = "write" => vol[d] # v
            BY <1>2, <2>2 DEF IInv, Exclusive
        <3>3. /\ \A d \in Container : pc'[d] = IF d = c THEN "write" ELSE pc[d]
              /\ UNCHANGED <<lock, vol>>
            BY <1>2, <2>2 DEF IInv, TypeOK
        <3> QED
            BY <1>1, <3>1, <3>2, <3>3 DEF IInv, Exclusive
    <2> QED
        BY <2>1, <2>2
<1>5. HoldsWrap'
    <2>1. CASE step = "wrap"
        BY <1>1, <1>2, <2>1 DEF IInv, TypeOK, HoldsWrap
    <2>2. CASE step = "write"
        <3>1. \A w \in Volume : w # v => file'[w] = file[w]
            BY <1>1, <1>2, <2>2 DEF IInv, TypeOK
        <3>2. \A d \in Container : pc[d] \in {"lock", "resolve", "commit"} /\ env[d] = NoKey =>
                  vol[d] \in Volume /\ vol[d] # v
            BY <1>2, <2>2 DEF IInv, HoldsWrap, Exclusive
        <3>3. /\ \A d \in Container : pc'[d] = IF d = c THEN "write" ELSE pc[d]
              /\ UNCHANGED <<vol, env, wrap>>
            BY <1>2, <2>2 DEF IInv, TypeOK
        <3> QED
            BY <3>1, <3>2, <3>3 DEF IInv, HoldsWrap
    <2> QED
        BY <2>1, <2>2
<1>6. Bound' /\ CountIsFresh' /\ Proposal' /\ KeysAgree'
    BY <1>1, <1>2, Frame DEF IInv, TypeOK, Quiet
<1> QED
    BY <1>3, <1>4, <1>5, <1>6 DEF IInv

(* A running container writes credentials with the bound key only.          *)
LEMMA CredentialStep ==
    ASSUME NEW c \in Container, IInv, StoreSecret(c) \/ IssueKey(c) \/ Retire(c)
    PROVE  IInv'
<1> USE KeyAssumption DEF db, input, local
<1>1. pc[c] = "up" /\ UNCHANGED <<file, envl, registry, lock, pc, input, local>>
    BY DEF StoreSecret, IssueKey, Retire
<1>2. registry \in Key /\ data[c] = registry /\ registry # NoKey
    BY <1>1 DEF IInv, TypeOK, KeysAgree
<1>3. Credentials \subseteq {registry}
    BY <1>2 DEF IInv, Bound
<1>4. ciphers' \subseteq {registry} /\ digests' \subseteq {registry}
    BY <1>2, <1>3 DEF StoreSecret, IssueKey, Retire, Credentials
<1>5. TypeOK'
    BY <1>1, <1>2, <1>4 DEF IInv, TypeOK
<1>6. Exclusive' /\ HoldsWrap'
    BY <1>1 DEF IInv, Exclusive, HoldsWrap
<1>7. Bound' /\ CountIsFresh'
    BY <1>1, <1>2, <1>4 DEF Bound, CountIsFresh, Credentials
<1>8. Proposal'
    BY <1>1, <1>2, <1>4 DEF IInv, Proposal, Credentials
<1>9. KeysAgree'
    BY <1>1 DEF IInv, KeysAgree
<1> QED
    BY <1>5, <1>6, <1>7, <1>8, <1>9 DEF IInv

LEMMA CheckLostStep ==
    ASSUME NEW c \in Container, IInv, CheckLost(c)
    PROVE  IInv'
<1>1. CASE Refuse(c)
    BY <1>1, ExitStep DEF Refuse, CheckLost
<1>2. CASE ~Refuse(c)
    <2> USE KeyAssumption DEF Goto, db, input, local
    <2>1. pc[c] = "lost" /\ pc' = [pc EXCEPT ![c] = "wrap"] /\ UNCHANGED <<file, db, lock, input, local>>
        BY <1>2 DEF CheckLost
    <2>2. TypeOK'
        BY <2>1 DEF IInv, TypeOK
    <2>3. Exclusive' /\ HoldsWrap'
        BY <2>1, ZenonT(60) DEF IInv, TypeOK, Exclusive, HoldsWrap
    <2>4. Bound' /\ CountIsFresh' /\ Proposal' /\ KeysAgree'
        BY <2>1, Frame DEF IInv, TypeOK, Quiet
    <2> QED
        BY <2>2, <2>3, <2>4 DEF IInv
<1> QED
    BY <1>1, <1>2

LEMMA WrappingKeyStep ==
    ASSUME NEW c \in Container, IInv, WrappingKey(c)
    PROVE  IInv'
<1> DEFINE f == file[vol[c]]
           k == IF env[c] = NoKey THEN f ELSE env[c]
<1>1. CASE Refuse(c)
    BY <1>1, ExitStep DEF Refuse, WrappingKey
<1>2. CASE ~Refuse(c)
    <2> USE KeyAssumption DEF Goto, db, input, local
    <2>1. f \in Key \cup {NoKey, Torn} /\ pc[c] = "wrap"
        BY DEF IInv, TypeOK, Exclusive, WrappingKey
    <2>2. CASE /\ f # Torn /\ k \in Key
               /\ wrap' = [wrap EXCEPT ![c] = k]
               /\ alt' = [alt EXCEPT ![c] = f]
               /\ Goto(c, "lock")
               /\ UNCHANGED <<file, db, lock, input, present, protected, data, event>>
        <3>1. TypeOK'
            BY <2>1, <2>2 DEF IInv, TypeOK
        <3>2. Exclusive'
            BY <2>1, <2>2, ZenonT(60) DEF IInv, TypeOK, Exclusive
        <3>3. HoldsWrap'
            BY <2>1, <2>2 DEF IInv, TypeOK, HoldsWrap
        <3>4. Bound' /\ CountIsFresh' /\ Proposal' /\ KeysAgree'
            BY <2>1, <2>2, Frame DEF IInv, TypeOK, Quiet
        <3> QED
            BY <3>1, <3>2, <3>3, <3>4 DEF IInv
    <2>3. CASE Goto(c, "create") /\ UNCHANGED <<file, db, lock, input, local>>
        <3>1. TypeOK'
            BY <2>1, <2>3 DEF IInv, TypeOK
        <3>2. Exclusive' /\ HoldsWrap'
            BY <2>1, <2>3, ZenonT(60) DEF IInv, TypeOK, Exclusive, HoldsWrap
        <3>3. Bound' /\ CountIsFresh' /\ Proposal' /\ KeysAgree'
            BY <2>1, <2>3, Frame DEF IInv, TypeOK, Quiet
        <3> QED
            BY <3>1, <3>2, <3>3 DEF IInv
    <2> HIDE DEF Goto, db, input, local
    <2> QED
        BY <1>2, <2>2, <2>3 DEF WrappingKey
<1> QED
    BY <1>1, <1>2

LEMMA WriteFileStep ==
    ASSUME NEW c \in Container, IInv, WriteFile(c)
    PROVE  IInv'
<1>1. CASE Refuse(c) /\ UNCHANGED file
    BY <1>1, ExitStep DEF Refuse
<1>2. CASE \E k \in Fresh :
          /\ file' = [file EXCEPT ![vol[c]] = k]
          /\ wrap' = [wrap EXCEPT ![c] = k]
          /\ alt' = [alt EXCEPT ![c] = k]
          /\ Goto(c, "lock")
          /\ UNCHANGED <<db, lock, input, present, protected, data, event>>
    <2> USE KeyAssumption DEF Goto, db, input, local
    <2>1. PICK k \in Key :
          /\ file' = [file EXCEPT ![vol[c]] = k]
          /\ wrap' = [wrap EXCEPT ![c] = k]
          /\ alt' = [alt EXCEPT ![c] = k]
          /\ pc' = [pc EXCEPT ![c] = "lock"]
          /\ UNCHANGED <<db, lock, input, present, protected, data, event>>
        BY <1>2 DEF Fresh
    <2>2. pc[c] = "write" /\ vol[c] \in Volume /\ file[vol[c]] = Torn
        BY DEF IInv, WriteFile, Exclusive
    <2>3. TypeOK'
        BY <2>1, <2>2 DEF IInv, TypeOK
    <2>4. Exclusive'
        BY <2>1, <2>2, ZenonT(60) DEF IInv, TypeOK, Exclusive
    <2>5. HoldsWrap'
        BY <2>1, <2>2, ZenonT(60) DEF IInv, TypeOK, Exclusive, HoldsWrap
    <2>6. Bound' /\ CountIsFresh' /\ Proposal' /\ KeysAgree'
        BY <2>1, <2>2, Frame DEF IInv, TypeOK, Quiet
    <2> QED
        BY <2>3, <2>4, <2>5, <2>6 DEF IInv
<1> QED
    BY <1>1, <1>2 DEF WriteFile

(* The holder of the lock settles on a data key.  It is the bound key, or,   *)
(* while the installation is unbound, the key of the stored credentials.    *)
LEMMA ResolveDataKeyStep ==
    ASSUME NEW c \in Container, IInv, ResolveDataKey(c)
    PROVE  IInv'
<1>1. CASE Refuse(c)
    BY <1>1, ExitStep DEF Refuse, ResolveDataKey
<1>2. CASE ~Refuse(c)
    <2> USE KeyAssumption
    <2>1. pc[c] = "resolve" /\ UNCHANGED file /\ wrap[c] \in Key /\ alt[c] \in Key \cup {NoKey}
        BY DEF ResolveDataKey, IInv, HoldsWrap, TypeOK
    <2>2. PICK k \in Key, e \in Events :
              /\ Resolved(c, k, e)
              /\ registry # NoKey => k = registry
              /\ Credentials \subseteq {k}
              /\ e = "" => envl # NoEnvelope
        <3>1. CASE envl # NoEnvelope
            <4>1. envl.key \in Key /\ registry = envl.key /\ registry # NoKey
                BY <3>1, BoundByEnvelope
            <4>2. Credentials \subseteq {envl.key}
                BY <4>1 DEF IInv, Bound
            <4>3. \E e \in Events : Resolved(c, envl.key, e)
                BY <1>2, <3>1 DEF ResolveDataKey, OpenEnvelope
            <4> QED
                BY <3>1, <4>1, <4>2, <4>3
        <3>2. CASE envl = NoEnvelope /\ registry # NoKey
            <4>1. registry \in Key /\ Credentials \subseteq {registry}
                BY <3>2 DEF IInv, TypeOK, Bound
            <4>2. registry \in Candidates(c) /\ FirstMatch(c, Candidates(c) \cap {registry}) = registry
                BY <1>2, <2>1, <3>2 DEF ResolveDataKey, AdoptMasterKey, GenerateDataKey, Candidates, FirstMatch
            <4>3. Resolved(c, registry, AdoptionEvent(c, registry))
                BY <1>2, <3>2, <4>2 DEF ResolveDataKey, AdoptMasterKey, GenerateDataKey
            <4> QED
                BY <4>1, <4>3 DEF AdoptionEvent
        <3>3. CASE envl = NoEnvelope /\ registry = NoKey /\ protected[c]
            <4> DEFINE M == {k \in Candidates(c) : Verifies(k)}
            <4>1. ciphers # {} /\ \A j, k \in Credentials : j = k
                BY <2>1, <3>3 DEF IInv, CountIsFresh, Bound, Credentials
            <4>2. \A k \in M : Credentials \subseteq {k} /\ k \in Key
                BY <2>1, <4>1 DEF Verifies, Credentials, Candidates
            <4>3. M # {} /\ Resolved(c, FirstMatch(c, M), AdoptionEvent(c, FirstMatch(c, M)))
                BY <1>2, <3>3 DEF ResolveDataKey, AdoptMasterKey, GenerateDataKey
            <4>4. FirstMatch(c, M) \in M
                BY <4>3 DEF FirstMatch, Candidates
            <4> QED
                BY <3>3, <4>2, <4>3, <4>4 DEF AdoptionEvent
        <3>4. CASE envl = NoEnvelope /\ registry = NoKey /\ ~protected[c]
            <4>1. Credentials = {}
                BY <2>1, <3>4 DEF IInv, CountIsFresh
            <4>2. \E k \in Key : Resolved(c, k, "INITIALIZED")
                BY <1>2, <3>4 DEF ResolveDataKey, AdoptMasterKey, GenerateDataKey, Fresh
            <4> QED
                BY <3>4, <4>1, <4>2
        <3> QED
            BY <3>1, <3>2, <3>3, <3>4
    <2> USE DEF Goto, db, input, Resolved
    <2>3. TypeOK'
        BY <2>1, <2>2 DEF IInv, TypeOK
    <2>4. Exclusive' /\ HoldsWrap'
        <3>1. Exclusive'
            BY <2>1, <2>2, ZenonT(60) DEF IInv, TypeOK, Exclusive
        <3>2. HoldsWrap'
            BY <2>1, <2>2 DEF IInv, TypeOK, HoldsWrap
        <3> QED
            BY <3>1, <3>2
    <2>5. Bound' /\ Credentials' = Credentials
        BY <2>2 DEF IInv, Bound, Credentials
    <2>6. CountIsFresh'
        BY <2>2, <2>5, ZenonT(60) DEF IInv, TypeOK, CountIsFresh
    <2>7. Proposal'
        BY <2>1, <2>2, <2>5 DEF IInv, TypeOK, Proposal
    <2>8. KeysAgree'
        BY <2>1, <2>2 DEF IInv, TypeOK, KeysAgree
    <2> QED
        BY <2>3, <2>4, <2>5, <2>6, <2>7, <2>8 DEF IInv
<1> QED
    BY <1>1, <1>2

LEMMA CommitStep ==
    ASSUME NEW c \in Container, IInv, Commit(c)
    PROVE  IInv'
<1>1. CASE Refuse(c)
    BY <1>1, ExitStep DEF Refuse, Commit
<1>2. CASE ~Refuse(c)
    <2> USE KeyAssumption DEF Goto, db, input, ForgetLocals
    <2> DEFINE sealedNow == [key |-> data[c], by |-> wrap[c], origin |-> Origin(c)]
    <2>1. /\ pc[c] = "commit" /\ lock = c
          /\ data[c] \in Key /\ wrap[c] \in Key
          /\ Credentials \subseteq {data[c]}
          /\ registry # NoKey => data[c] = registry
          /\ event[c] = "" => envl # NoEnvelope
        BY DEF Commit, IInv, Proposal, Exclusive, HoldsWrap
    <2>2. /\ envl' = IF event[c] = "" THEN envl ELSE sealedNow
          /\ registry' = data[c]
          /\ pc' = [pc EXCEPT ![c] = "up"]
          /\ lock' = NoKey
          /\ ForgetLocals(c)
          /\ UNCHANGED <<ciphers, digests, env, vol, data, file>>
        BY <1>2 DEF Commit
    <2>3. envl' \in [key : Key, by : Key, origin : Origins] /\ envl'.key = data[c] /\ envl' # NoEnvelope
        <3>1. CASE event[c] = ""
            BY <2>1, <2>2, <3>1, ZenonT(60) DEF IInv, TypeOK, KeysAgree
        <3>2. CASE event[c] # ""
            BY <2>1, <2>2, <3>2 DEF Origin, NoEnvelope
        <3> QED
            BY <3>1, <3>2
    <2>4. TypeOK'
        BY <2>1, <2>2, <2>3 DEF IInv, TypeOK
    <2>5. \A d \in Container : pc[d] \in {"resolve", "commit"} => d = c
        BY <2>1 DEF IInv, Exclusive
    <2>6. Exclusive'
        BY <2>1, <2>2, <2>5, ZenonT(60) DEF IInv, TypeOK, Exclusive
    <2>7. HoldsWrap'
        BY <2>1, <2>2, ZenonT(60) DEF IInv, TypeOK, HoldsWrap
    <2>8. Bound' /\ CountIsFresh'
        BY <2>1, <2>2 DEF Bound, CountIsFresh, Credentials
    <2>9. Proposal'
        BY <2>2, <2>5 DEF IInv, TypeOK, Proposal
    <2>10. KeysAgree'
        <3>1. \A d \in Container : pc[d] = "up" => data[d] = data[c]
            BY <2>1, BoundByEnvelope DEF IInv, KeysAgree
        <3>2. \A d \in Container : pc'[d] = IF d = c THEN "up" ELSE pc[d]
            BY <2>2 DEF IInv, TypeOK
        <3> QED
            BY <2>2, <2>3, <3>1, <3>2, ZenonT(60) DEF KeysAgree
    <2> QED
        BY <2>4, <2>6, <2>7, <2>8, <2>9, <2>10 DEF IInv
<1> QED
    BY <1>1, <1>2

LEMMA NextInv == IInv /\ [Next]_vars => IInv'
<1> SUFFICES ASSUME IInv, [Next]_vars PROVE IInv'
    OBVIOUS
<1>1. ASSUME NEW c \in Container, Crash(c) PROVE IInv'
    BY <1>1, ExitStep DEF Crash
<1>2. ASSUME NEW c \in Container, Boot(c) PROVE IInv'
    BY <1>2, StatStep, CountStep, CheckLostStep, WrappingKeyStep, CreateFileStep,
       WriteFileStep, ResolveDataKeyStep, CommitStep DEF Boot
<1>3. ASSUME NEW c \in Container, Serving(c) PROVE IInv'
    BY <1>3, CredentialStep, BeginMaintenanceStep, EndMaintenanceStep DEF Serving
<1>4. CASE UNCHANGED vars
    <2> USE <1>4 DEF vars, db, input, local
    <2>1. TypeOK' /\ Exclusive' /\ HoldsWrap'
        BY DEF IInv, TypeOK, Exclusive, HoldsWrap
    <2>2. Bound' /\ CountIsFresh' /\ Proposal' /\ KeysAgree'
        BY Frame DEF Quiet
    <2> QED
        BY <2>1, <2>2 DEF IInv
<1> QED
    BY <1>1, <1>2, <1>3, <1>4, StartStep, AcquireLockStep, ReplaceVolumeStep DEF Next

THEOREM Invariance ==
    ASSUME "DIGESTS" \notin Installs
    PROVE  Spec => []IInv
<1>1. Init => IInv
    BY InitInv
<1>2. IInv /\ [Next]_vars => IInv'
    BY NextInv
<1> QED
    BY <1>1, <1>2, PTL DEF Spec

(* Whatever volumes and ENCRYPTION_KEY values earlier starts had, every      *)
(* stored credential opens under the key of every running container.        *)
THEOREM CredentialsStayReadable ==
    ASSUME "DIGESTS" \notin Installs
    PROVE  Spec => []CredentialsReadable
<1>1. IInv => CredentialsReadable
    BY BoundByEnvelope DEF IInv, KeysAgree, Bound, Credentials, CredentialsReadable
<1> QED
    BY <1>1, Invariance, PTL

(* The envelope, the registry row and the running containers agree on the   *)
(* data key after any sequence of starts, crashes and volume changes.       *)
THEOREM KeysAlwaysAgree ==
    ASSUME "DIGESTS" \notin Installs
    PROVE  Spec => []KeysAgree
<1>1. IInv => KeysAgree
    BY DEF IInv
<1> QED
    BY <1>1, Invariance, PTL

(* Only a commit writes the envelope or the registry, and only a running     *)
(* container writes credentials.                                            *)
LEMMA OnlyCommitBinds ==
    ASSUME [Next]_vars, ~(\E c \in Container : Commit(c))
    PROVE  UNCHANGED <<envl, registry>>
<1> USE DEF db
<1>1. ASSUME NEW c \in Container, Start(c) \/ Crash(c) \/ AcquireLock(c) PROVE UNCHANGED <<envl, registry>>
    BY <1>1 DEF Start, Crash, Exit, AcquireLock
<1>2. ASSUME NEW c \in Container, Boot(c) PROVE UNCHANGED <<envl, registry>>
    <2>1. CASE Stat(c) \/ Count(c) \/ CheckLost(c) \/ WrappingKey(c)
        BY <2>1 DEF Stat, Count, CheckLost, WrappingKey, Refuse, Exit
    <2>2. CASE CreateFile(c) \/ WriteFile(c)
        BY <2>2 DEF CreateFile, WriteFile, Refuse, Exit
    <2>3. CASE ResolveDataKey(c)
        BY <2>3 DEF ResolveDataKey, OpenEnvelope, AdoptMasterKey, GenerateDataKey, Resolved, Refuse, Exit
    <2> QED
        BY <1>2, <2>1, <2>2, <2>3 DEF Boot
<1>3. ASSUME NEW c \in Container, Serving(c) PROVE UNCHANGED <<envl, registry>>
    BY <1>3 DEF Serving, StoreSecret, IssueKey, Retire, BeginMaintenance, EndMaintenance
<1>4. ASSUME NEW v \in Volume, ReplaceVolume(v) PROVE UNCHANGED <<envl, registry>>
    BY <1>4 DEF ReplaceVolume
<1>5. CASE UNCHANGED vars
    BY <1>5 DEF vars
<1> QED
    BY <1>1, <1>2, <1>3, <1>4, <1>5 DEF Next

(* A data key sealed with a file's key is sealed with what the file holds.   *)
THEOREM FileSealIsDurable ==
    ASSUME "DIGESTS" \notin Installs
    PROVE  Spec => SealedByDurableFile
<1> DEFINE A == (envl' # envl /\ envl'.origin = "FILE") =>
                \E c \in Container : pc'[c] = "up" /\ pc[c] # "up" /\ file[vol[c]] = envl'.by
<1>1. IInv /\ [Next]_vars => A
    <2> SUFFICES ASSUME IInv, [Next]_vars, envl' # envl, envl'.origin = "FILE"
                 PROVE  \E c \in Container : pc'[c] = "up" /\ pc[c] # "up" /\ file[vol[c]] = envl'.by
        OBVIOUS
    <2>1. PICK c \in Container : Commit(c)
        BY OnlyCommitBinds
    <2>2. pc[c] = "commit" /\ pc' = [pc EXCEPT ![c] = "up"]
          /\ envl' = [key |-> data[c], by |-> wrap[c], origin |-> Origin(c)]
        BY <2>1 DEF Commit, Refuse, Exit, Goto, db
    <2>3. env[c] = NoKey /\ envl'.by = wrap[c]
        BY <2>2 DEF Origin
    <2>4. file[vol[c]] = wrap[c] /\ pc'[c] = "up"
        BY <2>2, <2>3 DEF IInv, TypeOK, HoldsWrap
    <2> QED
        BY <2>2, <2>3, <2>4
<1>2. IInv /\ [Next]_vars => [A]_vars
    BY <1>1
<1> QED
    BY <1>2, Invariance, PTL DEF Spec, SealedByDurableFile

-----------------------------------------------------------------------------
(* Refinement of InstanceKey.                                               *)

LEMMA InitRefines == ASSUME Init, IInv PROVE Promise!AInit
<1>1. [c \in Container |-> IF pc[c] = "up" THEN data[c] ELSE NoKey] = [c \in Container |-> NoKey]
    BY DEF Init, Blank
<1>2. registry \in Key \cup {NoKey} /\ ciphers \cup digests \subseteq Key
    BY DEF IInv, TypeOK
<1>3. PICK kind \in Installs, k \in Key : Install(kind, k)
    BY DEF Init
<1>4. \E m \in Key : ciphers \cup digests \subseteq {m} /\ (registry # NoKey => m = registry)
    <2>1. CASE registry # NoKey
        BY <1>2, <2>1 DEF IInv, Bound, Credentials
    <2>2. CASE registry = NoKey /\ ciphers \cup digests # {}
        BY <1>2, <2>2 DEF IInv, Bound, Credentials
    <2>3. CASE registry = NoKey /\ ciphers \cup digests = {}
        BY <1>3, <2>3
    <2> QED
        BY <2>1, <2>2, <2>3
<1> QED
    BY <1>1, <1>2, <1>4 DEF Promise!AInit

LEMMA StepRefines ==
    ASSUME IInv, IInv', [Next]_vars
    PROVE  [Promise!ANext]_(Promise!avars)
<1> DEFINE srv == [c \in Container |-> IF pc[c] = "up" THEN data[c] ELSE NoKey]
<1> USE DEF db, input, local
<1>0. ASSUME NEW c \in Container, NEW step, Goto(c, step), pc[c] # "up", step # "up",
             UNCHANGED <<registry, ciphers, digests, data>>
      PROVE  UNCHANGED Promise!avars
    <2>1. \A d \in Container : (pc'[d] = "up") <=> (pc[d] = "up")
        BY <1>0 DEF IInv, TypeOK, Goto
    <2> QED
        BY <1>0, <2>1 DEF Promise!avars
<1>1. ASSUME NEW c \in Container, Start(c) \/ AcquireLock(c) PROVE UNCHANGED Promise!avars
    BY <1>0, <1>1 DEF Start, AcquireLock
<1>2. ASSUME NEW c \in Container, NEW how \in {"down", "refused"}, Exit(c, how) PROVE Promise!ANext
    <2>1. srv' = [srv EXCEPT ![c] = NoKey]
        BY <1>2 DEF IInv, TypeOK, Exit, Goto
    <2> QED
        BY <1>2, <2>1 DEF Exit, Promise!ANext, Promise!Stop
<1>3. ASSUME NEW c \in Container, Stat(c) \/ Count(c) PROVE UNCHANGED Promise!avars
    BY <1>0, <1>3 DEF Stat, Count
<1>4. ASSUME NEW c \in Container, CheckLost(c) \/ WrappingKey(c), ~Refuse(c) PROVE UNCHANGED Promise!avars
    BY <1>0, <1>4 DEF CheckLost, WrappingKey
<1>5. ASSUME NEW c \in Container, CreateFile(c) \/ WriteFile(c), ~Refuse(c) PROVE UNCHANGED Promise!avars
    BY <1>0, <1>5 DEF CreateFile, WriteFile
<1>6. ASSUME NEW c \in Container, ResolveDataKey(c), ~Refuse(c) PROVE UNCHANGED Promise!avars
    <2>1. PICK k, e : Resolved(c, k, e)
        BY <1>6 DEF ResolveDataKey, OpenEnvelope, AdoptMasterKey, GenerateDataKey
    <2>2. pc[c] = "resolve"
        BY <1>6 DEF ResolveDataKey
    <2> QED
        BY <2>1, <2>2 DEF IInv, TypeOK, Resolved, Goto, Promise!avars
<1>7. ASSUME NEW c \in Container, Commit(c), ~Refuse(c) PROVE Promise!ANext
    <2>1. /\ pc' = [pc EXCEPT ![c] = "up"] /\ registry' = data[c]
          /\ UNCHANGED <<ciphers, digests, data>> /\ registry \in {NoKey, data[c]}
        BY <1>7 DEF Commit, Goto
    <2>2. data[c] \in Key /\ ciphers \cup digests \subseteq {data[c]}
        BY <1>7 DEF Commit, IInv, Proposal, Credentials
    <2>3. srv' = [srv EXCEPT ![c] = data[c]]
        BY <2>1 DEF IInv, TypeOK
    <2>4. PICK k \in Key : k = data[c]
        BY <2>2
    <2>5. Promise!Serve(c, k)
        BY <2>1, <2>2, <2>3, <2>4 DEF Promise!Serve
    <2> QED
        BY <2>5 DEF Promise!ANext
<1>8. ASSUME NEW c \in Container, StoreSecret(c) \/ IssueKey(c) PROVE Promise!ANext
    <2>1. pc[c] = "up" /\ UNCHANGED <<registry, pc, data>> /\ data[c] # NoKey
        BY <1>8, BoundByEnvelope DEF StoreSecret, IssueKey, IInv, KeysAgree
    <2>2. (ciphers \cup digests)' = (ciphers \cup digests) \cup {srv[c]}
        BY <1>8, <2>1 DEF StoreSecret, IssueKey
    <2>3. Promise!Seal(c)
        BY <2>1, <2>2 DEF Promise!Seal
    <2> QED
        BY <2>3 DEF Promise!ANext
<1>9. ASSUME NEW c \in Container, Retire(c) PROVE Promise!ANext
    <2>1. pc[c] = "up" /\ UNCHANGED <<registry, pc, data>> /\ data[c] # NoKey
        BY <1>9, BoundByEnvelope DEF Retire, IInv, KeysAgree
    <2>2. (ciphers \cup digests)' \in SUBSET (ciphers \cup digests)
        BY <1>9 DEF Retire
    <2>3. Promise!Forget(c)
        BY <2>1, <2>2 DEF Promise!Forget
    <2> QED
        BY <2>3 DEF Promise!ANext
<1>10. ASSUME NEW c \in Container, BeginMaintenance(c) \/ EndMaintenance(c) PROVE UNCHANGED Promise!avars
    BY <1>10 DEF BeginMaintenance, EndMaintenance, Promise!avars
<1>11. ASSUME NEW v \in Volume, ReplaceVolume(v) PROVE UNCHANGED Promise!avars
    BY <1>11 DEF ReplaceVolume, Promise!avars
<1>12. CASE UNCHANGED vars
    BY <1>12 DEF vars, Promise!avars
<1>13. ASSUME NEW c \in Container, Crash(c) \/ Refuse(c) PROVE Promise!ANext
    BY <1>2, <1>13 DEF Crash, Refuse
<1> HIDE DEF db, input, local
<1> QED
    BY <1>1, <1>3, <1>4, <1>5, <1>6, <1>7, <1>8, <1>9, <1>10, <1>11, <1>12, <1>13 DEF Next, Boot, Serving

(* Resolve implements its promise: the installation is bound to one data     *)
(* key for life.                                                            *)
THEOREM ImplementsInstanceKey ==
    ASSUME "DIGESTS" \notin Installs
    PROVE  Spec => BoundForLife
<1>1. Init => IInv
    BY InitInv
<1>2. Init /\ IInv => Promise!AInit
    BY InitRefines
<1>3. IInv /\ IInv' /\ [Next]_vars => [Promise!ANext]_(Promise!avars)
    BY StepRefines
<1> QED
    BY <1>1, <1>2, <1>3, Invariance, PTL DEF Spec, BoundForLife, Promise!ASpec

-----------------------------------------------------------------------------
(* Personal Keys                                                            *)

USE DEF Live, Status, Steps, Unused

LEMMA IdleType == Idle \in Req /\ Idle.at = "idle" /\ ~Idle.rotates
<1>1. \E k \in KeyRow : TRUE
    BY PolicyAssumption
<1>2. (CHOOSE k \in KeyRow : TRUE) \in KeyRow
    BY <1>1
<1>3. 0 \in Time /\ 0 \in Nat
    BY PolicyAssumption DEF Time
<1> QED
    BY <1>2, <1>3 DEF Idle, Req

LEMMA BlankType == BlankRow \in Row
    BY PolicyAssumption DEF BlankRow, Row, Time

(* A request begins: only its own record changes.                           *)
LEMMA BeginStep ==
    ASSUME NEW r \in Request, KeysInv,
           BeginCreate(r) \/ \E k \in KeyRow : BeginRotate(r, k) \/ BeginUpdate(r, k)
    PROVE  KeysInv'
<1> USE PolicyAssumption
<1>1. UNCHANGED <<row, now, pass>>
    BY DEF BeginCreate, BeginRotate, BeginUpdate
<1>2. PICK q \in Req :
          /\ req' = [req EXCEPT ![r] = q]
          /\ q.at \in {"insert", "check"}
          /\ q.at = "insert" /\ q.rotates => row[q.key].status # Unused
          /\ q.at = "check" => /\ row[q.key].status # Unused
                               /\ q.version = row[q.key].version
                               /\ q.seen = row[q.key].scopes
    <2>1. CASE BeginCreate(r)
        <3>1. PICK s \in Access, life \in Lifetimes :
                  req' = [req EXCEPT ![r] = [Idle EXCEPT !.at = "insert", !.scopes = s, !.expires = now + life]]
            BY <2>1 DEF BeginCreate
        <3>2. now + life \in Time /\ s \in SUBSET Scope
            BY DEF KeysInv, KeysTypeOK, Time
        <3>3. [Idle EXCEPT !.at = "insert", !.scopes = s, !.expires = now + life] \in Req
            BY <3>2, IdleType DEF Req
        <3>4. /\ [Idle EXCEPT !.at = "insert", !.scopes = s, !.expires = now + life].at = "insert"
              /\ ~[Idle EXCEPT !.at = "insert", !.scopes = s, !.expires = now + life].rotates
            BY IdleType DEF Req
        <3> QED
            BY <3>1, <3>3, <3>4
    <2>2. ASSUME NEW k \in KeyRow, BeginRotate(r, k)
          PROVE \E q \in Req : /\ req' = [req EXCEPT ![r] = q] /\ q.at = "insert"
                               /\ row[q.key].status # Unused
        <3> DEFINE q == [Idle EXCEPT !.at = "insert", !.rotates = TRUE, !.key = k,
                                     !.scopes = row[k].scopes, !.expires = row[k].expires]
        <3>1. row[k] \in Row
            BY DEF KeysInv, KeysTypeOK
        <3>2. q \in Req
            BY <3>1, IdleType DEF Req, Row
        <3>3. q.at = "insert" /\ q.key = k
            BY IdleType DEF Req
        <3>4. req' = [req EXCEPT ![r] = q] /\ row[k].status # Unused
            BY <2>2 DEF BeginRotate
        <3> QED
            BY <3>2, <3>3, <3>4
    <2>3. ASSUME NEW k \in KeyRow, BeginUpdate(r, k)
          PROVE \E q \in Req : /\ req' = [req EXCEPT ![r] = q] /\ q.at = "check"
                               /\ row[q.key].status # Unused
                               /\ q.version = row[q.key].version
                               /\ q.seen = row[q.key].scopes
        <3>1. PICK s \in Access :
                  req' = [req EXCEPT ![r] = [Idle EXCEPT !.at = "check", !.key = k, !.scopes = s,
                                             !.version = row[k].version, !.seen = row[k].scopes]]
            BY <2>3 DEF BeginUpdate
        <3> DEFINE q == [Idle EXCEPT !.at = "check", !.key = k, !.scopes = s,
                                     !.version = row[k].version, !.seen = row[k].scopes]
        <3>2. row[k] \in Row /\ s \in SUBSET Scope
            BY DEF KeysInv, KeysTypeOK
        <3>3. q \in Req
            BY <3>2, IdleType DEF Req, Row
        <3>4. q.at = "check" /\ q.key = k /\ q.version = row[k].version /\ q.seen = row[k].scopes
            BY IdleType DEF Req
        <3>5. row[k].status # Unused
            BY <2>3 DEF BeginUpdate
        <3> QED
            BY <3>1, <3>3, <3>4, <3>5
    <2> QED
        BY <2>1, <2>2, <2>3
<1>3. KeysTypeOK'
    BY <1>1, <1>2 DEF KeysInv, KeysTypeOK
<1>4. \A s \in Request : req'[s] = IF s = r THEN q ELSE req[s]
    BY <1>2 DEF KeysInv, KeysTypeOK
<1>5. row[q.key].version \in Nat
    BY <1>2 DEF KeysInv, KeysTypeOK, Req, Row
<1>6. TabsTrackVersions'
    BY <1>1, <1>2, <1>4, <1>5 DEF KeysInv, TabsTrackVersions
<1>7. RotationsHaveKeys'
    BY <1>1, <1>2, <1>4 DEF KeysInv, RotationsHaveKeys
<1> QED
    BY <1>3, <1>6, <1>7 DEF KeysInv

(* How rows may change under the requests that read them: a row stays, and  *)
(* its scopes change only with its version.                                 *)
Evolves(k) ==
    row[k].status # Unused =>
        /\ row'[k].status # Unused
        /\ row[k].version <= row'[k].version
        /\ row'[k].version = row[k].version => row'[k].scopes = row[k].scopes

(* A rotation that has just got its replacement.                            *)
Replaced(r) ==
    /\ req'[r].at = "retire"
    /\ req'[r].new # req'[r].key
    /\ row'[req'[r].new].status # Unused
    /\ row'[req'[r].key].status # Unused

(* Requests go on knowing what they know, or end, or have a replacement.    *)
LEMMA RowStep ==
    ASSUME KeysInv, KeysTypeOK', \A k \in KeyRow : Evolves(k),
           \A r \in Request : req'[r] = req[r] \/ req'[r].at = "idle" \/ Replaced(r)
    PROVE  KeysInv'
<1>1. \A r \in Request : req[r] \in Req /\ req[r].key \in KeyRow /\ req[r].new \in KeyRow
                         /\ req[r].version \in Nat
    BY DEF KeysInv, KeysTypeOK, Req
<1>2. \A k \in KeyRow : row[k].version \in Nat /\ row'[k].version \in Nat
    BY DEF KeysInv, KeysTypeOK, Row
<1>3. TabsTrackVersions'
    <2> SUFFICES ASSUME NEW r \in Request, req'[r].at \in {"check", "apply"}
                 PROVE  /\ row'[req'[r].key].status # Unused
                        /\ req'[r].version <= row'[req'[r].key].version
                        /\ row'[req'[r].key].version = req'[r].version =>
                              row'[req'[r].key].scopes = req'[r].seen
        BY DEF TabsTrackVersions
    <2>1. req'[r] = req[r]
        BY DEF Replaced
    <2> DEFINE k == req[r].key
    <2>2. /\ row[k].status # Unused /\ req[r].version <= row[k].version
          /\ row[k].version = req[r].version => row[k].scopes = req[r].seen
        BY <2>1 DEF KeysInv, TabsTrackVersions
    <2>3. Evolves(k) /\ k \in KeyRow
        BY <1>1
    <2> QED
        BY <1>1, <1>2, <2>1, <2>2, <2>3 DEF Evolves
<1>4. RotationsHaveKeys'
    <2> SUFFICES ASSUME NEW r \in Request
                 PROVE  /\ req'[r].at = "insert" /\ req'[r].rotates => row'[req'[r].key].status # Unused
                        /\ req'[r].at = "retire" => Replaced(r)
        BY DEF RotationsHaveKeys, Replaced
    <2>1. CASE req'[r] = req[r]
        BY <1>1, <2>1 DEF KeysInv, RotationsHaveKeys, Evolves, Replaced
    <2>2. CASE req'[r].at = "idle" \/ Replaced(r)
        BY <2>2 DEF Replaced
    <2> QED
        BY <2>1, <2>2
<1> QED
    BY <1>3, <1>4 DEF KeysInv

LEMMA FinishType ==
    ASSUME NEW r \in Request, KeysInv, Finish(r)
    PROVE  /\ req' \in [Request -> Req]
           /\ \A s \in Request : req'[s] = req[s] \/ req'[s].at = "idle"
    BY IdleType DEF KeysInv, KeysTypeOK, Finish

(* A statement that advances a request without touching a row, or ends it.  *)
LEMMA AdvanceStep ==
    ASSUME NEW r \in Request, KeysInv, CheckUpdate(r) \/ Abort(r)
    PROVE  KeysInv'
<1>1. UNCHANGED <<row, now, pass>>
    BY DEF CheckUpdate, Abort
<1>2. \A k \in KeyRow : row[k].version \in Nat
    BY DEF KeysInv, KeysTypeOK, Row
<1>3. CASE Finish(r)
    <2>1. KeysTypeOK'
        BY <1>1, <1>3, FinishType DEF KeysInv, KeysTypeOK
    <2>2. \A k \in KeyRow : Evolves(k)
        BY <1>1, <1>2 DEF Evolves
    <2> QED
        BY <1>3, <2>1, <2>2, RowStep, FinishType
<1>4. ASSUME req' = [req EXCEPT ![r].at = "apply"], req[r].at = "check"
      PROVE  KeysInv'
    <2>1. req[r] \in Req
        BY DEF KeysInv, KeysTypeOK
    <2>2. KeysTypeOK'
        BY <1>1, <1>4, <2>1 DEF KeysInv, KeysTypeOK, Req
    <2>3. \A s \in Request : s # r => req'[s] = req[s]
        BY <1>4 DEF KeysInv, KeysTypeOK
    <2>4. /\ req'[r].at = "apply" /\ req'[r].key = req[r].key /\ req'[r].version = req[r].version
          /\ req'[r].seen = req[r].seen /\ req'[r].rotates = req[r].rotates
        BY <1>4, <2>1 DEF KeysInv, KeysTypeOK, Req
    <2>5. TabsTrackVersions'
        BY <1>1, <1>4, <2>3, <2>4 DEF KeysInv, TabsTrackVersions
    <2>6. RotationsHaveKeys'
        BY <1>1, <2>3, <2>4 DEF KeysInv, RotationsHaveKeys
    <2> QED
        BY <2>2, <2>5, <2>6 DEF KeysInv
<1> QED
    BY <1>3, <1>4 DEF CheckUpdate, Abort

LEMMA InsertStep ==
    ASSUME NEW r \in Request, KeysInv, Insert(r)
    PROVE  KeysInv'
<1>1. req[r] \in Req /\ req[r].at = "insert" /\ UNCHANGED <<now, pass>>
    BY DEF KeysInv, KeysTypeOK, Insert
<1>2. \A k \in KeyRow : row[k] \in Row /\ row[k].version \in Nat
    BY DEF KeysInv, KeysTypeOK, Row
<1>3. CASE Finish(r) /\ UNCHANGED row
    <2>1. KeysTypeOK'
        BY <1>1, <1>3, FinishType DEF KeysInv, KeysTypeOK
    <2>2. \A k \in KeyRow : Evolves(k)
        BY <1>2, <1>3 DEF Evolves
    <2> QED
        BY <1>3, <2>1, <2>2, RowStep, FinishType
<1> DEFINE fresh == [BlankRow EXCEPT !.status = "ACTIVE", !.version = 1,
                                  !.scopes = req[r].scopes, !.expires = req[r].expires]
<1>4. ASSUME NEW k \in KeyRow, row[k].status = Unused, row' = [row EXCEPT ![k] = fresh],
             IF req[r].rotates
             THEN req' = [req EXCEPT ![r] = [Idle EXCEPT !.at = "retire", !.key = req[r].key, !.new = k]]
             ELSE Finish(r)
      PROVE  KeysInv'
    <2>1. fresh \in Row /\ fresh.status = "ACTIVE"
        BY <1>1, BlankType DEF Row, Req
    <2>2. row' \in [KeyRow -> Row] /\ \A j \in KeyRow : row'[j] = IF j = k THEN fresh ELSE row[j]
        BY <1>4, <2>1 DEF KeysInv, KeysTypeOK
    <2>3. \A j \in KeyRow : Evolves(j)
        BY <1>2, <1>4, <2>2 DEF Evolves
    <2>4. CASE ~req[r].rotates
        <3>1. KeysTypeOK'
            BY <1>1, <1>4, <2>2, <2>4, FinishType DEF KeysInv, KeysTypeOK
        <3> QED
            BY <1>4, <2>3, <2>4, <3>1, RowStep, FinishType
    <2>5. CASE req[r].rotates
        <3> DEFINE q == [Idle EXCEPT !.at = "retire", !.key = req[r].key, !.new = k]
        <3>1. q \in Req /\ q.at = "retire" /\ q.key = req[r].key /\ q.new = k
            BY <1>1, IdleType DEF Req
        <3>2. req' \in [Request -> Req] /\ \A s \in Request : req'[s] = IF s = r THEN q ELSE req[s]
            BY <1>4, <2>5, <3>1 DEF KeysInv, KeysTypeOK
        <3>3. KeysTypeOK'
            BY <1>1, <2>2, <3>2 DEF KeysInv, KeysTypeOK
        <3>4. row[req[r].key].status # Unused /\ req[r].key \in KeyRow
            BY <1>1, <2>5 DEF KeysInv, RotationsHaveKeys, Req
        <3>5. Replaced(r)
            BY <2>1, <2>2, <3>1, <3>2, <3>4, <1>4, ZenonT(60) DEF Replaced
        <3> QED
            BY <2>3, <3>2, <3>3, <3>5, RowStep
    <2> QED
        BY <2>4, <2>5
<1> QED
    BY <1>1, <1>3, <1>4 DEF Insert

LEMMA RetireStep ==
    ASSUME NEW r \in Request, KeysInv, RetireRotated(r)
    PROVE  KeysInv'
<1>1. UNCHANGED <<now, pass>> /\ Finish(r) /\ req[r].key \in KeyRow
    BY DEF KeysInv, KeysTypeOK, Req, RetireRotated
<1>2. \A k \in KeyRow : row[k] \in Row /\ row[k].version \in Nat
    BY DEF KeysInv, KeysTypeOK, Row
<1>3. now + Grace \in Time
    BY PolicyAssumption DEF KeysInv, KeysTypeOK, Time
<1>4. row' \in [KeyRow -> Row] /\ \A k \in KeyRow : Evolves(k)
    <2>1. CASE row' = row
        BY <1>2, <2>1 DEF KeysInv, KeysTypeOK, Evolves
    <2>2. CASE row' = [row EXCEPT ![req[r].key].status = "ROTATING", ![req[r].key].grace = now + Grace]
        BY <1>1, <1>2, <1>3, <2>2 DEF KeysInv, KeysTypeOK, Row, Evolves
    <2> QED
        BY <2>1, <2>2 DEF RetireRotated
<1>5. KeysTypeOK'
    BY <1>1, <1>4, FinishType DEF KeysInv, KeysTypeOK
<1> QED
    BY <1>1, <1>4, <1>5, RowStep, FinishType

LEMMA ApplyStep ==
    ASSUME NEW r \in Request, KeysInv, Apply(r)
    PROVE  KeysInv'
<1> DEFINE k == req[r].key
<1>1. UNCHANGED <<now, pass>> /\ Finish(r) /\ k \in KeyRow /\ req[r].scopes \in SUBSET Scope
    BY DEF KeysInv, KeysTypeOK, Req, Apply
<1>2. \A j \in KeyRow : row[j] \in Row /\ row[j].version \in Nat
    BY DEF KeysInv, KeysTypeOK, Row
<1>3. row' \in [KeyRow -> Row] /\ \A j \in KeyRow : Evolves(j)
    <2>1. CASE row' = row
        BY <1>2, <2>1 DEF KeysInv, KeysTypeOK, Evolves
    <2>2. CASE row' = [row EXCEPT ![k].scopes = req[r].scopes, ![k].version = @ + 1]
        BY <1>1, <1>2, <2>2 DEF KeysInv, KeysTypeOK, Row, Evolves
    <2> QED
        BY <2>1, <2>2 DEF Apply
<1>4. KeysTypeOK'
    BY <1>1, <1>3, FinishType DEF KeysInv, KeysTypeOK
<1> QED
    BY <1>1, <1>3, <1>4, RowStep, FinishType

(* Revocation and the maintenance statements only move the status on.       *)
LEMMA EndKeysStep ==
    ASSUME KeysInv, RevokeAll \/ RevokeRotated \/ ExpireKeys \/ \E k \in KeyRow : Revoke(k)
    PROVE  KeysInv'
<1>1. \A k \in KeyRow : row[k] \in Row /\ row[k].version \in Nat
    BY DEF KeysInv, KeysTypeOK, Row
<1>2. /\ row' \in [KeyRow -> Row]
      /\ \A k \in KeyRow : \/ row'[k] = row[k]
                           \/ \E st \in {"REVOKED", "EXPIRED"} : row'[k] = [row[k] EXCEPT !.status = st]
    <2>1. CASE RevokeAll
        BY <1>1, <2>1 DEF RevokeAll, Row
    <2>2. CASE RevokeRotated \/ ExpireKeys
        BY <1>1, <2>2 DEF RevokeRotated, ExpireKeys, Row
    <2>3. ASSUME NEW k \in KeyRow, Revoke(k)
          PROVE  <1>2
        BY <1>1, <2>3 DEF Revoke, Row, KeysInv, KeysTypeOK
    <2> QED
        BY <2>1, <2>2, <2>3
<1>3. KeysTypeOK' /\ req' = req
    BY <1>2 DEF KeysInv, KeysTypeOK, RevokeAll, RevokeRotated, ExpireKeys, Revoke
<1>4. \A k \in KeyRow : Evolves(k)
    BY <1>1, <1>2 DEF Evolves, Row
<1> QED
    BY <1>3, <1>4, RowStep

LEMMA KeysNextInv == KeysInv /\ [KeysNext]_keysVars => KeysInv'
<1> SUFFICES ASSUME KeysInv, [KeysNext]_keysVars PROVE KeysInv'
    OBVIOUS
<1>1. CASE Tick
    <2>1. KeysTypeOK'
        BY <1>1, PolicyAssumption DEF KeysInv, KeysTypeOK, Tick
    <2> QED
        BY <1>1, <2>1 DEF Tick, KeysInv, TabsTrackVersions, RotationsHaveKeys
<1>2. CASE UNCHANGED keysVars
    BY <1>2 DEF keysVars, KeysInv, KeysTypeOK, TabsTrackVersions, RotationsHaveKeys
<1> QED
    BY <1>1, <1>2, BeginStep, AdvanceStep, InsertStep, RetireStep, ApplyStep, EndKeysStep
    DEF KeysNext, Maintain

(* Rows, requests and the clock keep their types, and requests in flight    *)
(* keep what they know of the rows they read.                               *)
THEOREM KeysInvariance == KeysSpec => []KeysInv
<1>1. KeysInit => KeysInv
    <2> SUFFICES ASSUME KeysInit PROVE KeysInv
        OBVIOUS
    <2>1. KeysTypeOK
        BY BlankType, IdleType, PolicyAssumption DEF KeysInit, KeysTypeOK
    <2>2. \A r \in Request : req[r].at = "idle"
        BY IdleType DEF KeysInit
    <2> QED
        BY <2>1, <2>2 DEF KeysInv, TabsTrackVersions, RotationsHaveKeys
<1>2. KeysInv /\ [KeysNext]_keysVars => KeysInv'
    BY KeysNextInv
<1> QED
    BY <1>1, <1>2, PTL DEF KeysSpec

(* One step never brings a key that the API refuses back to life.           *)
LEMMA StaysRefused ==
    ASSUME KeysInv, [KeysNext]_keysVars, NEW k \in KeyRow, row[k].status # Unused, ~Accepts(k)
    PROVE  ~Accepts(k)'
<1> USE DEF Accepts
<1>1. row[k] \in Row /\ now \in Int /\ row[k].expires \in Int /\ row[k].grace \in Int
    BY PolicyAssumption DEF KeysInv, KeysTypeOK, Row, Time
<1>2. CASE UNCHANGED <<row, now>>
    BY <1>2
<1>3. CASE Tick
    BY <1>1, <1>3 DEF Tick
<1>4. ASSUME NEW r \in Request, Insert(r) PROVE ~Accepts(k)'
    <2>1. now' = now /\ row'[k] = row[k]
        BY <1>4 DEF Insert, KeysInv, KeysTypeOK
    <2> QED
        BY <2>1
<1>5. ASSUME NEW r \in Request, RetireRotated(r) PROVE ~Accepts(k)'
    <2>1. now' = now /\ req[r].key \in KeyRow
        BY <1>5 DEF RetireRotated, KeysInv, KeysTypeOK, Req
    <2>2. /\ row'[k].status # row[k].status => row[k].status = "ACTIVE"
          /\ row'[k].grace # row[k].grace => row[k].status = "ACTIVE"
          /\ row'[k].expires = row[k].expires
        BY <1>1, <1>5, <2>1 DEF RetireRotated, KeysInv, KeysTypeOK, Row
    <2> QED
        BY <1>1, <2>1, <2>2
<1>6. ASSUME NEW r \in Request, Apply(r) PROVE ~Accepts(k)'
    <2>1. now' = now /\ req[r].key \in KeyRow
        BY <1>6 DEF Apply, KeysInv, KeysTypeOK, Req
    <2>2. row'[k].status = row[k].status /\ row'[k].grace = row[k].grace /\ row'[k].expires = row[k].expires
        BY <1>1, <1>6, <2>1 DEF Apply, KeysInv, KeysTypeOK, Row
    <2> QED
        BY <2>1, <2>2
<1>7. ASSUME RevokeAll \/ RevokeRotated \/ ExpireKeys PROVE ~Accepts(k)'
    BY <1>1, <1>7 DEF RevokeAll, RevokeRotated, ExpireKeys, Row
<1>8. ASSUME NEW j \in KeyRow, Revoke(j) PROVE ~Accepts(k)'
    BY <1>1, <1>8 DEF Revoke, KeysInv, KeysTypeOK, Row
<1>9. ASSUME NEW r \in Request,
             \/ BeginCreate(r) \/ CheckUpdate(r) \/ Abort(r)
             \/ \E j \in KeyRow : BeginRotate(r, j) \/ BeginUpdate(r, j)
      PROVE  UNCHANGED <<row, now>>
    BY <1>9 DEF BeginCreate, CheckUpdate, Abort, BeginRotate, BeginUpdate
<1> HIDE DEF Accepts
<1> QED
    BY <1>2, <1>3, <1>4, <1>5, <1>6, <1>7, <1>8, <1>9 DEF KeysNext, Maintain, keysVars

(* A key that stopped opening the API never opens it again.                 *)
THEOREM StoppedKeysStayStopped == KeysSpec => NeverAcceptedAgain
<1>1. KeysInv /\ [KeysNext]_keysVars =>
          [\A k \in KeyRow : row[k].status # Unused /\ ~Accepts(k) => ~Accepts(k)']_keysVars
    BY StaysRefused
<1> QED
    BY <1>1, KeysInvariance, PTL DEF KeysSpec, NeverAcceptedAgain

(* Of two tabs that opened the same key, the second to save is refused.     *)
THEOREM NoLostAccessChange == KeysSpec => UpdateReplacesWhatWasSeen
<1> DEFINE A == \A r \in Request : req[r].at = "apply" /\ req'[r].at = "idle" /\ row' # row =>
                    row[req[r].key].scopes = req[r].seen
<1>1. KeysInv /\ [KeysNext]_keysVars => [A]_keysVars
    <2> SUFFICES ASSUME KeysInv, KeysNext, NEW r \in Request,
                        req[r].at = "apply", req'[r].at = "idle", row' # row
                 PROVE  row[req[r].key].scopes = req[r].seen
        BY DEF keysVars
    <2>1. CASE Apply(r)
        BY <2>1 DEF Apply, KeysInv, TabsTrackVersions
    <2>2. CASE ~Apply(r)
        <3>1. ASSUME NEW s \in Request, s # r, Insert(s) \/ RetireRotated(s) \/ Apply(s) PROVE req'[r] = req[r]
            BY <3>1 DEF Insert, RetireRotated, Apply, Finish, KeysInv, KeysTypeOK
        <3>2. ASSUME Insert(r) \/ RetireRotated(r) PROVE FALSE
            BY <3>2 DEF Insert, RetireRotated
        <3>3. ASSUME NEW s \in Request,
                     \/ BeginCreate(s) \/ CheckUpdate(s) \/ Abort(s)
                     \/ \E j \in KeyRow : BeginRotate(s, j) \/ BeginUpdate(s, j)
              PROVE  FALSE
            BY <3>3 DEF BeginCreate, CheckUpdate, Abort, BeginRotate, BeginUpdate
        <3>4. ASSUME RevokeAll \/ RevokeRotated \/ ExpireKeys \/ Tick \/ \E j \in KeyRow : Revoke(j)
              PROVE  req' = req
            BY <3>4 DEF RevokeAll, RevokeRotated, ExpireKeys, Tick, Revoke
        <3> QED
            BY <2>2, <3>1, <3>2, <3>3, <3>4 DEF KeysNext, Maintain
    <2> QED
        BY <2>1, <2>2
<1> QED
    BY <1>1, KeysInvariance, PTL DEF KeysSpec, UpdateReplacesWhatWasSeen

(* A key is retired only when another row, its replacement, exists.         *)
THEOREM RotationKeepsAKey == KeysSpec => RotationNeverStrands
<1> DEFINE A == \A k \in KeyRow : row[k].status = "ACTIVE" /\ row'[k].status = "ROTATING" =>
                    \E r \in Request : /\ req[r].key = k /\ req[r].new # k
                                       /\ row[req[r].new].status # Unused
<1>1. KeysInv /\ [KeysNext]_keysVars => [A]_keysVars
    <2> SUFFICES ASSUME KeysInv, KeysNext, NEW k \in KeyRow,
                        row[k].status = "ACTIVE", row'[k].status = "ROTATING"
                 PROVE  \E r \in Request : /\ req[r].key = k /\ req[r].new # k
                                           /\ row[req[r].new].status # Unused
        BY DEF keysVars
    <2>0. row[k] \in Row
        BY DEF KeysInv, KeysTypeOK
    <2>1. ASSUME NEW r \in Request, RetireRotated(r) PROVE req[r].key = k
        BY <2>1 DEF RetireRotated, KeysInv, KeysTypeOK, Req
    <2>2. ASSUME NEW r \in Request, Insert(r) \/ Apply(r) PROVE FALSE
        <3>1. CASE Insert(r)
            <4>1. row'[k] = row[k]
                BY <3>1 DEF Insert, KeysInv, KeysTypeOK
            <4> QED
                BY <4>1
        <3>2. CASE Apply(r)
            BY <2>0, <3>2 DEF Apply, KeysInv, KeysTypeOK, Req, Row
        <3> QED
            BY <2>2, <3>1, <3>2
    <2>3. ASSUME NEW r \in Request,
                 \/ BeginCreate(r) \/ CheckUpdate(r) \/ Abort(r)
                 \/ \E j \in KeyRow : BeginRotate(r, j) \/ BeginUpdate(r, j)
          PROVE  FALSE
        BY <2>3 DEF BeginCreate, CheckUpdate, Abort, BeginRotate, BeginUpdate
    <2>4. ASSUME RevokeAll \/ RevokeRotated \/ ExpireKeys \/ Tick PROVE FALSE
        BY <2>0, <2>4 DEF RevokeAll, RevokeRotated, ExpireKeys, Tick, Row
    <2>5. ASSUME NEW j \in KeyRow, Revoke(j) PROVE FALSE
        BY <2>0, <2>5 DEF Revoke, KeysInv, KeysTypeOK, Row
    <2>6. PICK r \in Request : RetireRotated(r)
        BY <2>2, <2>3, <2>4, <2>5 DEF KeysNext, Maintain
    <2> QED
        BY <2>1, <2>6 DEF RetireRotated, KeysInv, RotationsHaveKeys
<1> QED
    BY <1>1, KeysInvariance, PTL DEF KeysSpec, RotationNeverStrands
=============================================================================
