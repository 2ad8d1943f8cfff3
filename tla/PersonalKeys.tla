---------------------------- MODULE PersonalKeys ----------------------------
(***************************************************************************)
(* The life of one user's Personal Keys: apikey.Service (create, change     *)
(* access, rotate, revoke), the expiry statements of the maintenance pass   *)
(* and the acceptance test of auth.authenticateKey.                         *)
(*                                                                          *)
(* Create, UpdateAccess and Rotate read the database and act on what they   *)
(* read in later statements, so each is a request that takes several steps  *)
(* and may be cut off between any two.  Scopes and channels are one set of  *)
(* grants: validateAccess makes the mcp:use scope and the MCP channel       *)
(* imply each other.                                                        *)
(***************************************************************************)
EXTENDS Integers, FiniteSets

CONSTANTS
    KeyRow,        \* rows of personal_keys
    Request,       \* concurrent requests of the user's browser tabs
    Scope,         \* grants a key can carry
    Access,        \* the sets of grants that requests ask for
    Lifetimes,     \* the lifetimes that requests ask for
    MaxPerUser,    \* keys.max_per_user
    MaxLifetime,   \* keys.max_lifetime_days
    Grace,         \* keys.rotation_grace_hours
    MaxTime,       \* bound on the clock
    MaxVersion     \* bound on the access changes of one key

ASSUME PolicyAssumption ==
    /\ KeyRow # {}
    /\ Access \subseteq SUBSET Scope \ {{}}
    /\ Lifetimes \subseteq 0..MaxLifetime
    /\ MaxPerUser \in Nat /\ MaxLifetime \in Nat /\ Grace \in Nat
    /\ MaxTime \in Nat /\ MaxVersion \in Nat

VARIABLES
    row,      \* personal_keys
    now,      \* the clock
    req,      \* the requests in flight
    pass      \* the statement the maintenance pass executes next

keysVars == <<row, now, req, pass>>

Unused == "UNUSED"
Live   == {"ACTIVE", "ROTATING"}
Status == {Unused, "ACTIVE", "ROTATING", "REVOKED", "EXPIRED"}
Time   == 0..(MaxTime + MaxLifetime + Grace)

Row == [status : Status, scopes : SUBSET Scope, expires : Time, grace : Time, version : Nat]
BlankRow == [status |-> Unused, scopes |-> {}, expires |-> 0, grace |-> 0, version |-> 0]

(* at: the next statement; key: the row acted on; new: the row inserted;    *)
(* scopes, expires: what will be written; version, seen: what the tab       *)
(* displayed.                                                               *)
Steps == {"idle", "insert", "retire", "check", "apply"}
Req == [at : Steps, rotates : BOOLEAN, key : KeyRow, new : KeyRow,
        scopes : SUBSET Scope, expires : Time, version : Nat, seen : SUBSET Scope]

Idle == LET k == CHOOSE k \in KeyRow : TRUE IN
        [at |-> "idle", rotates |-> FALSE, key |-> k, new |-> k, scopes |-> {},
         expires |-> 0, version |-> 0, seen |-> {}]

KeysTypeOK ==
    /\ row \in [KeyRow -> Row]
    /\ now \in 0..MaxTime
    /\ req \in [Request -> Req]
    /\ pass \in {"rotated", "expired"}

KeysInit ==
    /\ row = [k \in KeyRow |-> BlankRow]
    /\ now = 0
    /\ req = [r \in Request |-> Idle]
    /\ pass = "rotated"

(* Rows and tabs not in use are alike: the next one is as good as another.  *)
NewRow == CHOOSE k \in KeyRow : row[k].status = Unused
Tab == CHOOSE r \in Request : req[r].at = "idle"

Finish(r) == req' = [req EXCEPT ![r] = Idle]

-----------------------------------------------------------------------------
(* validateAccess lets through some grant, all of them held by the          *)
(* principal, whose permissions are those of its roles when the request was *)
(* authenticated and may be anything: Access.                               *)

(* create.  The count is read in one statement, with which the request      *)
(* begins here, and the row inserted in another; a rotation skips the       *)
(* limit.  (A count that fails counts as none; nothing below depends on the *)
(* limit.)                                                                  *)
BeginCreate(r) ==
    /\ req[r].at = "idle" /\ r = Tab
    /\ Cardinality({k \in KeyRow : row[k].status \in Live}) < MaxPerUser
    /\ \E scopes \in Access, life \in Lifetimes :
        req' = [req EXCEPT ![r] = [Idle EXCEPT !.at = "insert", !.scopes = scopes,
                                               !.expires = now + life]]
    /\ UNCHANGED <<row, now, pass>>

(* The expiry is checked against the clock just before the insert.  A       *)
(* rotation passes the scopes and the expiry it read from the old key.      *)
Insert(r) ==
    /\ req[r].at = "insert"
    /\ IF req[r].expires \in now..(now + MaxLifetime)
       THEN \E k \in KeyRow :
            /\ row[k].status = Unused /\ k = NewRow
            /\ row' = [row EXCEPT ![k] = [BlankRow EXCEPT !.status = "ACTIVE", !.version = 1,
                                          !.scopes = req[r].scopes, !.expires = req[r].expires]]
            /\ IF req[r].rotates
               THEN req' = [req EXCEPT ![r] = [Idle EXCEPT !.at = "retire", !.key = req[r].key,
                                                           !.new = k]]
               ELSE Finish(r)
       ELSE Finish(r) /\ UNCHANGED row
    /\ UNCHANGED <<now, pass>>

-----------------------------------------------------------------------------
(* Rotate: read the active key, create its replacement, then retire the key *)
(* if it is still active.  (The lineage and history rows that follow are    *)
(* never read by the code modelled here.)                                   *)

(* Mutant: the key is retired before its replacement is created.            *)
BeginRotateRetiresFirst(r, k) ==
    /\ req[r].at = "idle" /\ r = Tab
    /\ row[k].status = "ACTIVE"
    /\ req' = [req EXCEPT ![r] = [Idle EXCEPT !.at = "retire", !.key = k]]
    /\ UNCHANGED <<row, now, pass>>

BeginRotate(r, k) ==
    /\ req[r].at = "idle" /\ r = Tab
    /\ row[k].status = "ACTIVE"
    /\ req' = [req EXCEPT ![r] = [Idle EXCEPT !.at = "insert", !.rotates = TRUE, !.key = k,
                                  !.scopes = row[k].scopes,
                                  !.expires = row[k].expires]]
    /\ UNCHANGED <<row, now, pass>>

(* Mutant: the retirement does not look at the status again.                *)
RetireAnyStatus(r) ==
    /\ req[r].at = "retire"
    /\ row' = [row EXCEPT ![req[r].key].status = "ROTATING", ![req[r].key].grace = now + Grace]
    /\ Finish(r)
    /\ UNCHANGED <<now, pass>>

RetireRotated(r) ==
    /\ req[r].at = "retire"
    /\ row' = IF row[req[r].key].status = "ACTIVE"
              THEN [row EXCEPT ![req[r].key].status = "ROTATING",
                               ![req[r].key].grace = now + Grace]
              ELSE row
    /\ Finish(r)
    /\ UNCHANGED <<now, pass>>

-----------------------------------------------------------------------------
(* UpdateAccess: a tab submits new scopes for the version it displayed.     *)

BeginUpdate(r, k) ==
    /\ req[r].at = "idle" /\ r = Tab
    /\ row[k].status = "ACTIVE"      \* no other key can become changeable again
    /\ row[k].version < MaxVersion
    /\ \E scopes \in Access :
        req' = [req EXCEPT ![r] = [Idle EXCEPT !.at = "check", !.key = k,
                                   !.scopes = scopes, !.version = row[k].version,
                                   !.seen = row[k].scopes]]
    /\ UNCHANGED <<row, now, pass>>

CheckUpdate(r) ==
    LET k == req[r].key IN
    /\ req[r].at = "check"
    /\ IF row[k].status = "ACTIVE" /\ row[k].version = req[r].version
       THEN req' = [req EXCEPT ![r].at = "apply"]
       ELSE Finish(r)
    /\ UNCHANGED <<row, now, pass>>

(* Mutant: the UPDATE does not compare the version.                         *)
ApplyAnyVersion(r) ==
    LET k == req[r].key IN
    /\ req[r].at = "apply"
    /\ row' = IF row[k].status = "ACTIVE"
              THEN [row EXCEPT ![k].scopes = req[r].scopes, ![k].version = @ + 1]
              ELSE row
    /\ Finish(r)
    /\ UNCHANGED <<now, pass>>

Apply(r) ==
    LET k == req[r].key IN
    /\ req[r].at = "apply"
    /\ row' = IF row[k].status = "ACTIVE" /\ row[k].version = req[r].version
              THEN [row EXCEPT ![k].scopes = req[r].scopes, ![k].version = @ + 1]
              ELSE row
    /\ Finish(r)
    /\ UNCHANGED <<now, pass>>

-----------------------------------------------------------------------------
(* The request dies: the client went away, the process was killed, or a     *)
(* statement failed.  What earlier statements committed stays.              *)
Abort(r) ==
    /\ req[r].at # "idle"
    /\ Finish(r)
    /\ UNCHANGED <<row, now, pass>>

Revoke(k) ==
    /\ row[k].status \notin {Unused, "REVOKED"}
    /\ row' = [row EXCEPT ![k].status = "REVOKED"]
    /\ UNCHANGED <<now, req, pass>>

RevokeAll ==
    /\ row' = [k \in KeyRow |-> IF row[k].status \in Live
                                THEN [row[k] EXCEPT !.status = "REVOKED"] ELSE row[k]]
    /\ UNCHANGED <<now, req, pass>>

(* Mutant: the first statement only takes keys that expired as well.        *)
RevokeExpired ==
    /\ pass = "rotated"
    /\ row' = [k \in KeyRow |-> IF row[k].status = "ROTATING" /\ row[k].expires <= now
                                THEN [row[k] EXCEPT !.status = "REVOKED"] ELSE row[k]]
    /\ pass' = "expired"
    /\ UNCHANGED <<now, req>>

(* job.Runner.maintain: two statements, in this order.                      *)
RevokeRotated ==
    /\ pass = "rotated"
    /\ row' = [k \in KeyRow |-> IF row[k].status = "ROTATING" /\ row[k].grace <= now
                                THEN [row[k] EXCEPT !.status = "REVOKED"] ELSE row[k]]
    /\ pass' = "expired"
    /\ UNCHANGED <<now, req>>

(* Mutant: only keys that are not being rotated expire.                     *)
ExpireActive ==
    /\ pass = "expired"
    /\ row' = [k \in KeyRow |-> IF row[k].status = "ACTIVE" /\ row[k].expires < now
                                THEN [row[k] EXCEPT !.status = "EXPIRED"] ELSE row[k]]
    /\ pass' = "rotated"
    /\ UNCHANGED <<now, req>>

ExpireKeys ==
    /\ pass = "expired"
    /\ row' = [k \in KeyRow |-> IF row[k].status \in Live /\ row[k].expires <= now
                                THEN [row[k] EXCEPT !.status = "EXPIRED"] ELSE row[k]]
    /\ pass' = "rotated"
    /\ UNCHANGED <<now, req>>

-----------------------------------------------------------------------------
(* Environment: time passes.                                               *)
Tick ==
    /\ now < MaxTime
    /\ now' = now + 1
    /\ UNCHANGED <<row, req, pass>>

Maintain == RevokeRotated \/ ExpireKeys

KeysNext ==
    \/ \E r \in Request :
        \/ BeginCreate(r) \/ Insert(r) \/ RetireRotated(r)
        \/ CheckUpdate(r) \/ Apply(r) \/ Abort(r)
        \/ \E k \in KeyRow : BeginRotate(r, k) \/ BeginUpdate(r, k)
    \/ \E k \in KeyRow : Revoke(k)
    \/ RevokeAll \/ Maintain \/ Tick

KeysSpec == KeysInit /\ [][KeysNext]_keysVars

(* The ticker of job.Runner runs a pass every minute.                       *)
KeysFairSpec == KeysSpec /\ WF_keysVars(Maintain)
-----------------------------------------------------------------------------
(* auth.authenticateKey, for a bearer of the right secret.                  *)
Accepts(k) ==
    /\ row[k].status = "ACTIVE" \/ (row[k].status = "ROTATING" /\ row[k].grace > now)
    /\ row[k].expires >= now

(* A key that stopped opening the API, because it was revoked, expired or   *)
(* rotated out, never opens it again, whatever rotation or access change    *)
(* was in flight when it stopped.                                           *)
NeverAcceptedAgain ==
    [][\A k \in KeyRow : row[k].status # Unused /\ ~Accepts(k) => ~Accepts(k)']_keysVars

(* An access change replaces exactly the scopes its tab displayed: of two   *)
(* tabs that opened the same key, the second to save is refused.            *)
UpdateReplacesWhatWasSeen ==
    [][\A r \in Request : req[r].at = "apply" /\ req'[r].at = "idle" /\ row' # row =>
          row[req[r].key].scopes = req[r].seen]_keysVars

(* Rotate: a key starts to be rotated out only after its replacement was    *)
(* inserted, wherever the request was cut off and whatever ran beside it.   *)
RotationNeverStrands ==
    [][\A k \in KeyRow : row[k].status = "ACTIVE" /\ row'[k].status = "ROTATING" =>
          \E r \in Request : /\ req[r].key = k /\ req[r].new # k
                             /\ row[req[r].new].status # Unused]_keysVars

(* A key past its expiry, and a key being rotated out past its grace        *)
(* period, end up EXPIRED or REVOKED even if nobody presents them again: a  *)
(* grace period may end long before the key expires.                        *)
Over(k) ==
    \/ row[k].status \in Live /\ row[k].expires <= now
    \/ row[k].status = "ROTATING" /\ row[k].grace <= now

KeysEnd == \A k \in KeyRow : Over(k) ~> row[k].status \notin Live

-----------------------------------------------------------------------------
(* The inductive strengthening the proofs use: what a request in flight     *)
(* still knows about the rows it read.                                      *)

(* A tab's copy is out of date only if the version moved on.                *)
TabsTrackVersions ==
    \A r \in Request : req[r].at \in {"check", "apply"} =>
        LET k == req[r].key IN
        /\ row[k].status # Unused
        /\ req[r].version <= row[k].version
        /\ row[k].version = req[r].version => row[k].scopes = req[r].seen

(* A rotation has a key to rotate, and then another row as its replacement. *)
RotationsHaveKeys ==
    \A r \in Request :
        /\ req[r].at = "insert" /\ req[r].rotates => row[req[r].key].status # Unused
        /\ req[r].at = "retire" =>
            /\ req[r].new # req[r].key
            /\ row[req[r].new].status # Unused /\ row[req[r].key].status # Unused

KeysInv == KeysTypeOK /\ TabsTrackVersions /\ RotationsHaveKeys
=============================================================================
