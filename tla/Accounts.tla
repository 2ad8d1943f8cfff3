----------------------------- MODULE Accounts ------------------------------
(***************************************************************************)
(* Accounts, roles and sessions: sign-in with a password (auth), and the    *)
(* administrator's handlers for users and roles (server).                   *)
(*                                                                          *)
(* Handlers read, check and write in separate statements; a slot of Client  *)
(* is one request between them, and a transaction of writes is one step.    *)
(* The password itself is left out, and with it ChangePassword.             *)
(* What a handler reads and nothing changes (is_bootstrap, auth_source,     *)
(* system_role) is read where it is used.  Permissions, names, organisation *)
(* and manager of an account are left out, and so is the account's Personal *)
(* Key, which detachUser revokes too (RevokeAll of PersonalKeys).           *)
(***************************************************************************)
EXTENDS Integers, FiniteSets

CONSTANTS
    Account,     \* ids of users
    NoAccount,
    Admin,       \* the bootstrap administrator
    Person,      \* subjects of the identity provider
    Nobody,      \* oidc_subject of a local account
    Role,        \* ids of roles
    NoRole,
    System,      \* SYSTEM_ADMIN, the role Bootstrap creates
    Starter,     \* SALES_USER, the default role of migration 007
    Manager,     \* SALES_MANAGER, the other role of migration 007
    Login,       \* sign-ins through the provider
    Password,    \* the session of a password sign-in; bound: one at a time
    Grants,      \* sets of roles an administrator gives an account
    Departed,    \* rows of accounts switched off before; bound: at most one of them
    Client,      \* slots of requests
    MaxRequests  \* bound on the requests of a behaviour, those of the tab apart

ASSUME AccountsAssumption ==
    /\ Admin \in Account /\ NoAccount \notin Account
    /\ Nobody \notin Person
    /\ {System, Starter, Manager} \subseteq Role /\ System # Starter /\ Manager \notin {System, Starter}
    /\ NoRole \notin Role
    /\ Grants \subseteq SUBSET Role
    /\ Departed \subseteq [state : {"inactive"}, person : Person \cup {Nobody}, roles : SUBSET Role,
                           era : {0}, spared : {FALSE}]
    /\ MaxRequests \in Nat

VARIABLES
    account,   \* users and user_roles
    role,      \* roles: "none", "plain" or "default"
    session,   \* sessions, by the sign-in that opened them
    client,    \* the requests in progress
    begun      \* how many requests have begun

accounts == <<account, role, session>>

(* Two history variables.  era counts the resets of an account's password,  *)
(* its deletions and every other step from active to inactive; a session    *)
(* carries the era its row was inserted in.  spared: one of these left      *)
(* sessions of the account alone, and no later one has ended them.          *)
AccountRow == [state : {"none", "active", "inactive"}, person : Person \cup {Nobody},
               roles : SUBSET Role, era : 0..MaxRequests, spared : BOOLEAN]
SessionRow == [account : Account \cup {NoAccount}, era : 0..MaxRequests]
Token == Login \cup {Password}

NoUser == [state |-> "none", person |-> Nobody, roles |-> {}, era |-> 0, spared |-> FALSE]
NoSession == [account |-> NoAccount, era |-> 0]

(* A request: the account or role it works on, and what it read.            *)
Idle == [op |-> "idle", account |-> NoAccount, active |-> FALSE, wish |-> FALSE, role |-> NoRole,
         login |-> Nobody, person |-> Nobody, auto |-> FALSE, roles |-> {}]

(* Bootstrap and migration 007; somebody may have left since.               *)
Earlier == CHOOSE a \in Account : a # Admin
Init ==
    /\ \E d \in Departed \cup {NoUser} :
           account = [a \in Account |->
                         IF a = Admin THEN [NoUser EXCEPT !.state = "active", !.roles = {System}]
                         ELSE IF a = Earlier THEN d ELSE NoUser]
    /\ role = [r \in Role |-> IF r = Starter THEN "default" ELSE IF r \in {System, Manager} THEN "plain" ELSE "none"]
    /\ session = [t \in Token |-> NoSession]
    /\ client = [k \in Client |-> Idle]
    /\ begun = 0

-----------------------------------------------------------------------------
(* Requests                                                                 *)

Count == begun < MaxRequests /\ begun' = begun + 1
(* Slots and ids not in use are alike: the next one is as good as another.  *)
Slot == CHOOSE k \in Client : client[k] = Idle
Begin(k, request) == Count /\ client[k] = Idle /\ k = Slot /\ client' = [client EXCEPT ![k] = request]
Await(k, request) == client' = [client EXCEPT ![k] = request] /\ UNCHANGED begun
Done(k) == Await(k, Idle)
At(k, op) == client[k].op = op

Exists(a) == account[a].state # "none"
Active(a) == account[a].state = "active"
NewAccount == CHOOSE a \in Account : ~Exists(a)
Local(a) == Exists(a) /\ account[a].person = Nobody
Roles == {r \in Role : role[r] # "none"}
Live(t) == session[t] # NoSession

-----------------------------------------------------------------------------
(* Sessions                                                                 *)

(* CreateSession inserts the row first and loads the principal after it, so *)
(* the session of an account just switched off is left behind, unusable.    *)
CreateSession(t, a) == session' = [session EXCEPT ![t] = [account |-> a, era |-> account[a].era]]

(* Authenticate with a cookie: the session, then loadPrincipal, which wants *)
(* the account active.                                                      *)
Authenticated(t) == Live(t) /\ Active(session[t].account)

SignedIn(a) == \E t \in Token : session[t].account = a

Closed(gone) == [t \in Token |-> IF session[t].account \in gone THEN NoSession ELSE session[t]]

(* DELETE FROM sessions WHERE user_id = a                                   *)
EndSessionsByPassword(a) ==
    session' = [t \in Token |-> IF t = Password THEN Closed({a})[t] ELSE session[t]]

EndSessions(a) == session' = Closed({a})

VerifyPassword(k, a) ==
    /\ Local(a) /\ Active(a)
    /\ ~Live(Password) /\ \A j \in Client : ~At(j, "login")
    /\ Begin(k, [Idle EXCEPT !.op = "login", !.account = a])
    /\ UNCHANGED accounts

InsertSession(k) ==
    /\ At(k, "login")
    /\ CreateSession(Password, client[k].account)
    /\ Done(k)
    /\ UNCHANGED <<account, role>>

(* revokeSession, or the maintenance runner for a session long expired.     *)
RevokeSession(t) ==
    /\ Live(t)
    /\ Count
    /\ session' = [session EXCEPT ![t] = NoSession]
    /\ UNCHANGED <<account, role, client>>

-----------------------------------------------------------------------------
(* Users                                                                    *)

CreateUser(roles) ==
    /\ Cardinality({b \in Account : ~Exists(b)}) > Cardinality(Person)   \* bound: ids left for the callback
    /\ ~Exists(NewAccount)
    /\ roles \subseteq Roles
    /\ Count
    /\ account' = [account EXCEPT ![NewAccount] = [NoUser EXCEPT !.state = "active", !.roles = roles]]
    /\ UNCHANGED <<role, session, client>>

SetUserRoles(a, roles) ==
    /\ Exists(a)
    /\ a = Admin => roles # {}
    /\ roles \subseteq Roles
    /\ Count
    /\ account' = [account EXCEPT ![a].roles = roles]
    /\ UNCHANGED <<role, session, client>>

ResetUserPassword(k, a) ==
    /\ Local(a)
    /\ Begin(k, [Idle EXCEPT !.op = "detach", !.account = a])
    /\ account' = [account EXCEPT ![a].era = @ + 1]
    /\ UNCHANGED <<role, session>>

DeleteUser(k, a) ==
    /\ Exists(a) /\ a # Admin
    /\ Begin(k, [Idle EXCEPT !.op = "detach", !.account = a])
    /\ account' = [account EXCEPT ![a].state = "inactive", ![a].era = @ + 1]
    /\ UNCHANGED <<role, session>>

(* updateUser keeps the active flag it read unless the input names one.     *)
ReadUser(k, a, wish) ==
    /\ Exists(a)
    /\ a = Admin => wish
    /\ Begin(k, [Idle EXCEPT !.op = "user", !.account = a, !.active = Active(a), !.wish = wish])
    /\ UNCHANGED accounts

(* It detaches the user if the flag it read was true, whatever the row says *)
(* by now.                                                                  *)
UpdateUser(k) ==
    LET a == client[k].account
        off == Active(a) /\ ~client[k].wish
        detach == client[k].active /\ ~client[k].wish
    IN  /\ At(k, "user")
        /\ account' = [account EXCEPT ![a].state = IF client[k].wish THEN "active" ELSE "inactive",
                                      ![a].era = IF off THEN @ + 1 ELSE @,
                                      ![a].spared = @ \/ (off /\ ~detach /\ SignedIn(a))]
        /\ Await(k, IF detach THEN [Idle EXCEPT !.op = "detach", !.account = a] ELSE Idle)
        /\ UNCHANGED <<role, session>>

(* detachUser and the end of resetUserPassword.  The error of the DELETE is *)
(* dropped; among others it fails when the caller has gone and the context  *)
(* of the request is cancelled.                                             *)
DetachUser(k) ==
    LET a == client[k].account
    IN  /\ At(k, "detach")
        /\ \/ EndSessions(a) /\ account' = [account EXCEPT ![a].spared = FALSE]
           \/ SignedIn(a) /\ UNCHANGED session /\ account' = [account EXCEPT ![a].spared = TRUE]
        /\ Done(k)
        /\ UNCHANGED role

-----------------------------------------------------------------------------
(* Roles                                                                    *)

(* The transaction clears the default of the others; the unique index lets  *)
(* one role be the default.                                                 *)
WithDefault(r, default) ==
    [q \in Role |-> IF q = r THEN (IF default THEN "default" ELSE "plain")
                    ELSE IF default /\ role[q] = "default" THEN "plain" ELSE role[q]]

CreateRole(r, default) ==
    /\ r \notin Roles
    /\ Count
    /\ role' = WithDefault(r, default)
    /\ UNCHANGED <<account, session, client>>

UpdateRole(k, r, default) ==
    /\ r \in Roles
    /\ r = System => ~default
    /\ Begin(k, [Idle EXCEPT !.op = "role sessions", !.role = r])
    /\ role' = WithDefault(r, default)
    /\ UNCHANGED <<account, session>>

InvalidateRoleSessions(k) ==
    /\ At(k, "role sessions")
    /\ \/ session' = Closed({a \in Account \ {Admin} : client[k].role \in account[a].roles})
       \/ UNCHANGED session   \* the DELETE failed
    /\ Done(k)
    /\ UNCHANGED <<account, role>>

(* deleteRole looks at the role, counts what uses it, and deletes it: three *)
(* statements.  A user_roles row goes with the role; a provider's default   *)
(* role (kept by SignOn, in inUse) stops the delete.                        *)
ReadRole(k, r) ==
    /\ r \in Roles /\ r # System /\ role[r] # "default"
    /\ Begin(k, [Idle EXCEPT !.op = "count role", !.role = r])
    /\ UNCHANGED accounts

CountRole(k, inUse) ==
    /\ At(k, "count role")
    /\ LET r == client[k].role
           assigned == \E a \in Account : r \in account[a].roles
       IN  IF assigned \/ r \in inUse THEN Done(k)
           ELSE Await(k, [client[k] EXCEPT !.op = "delete role"])
    /\ UNCHANGED accounts

DeleteRole(k, inUse) ==
    /\ At(k, "delete role")
    /\ LET r == client[k].role
       IN  IF r \in inUse THEN UNCHANGED <<account, role>>
           ELSE /\ role' = [role EXCEPT ![r] = "none"]
                /\ account' = [a \in Account |-> [account[a] EXCEPT !.roles = @ \ {r}]]
    /\ Done(k)
    /\ UNCHANGED session

-----------------------------------------------------------------------------
(* A session does not outlive the reset of the password or the end of the   *)
(* account it was opened under (resetUserPassword, deleteUser, updateUser,  *)
(* detachUser): the write comes first and the DELETE second, so that a row  *)
(* inserted between them is deleted too.  It may be live until the DELETE,  *)
(* and after it in two cases, of which admin_crud.go lines 179-180 and      *)
(* ADMIN_GUIDE.md line 347 know nothing: the DELETE failed, or updateUser   *)
(* ended an account it had read as ended and sent none.  A later revocation *)
(* whose DELETE succeeds makes up for both.                                 *)
RevocationComplete ==
    \A t \in Token : Live(t) =>
        LET row == account[session[t].account]
        IN  \/ session[t].era = row.era
            \/ row.spared
            \/ \E k \in Client : At(k, "detach") /\ client[k].account = session[t].account
=============================================================================
