------------------------------ MODULE SignOn -------------------------------
(***************************************************************************)
(* Single sign-on (oidc): the login states, the callback with its lookup or *)
(* provisioning of the account, the configuration of the provider, and one  *)
(* tab of the web client, which may try the provider silently before it     *)
(* draws the login screen.                                                  *)
(*                                                                          *)
(* Other browsers start logins and present callbacks too, the same one more *)
(* than once among them.  The provider answers as it likes.  The two flags  *)
(* of the tab, attempted and signed out, block alike, are cleared together, *)
(* and the second is never set alone: here they are one, which stands when  *)
(* the storage is blocked.                                                  *)
(***************************************************************************)
EXTENDS Accounts

CONSTANTS
    NoLogin,
    Configs      \* what an administrator saves for the provider

Config == [enabled : BOOLEAN, auto : BOOLEAN, autoLogin : BOOLEAN, role : Role \cup {NoRole}, mapped : SUBSET Role]

ASSUME SignOnAssumption ==
    /\ NoLogin \notin Login /\ Nobody \notin Login
    /\ Configs \subseteq Config

VARIABLES
    config,   \* oidc_providers and the roles of oidc_role_mappings
    login,    \* oidc_login_states, by sign-in
    opened,   \* history: sessions a sign-in has opened
    tab       \* the tab: where it is, its flags, its cookie, its sign-in

vars == <<accounts, client, begun, config, login, opened, tab>>
sso == <<config, login, opened, tab>>

(* A login state is absent, waiting for the callback, or past its ten       *)
(* minutes; silent remembers how it was asked for.                          *)
LoginRow == [state : {"none", "waiting", "expired"}, silent : BOOLEAN]
Page == {"loading", "start", "provider", "callback", "answer", "app", "login", "unavailable"}
Tab == [page : Page, attempted : BOOLEAN, silent : BOOLEAN,
        cookie : Token \cup {NoLogin}, login : Login \cup {NoLogin}]
Request == [op : {"idle", "login", "user", "detach", "role sessions", "count role", "delete role",
                  "exchange", "resolve", "repair", "provision", "open"},
            account : Account \cup {NoAccount}, active : BOOLEAN, wish : BOOLEAN, role : Role \cup {NoRole},
            login : Login \cup {Nobody}, person : Person \cup {Nobody},
            auto : BOOLEAN, roles : SUBSET Role]

TypeOK ==
    /\ account \in [Account -> AccountRow]
    /\ role \in [Role -> {"none", "plain", "default"}]
    /\ session \in [Token -> SessionRow]
    /\ client \in [Client -> Request]
    /\ begun \in 0..MaxRequests
    /\ config \in Config
    /\ login \in [Login -> LoginRow]
    /\ opened \in [Login -> 0..2]
    /\ tab \in Tab

NoState == [state |-> "none", silent |-> FALSE]

SignOnInit ==
    /\ Init
    /\ config \in {c \in Configs : c.enabled /\ c.role = NoRole /\ c.mapped = {}}
    /\ login = [l \in Login |-> NoState]
    /\ opened = [l \in Login |-> 0]
    /\ tab = [page |-> "loading", attempted |-> FALSE, silent |-> FALSE,
              cookie |-> NoLogin, login |-> NoLogin]

(* A sign-in nothing refers to any more; its random state is never seen     *)
(* again, so the id is free for the next.                                   *)
Unused(l) ==
    /\ login[l] = NoState /\ session[l] = NoSession
    /\ tab.login # l /\ tab.cookie # l
    /\ \A k \in Client : client[k].login # l

NewLogin == CHOOSE l \in Login : Unused(l)

-----------------------------------------------------------------------------
(* The provider's configuration                                             *)

(* Save and putOIDCMappings; a foreign key wants the roles to exist.  Save  *)
(* is guarded by the version it read, so a concurrent one is refused.       *)
Save(c) ==
    /\ c.mapped \subseteq Roles /\ c.role \in Roles \cup {NoRole}
    /\ Count
    /\ config' = c
    /\ UNCHANGED <<accounts, client, login, opened, tab>>

(* A mapping goes with its role; the default role of the provider stays.    *)
Unmapped(r) == [config EXCEPT !.mapped = @ \ {r}]
InUse == config.mapped \cup {config.role}

-----------------------------------------------------------------------------
(* Login states                                                             *)

(* LoginURL: silent only where the administrator allows it.                 *)
StateRow(asked) == [state |-> "waiting", silent |-> asked /\ config.autoLogin]

StartElsewhere(l) ==
    /\ config.enabled /\ Unused(l) /\ l = NewLogin
    /\ Count
    /\ login' = [login EXCEPT ![l] = StateRow(FALSE)]
    /\ opened' = [opened EXCEPT ![l] = 0]
    /\ UNCHANGED <<accounts, client, config, tab>>

Expire(l) ==
    /\ login[l].state = "waiting"
    /\ login' = [login EXCEPT ![l].state = "expired"]
    /\ UNCHANGED <<accounts, client, begun, config, opened, tab>>

(* The maintenance runner.                                                  *)
RemoveExpired ==
    /\ \E l \in Login : login[l].state = "expired"
    /\ login' = [l \in Login |-> IF login[l].state = "expired" THEN NoState ELSE login[l]]
    /\ UNCHANGED <<accounts, client, begun, config, opened, tab>>

(* DELETE ... WHERE state_hash = $1 AND expires_at > now() RETURNING ...    *)
TakeByReading(l) == login[l].state = "waiting" /\ UNCHANGED login

Take(l) == login[l].state = "waiting" /\ login' = [login EXCEPT ![l] = NoState]

-----------------------------------------------------------------------------
(* The callback                                                             *)

(* The tab's request is the one whose sign-in is the tab's while it waits   *)
(* for the answer; another browser presents the same state at its own risk. *)
Waiting(k) == tab.page = "answer" /\ client[k].login = tab.login

Refused(k) == tab' = IF Waiting(k) THEN [tab EXCEPT !.page = "login", !.login = NoLogin] ELSE tab

Fail(k) == Done(k) /\ Refused(k)

CallbackElsewhere(k, l) ==
    /\ Begin(k, [Idle EXCEPT !.op = "exchange", !.login = l])
    /\ Take(l)
    /\ UNCHANGED <<accounts, config, opened, tab>>

(* privateConfig, discovery, the code for the tokens, verifyToken: any of   *)
(* them may fail; else the token names a person.                            *)
Exchange(k, p) ==
    /\ At(k, "exchange")
    /\ config.enabled
    /\ Await(k, [client[k] EXCEPT !.op = "resolve", !.person = p, !.auto = config.auto, !.role = config.role])
    /\ UNCHANGED <<accounts, sso>>

ExchangeFails(k) ==
    /\ At(k, "exchange")
    /\ Fail(k)
    /\ UNCHANGED <<accounts, config, login, opened>>

(* ValidateAccessToken: an agent presents a token of the provider at the    *)
(* MCP endpoint.  It is refused, or names a person, who is provisioned like *)
(* one who signs in.  A token whose person has an active account changes    *)
(* nothing.                                                                 *)
PresentToken(k, p) ==
    /\ config.enabled
    /\ \A a \in Account : account[a].person = p => ~Active(a)
    /\ Begin(k, [Idle EXCEPT !.op = "resolve", !.person = p, !.auto = config.auto, !.role = config.role])
    /\ UNCHANGED <<accounts, sso>>

(* fallbackRoleID: the role of the configuration the callback read, if it   *)
(* still exists, or the default one.                                        *)
Fallback(k) == IF client[k].role \in Roles THEN {client[k].role} ELSE {r \in Role : role[r] = "default"}

Found(k) == {a \in Account : account[a].person = client[k].person /\ Active(a)}

(* A callback goes on to its session, an access token needs none.           *)
Opening(k, a) ==
    IF client[k].login = Nobody THEN Idle
    ELSE [Idle EXCEPT !.op = "open", !.login = client[k].login, !.account = a]

(* resolveUser finds the active account of the subject, and repairRoles     *)
(* looks whether it has a role ...                                          *)
ResolveFound(k, a) ==
    /\ At(k, "resolve") /\ a \in Found(k)
    /\ IF client[k].auto /\ account[a].roles = {} /\ Fallback(k) # {}
       THEN Await(k, [Idle EXCEPT !.op = "repair", !.login = client[k].login, !.account = a, !.roles = Fallback(k)])
       ELSE Await(k, Opening(k, a))
    /\ UNCHANGED <<accounts, sso>>

(* ... and inserts one; a role deleted meanwhile leaves things as they are. *)
RepairRoles(k) ==
    LET a == client[k].account
    IN  /\ At(k, "repair")
        /\ account' = [account EXCEPT ![a].roles = @ \cup (client[k].roles \cap Roles)]
        /\ Await(k, Opening(k, a))
        /\ UNCHANGED <<role, session, sso>>

(* No active account: the roles the claims map to, or the fallback.         *)
ResolveNew(k, mapped) ==
    LET roles == IF mapped # {} THEN mapped ELSE Fallback(k)
    IN  /\ At(k, "resolve") /\ Found(k) = {}
        /\ client[k].auto /\ roles # {}
        /\ Await(k, [client[k] EXCEPT !.op = "provision", !.roles = roles, !.auto = FALSE, !.role = NoRole])
        /\ UNCHANGED <<accounts, sso>>

ResolveFails(k) ==
    /\ At(k, "resolve") /\ Found(k) = {}
    /\ ~client[k].auto \/ Fallback(k) = {}
    /\ Fail(k)
    /\ UNCHANGED <<accounts, config, login, opened>>

Taken(p) == \E a \in Account : account[a].person = p

Insert(k, a) ==
    /\ ~Exists(a) /\ a = NewAccount
    /\ account' = [account EXCEPT ![a] = [NoUser EXCEPT !.state = "active", !.person = client[k].person,
                                                        !.roles = client[k].roles]]
    /\ Await(k, Opening(k, a))

(* The transaction: oidc_subject is unique, and the roles must exist.       *)
ProvisionUserUnchecked(k, a) ==
    /\ At(k, "provision") /\ client[k].roles \subseteq Roles
    /\ Insert(k, a)
    /\ UNCHANGED <<role, session, sso>>

ProvisionUser(k, a) ==
    /\ At(k, "provision")
    /\ ~Taken(client[k].person) /\ client[k].roles \subseteq Roles
    /\ Insert(k, a)
    /\ UNCHANGED <<role, session, sso>>

ProvisionFails(k) ==
    /\ At(k, "provision")
    /\ Taken(client[k].person) \/ ~(client[k].roles \subseteq Roles)
    /\ Fail(k)
    /\ UNCHANGED <<accounts, config, login, opened>>

(* CreateSession; an account switched off meanwhile gets the row and an     *)
(* error.                                                                   *)
OpenSession(k) ==
    LET a == client[k].account
        l == client[k].login
    IN  /\ At(k, "open")
        /\ CreateSession(l, a)
        /\ opened' = [opened EXCEPT ![l] = @ + 1]
        /\ Done(k)
        /\ IF Waiting(k) /\ Active(a)
           THEN tab' = [tab EXCEPT !.page = "loading", !.cookie = l, !.login = NoLogin]
           ELSE Refused(k)
        /\ UNCHANGED <<account, role, config, login>>

-----------------------------------------------------------------------------
(* The tab                                                                  *)

(* App.bootstrap: /auth/me answers, or one silent attempt, or the login     *)
(* screen.                                                                  *)
Load ==
    /\ tab.page = "loading"
    /\ tab' = IF tab.cookie # NoLogin /\ Authenticated(tab.cookie)
              THEN [tab EXCEPT !.page = "app", !.attempted = FALSE]
              ELSE IF config.enabled /\ config.autoLogin /\ ~tab.attempted
              THEN [tab EXCEPT !.page = "start", !.attempted = TRUE, !.silent = TRUE]
              ELSE [tab EXCEPT !.page = "login"]
    /\ UNCHANGED <<accounts, client, begun, config, login, opened>>

(* oidcStart and LoginURL; without a provider the answer is an error page.  *)
Start(l) ==
    /\ tab.page = "start"
    /\ config.enabled /\ Unused(l) /\ l = NewLogin
    /\ login' = [login EXCEPT ![l] = StateRow(tab.silent)]
    /\ opened' = [opened EXCEPT ![l] = 0]
    /\ tab' = [tab EXCEPT !.page = "provider", !.login = l, !.silent = FALSE]
    /\ UNCHANGED <<accounts, client, begun, config>>

StartFails ==
    /\ tab.page = "start"
    /\ tab' = [tab EXCEPT !.page = "unavailable", !.silent = FALSE]
    /\ UNCHANGED <<accounts, client, begun, config, login, opened>>

(* The provider redirects with a code ...                                   *)
Approve ==
    /\ tab.page = "provider"
    /\ tab' = [tab EXCEPT !.page = "callback"]
    /\ UNCHANGED <<accounts, client, begun, config, login, opened>>

Callback(k) ==
    /\ tab.page = "callback" /\ client[k] = Idle /\ k = Slot
    /\ Take(tab.login)
    /\ Await(k, [Idle EXCEPT !.op = "exchange", !.login = tab.login])
    /\ tab' = [tab EXCEPT !.page = "answer"]
    /\ UNCHANGED <<accounts, config, opened>>

CallbackRefused ==
    /\ tab.page = "callback" /\ login[tab.login].state # "waiting"
    /\ tab' = [tab EXCEPT !.page = "login", !.login = NoLogin]
    /\ UNCHANGED <<accounts, client, begun, config, login, opened>>

(* ... or with an error: AbandonLogin deletes the row, and RefusalRedirect  *)
(* lands on /login, where no attempt starts.                                *)
RefusalRedirectBack(t) == [t EXCEPT !.page = "loading", !.login = NoLogin]

RefusalRedirect(t) == [t EXCEPT !.page = "login", !.login = NoLogin]

AbandonLogin ==
    /\ tab.page = "provider"
    /\ login' = [login EXCEPT ![tab.login] = NoState]
    /\ tab' = RefusalRedirect(tab)
    /\ UNCHANGED <<accounts, client, begun, config, opened>>

(* Something is on the screen: the application, the login screen, an error, *)
(* or the provider's own form.                                              *)
Settled ==
    \/ tab.page \in {"app", "login", "unavailable"}
    \/ tab.page = "provider" /\ ~login[tab.login].silent

(* The user acts on what the screen shows: loads a page of the application, *)
(* asks for the provider, signs out; or clears the storage of the tab.      *)
Visit ==
    /\ Settled
    /\ tab' = [tab EXCEPT !.page = "loading", !.login = NoLogin]
    /\ UNCHANGED <<accounts, client, begun, config, login, opened>>

AskProvider ==
    /\ tab.page = "login" /\ config.enabled
    /\ tab' = [tab EXCEPT !.page = "start", !.silent = FALSE]
    /\ UNCHANGED <<accounts, client, begun, config, login, opened>>

Logout ==
    /\ tab.page = "app"
    /\ session' = [session EXCEPT ![tab.cookie] = NoSession]
    /\ tab' = [tab EXCEPT !.page = "login", !.attempted = TRUE, !.cookie = NoLogin]
    /\ UNCHANGED <<account, role, client, begun, config, login, opened>>

ClearStorage ==
    /\ tab.attempted
    /\ tab' = [tab EXCEPT !.attempted = FALSE]
    /\ UNCHANGED <<accounts, client, begun, config, login, opened>>

-----------------------------------------------------------------------------
(* A handler runs to its end.                                               *)
Proceed(k) ==
    \/ (InsertSession(k) \/ UpdateUser(k) \/ DetachUser(k)
          \/ InvalidateRoleSessions(k) \/ CountRole(k, InUse)) /\ UNCHANGED sso
    \/ /\ DeleteRole(k, {config.role})
       /\ config' = IF role' # role THEN Unmapped(client[k].role) ELSE config
       /\ UNCHANGED <<login, opened, tab>>
    \/ \E p \in Person : Exchange(k, p)
    \/ ExchangeFails(k)
    \/ \E a \in Account : ResolveFound(k, a) \/ ProvisionUser(k, a)
    \/ RepairRoles(k)
    \/ \E mapped \in SUBSET config.mapped : ResolveNew(k, mapped)
    \/ ResolveFails(k)
    \/ ProvisionFails(k)
    \/ OpenSession(k)

(* What the browser and the provider do by themselves: a silent attempt     *)
(* draws nothing, so nobody is waited for.                                  *)
Navigate ==
    \/ Load
    \/ \E l \in Login : Start(l)
    \/ StartFails
    \/ tab.page = "provider" /\ login[tab.login].silent /\ (Approve \/ AbandonLogin)
    \/ \E k \in Client : Callback(k)
    \/ CallbackRefused

Administer ==
    \/ \E k \in Client, a \in Account : VerifyPassword(k, a) \/ ResetUserPassword(k, a)
                                          \/ DeleteUser(k, a) \/ \E wish \in BOOLEAN : ReadUser(k, a, wish)
    \/ \E t \in Token : RevokeSession(t)
    \/ \E roles \in Grants : CreateUser(roles) \/ \E a \in Account : SetUserRoles(a, roles)
    \/ \E r \in Role, default \in BOOLEAN : CreateRole(r, default) \/ \E k \in Client : UpdateRole(k, r, default)
    \/ \E k \in Client, r \in Role : ReadRole(k, r)

Next ==
    \/ \E k \in Client : Proceed(k)
    \/ Navigate
    \/ Administer /\ UNCHANGED sso
    \/ \E c \in Configs : Save(c)
    \/ \E k \in Client, p \in Person : PresentToken(k, p)
    \/ \E l \in Login : StartElsewhere(l) \/ Expire(l) \/ \E k \in Client : CallbackElsewhere(k, l)
    \/ RemoveExpired
    \/ Approve \/ AbandonLogin
    \/ Visit \/ AskProvider \/ Logout \/ ClearStorage

Spec ==
    /\ SignOnInit /\ [][Next]_vars
    /\ \A k \in Client : WF_vars(client[k] # Idle /\ Proceed(k))
    /\ WF_vars(Navigate)

-----------------------------------------------------------------------------
(* A login state is good for one session, however many browsers present it  *)
(* and at whatever moment: Callback deletes the row and reads it in one     *)
(* statement.                                                               *)
OneSessionPerLogin == \A l \in Login : opened[l] <= 1

(* A person has one account.  Callbacks and access tokens of the same       *)
(* person at the same time do not provision two (resolveUser), and a person *)
(* whose account an administrator switched off is not given a new one by    *)
(* signing in again.                                                        *)
OneAccountPerPerson ==
    \A a, b \in Account : account[a].person = account[b].person /\ account[a].person # Nobody => a = b

(* A visit ends with something on the screen.  A silent attempt the         *)
(* provider turns down is not made again by itself, even if the storage of  *)
(* the tab is cleared each time (AbandonLogin, RefusalRedirect, silentSso). *)
VisitSettles == []<>Settled
=============================================================================
