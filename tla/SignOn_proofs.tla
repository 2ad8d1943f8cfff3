---------------------------- MODULE SignOn_proofs ---------------------------
(***************************************************************************)
(* Proofs about SignOn and the Accounts it extends: for every set of        *)
(* accounts, people, roles, sign-ins and slots.                             *)
(***************************************************************************)
EXTENDS SignOn, TLAPS

-----------------------------------------------------------------------------
(* The inductive invariant                                                  *)

AccountType == [state : {"none", "active", "inactive"}, person : Person \cup {Nobody},
                roles : SUBSET Role, era : Nat, spared : BOOLEAN]
SessionType == [account : Account \cup {NoAccount}, era : Nat]

Types ==
    /\ account \in [Account -> AccountType]
    /\ role \in [Role -> {"none", "plain", "default"}]
    /\ session \in [Token -> SessionType]
    /\ client \in [Client -> Request]
    /\ config \in Config
    /\ login \in [Login -> LoginRow]
    /\ opened \in [Login -> Nat]

TabOK == tab \in Tab /\ (tab.page \in {"provider", "callback", "answer"} => tab.login \in Login)

(* A request between its statements, and a session, refer to an account     *)
(* that was created: ids are not used twice, accounts are never deleted.    *)
Holding == {"login", "user", "detach", "repair", "open"}
Known(table, a) == a \in Account /\ table[a].state # "none"
SlotFine(table, q) ==
    /\ q.op \in Holding => Known(table, q.account)
    /\ q.op = "open" => q.login \in Login
SessionFine(table, s) == s # NoSession => Known(table, s.account)

Refs ==
    /\ \A k \in Client : SlotFine(account, client[k])
    /\ \A t \in Token : SessionFine(account, session[t])

(* A sign-in is at one place: its row waits, a callback works for it, or    *)
(* its session was opened.                                                  *)
LoginOnce ==
    \A l \in Login :
        /\ opened[l] <= 1
        /\ login[l].state # "none" => opened[l] = 0 /\ \A k \in Client : client[k].login # l
        /\ \A k \in Client : client[k].login = l => opened[l] = 0
        /\ \A j, k \in Client : client[j].login = l /\ client[k].login = l => j = k

SignOnInv == Types /\ TabOK /\ Refs /\ LoginOnce /\ RevocationComplete /\ OneAccountPerPerson

-----------------------------------------------------------------------------
LEMMA Constants ==
    /\ Admin \in Account /\ NoAccount \notin Account /\ Nobody \notin Person
    /\ NoLogin \notin Login /\ Nobody \notin Login /\ Configs \subseteq Config
    /\ System \in Role /\ Login \subseteq Token /\ Grants \subseteq SUBSET Role
BY AccountsAssumption, SignOnAssumption DEF Token

LEMMA DepartedAre == Departed \subseteq AccountType
<1> SUFFICES ASSUME NEW d \in Departed PROVE d \in AccountType
    OBVIOUS
<1>1. d \in [state : {"inactive"}, person : Person \cup {Nobody}, roles : SUBSET Role, era : {0}, spared : {FALSE}]
    BY AccountsAssumption
<1>2. {"inactive"} \subseteq {"none", "active", "inactive"} /\ {0} \subseteq Nat /\ {FALSE} \subseteq BOOLEAN
    OBVIOUS
<1>3. d.state \in {"inactive"} /\ d.era \in {0} /\ d.spared \in {FALSE} /\ d.person \in Person \cup {Nobody}
      /\ d.roles \in SUBSET Role
    BY <1>1
<1> QED
    BY <1>1, <1>2, <1>3, Zenon DEF AccountType

LEMMA IdleIs ==
    /\ Idle \in Request /\ Idle.op = "idle" /\ Idle.login = Nobody /\ \A table : SlotFine(table, Idle)
BY DEF Idle, Request, SlotFine, Holding

LEMMA NoSessionIs == NoSession \in SessionType /\ NoSession.account = NoAccount
BY DEF NoSession, SessionType

LEMMA InitInv == SignOnInit => SignOnInv
<1> SUFFICES ASSUME SignOnInit PROVE SignOnInv
    OBVIOUS
<1>1. account \in [Account -> AccountType] /\ OneAccountPerPerson
  <2> DEFINE boot == [NoUser EXCEPT !.state = "active", !.roles = {System}]
  <2>1. NoUser \in AccountType /\ boot \in AccountType /\ NoUser.person = Nobody /\ boot.person = Nobody
      BY Constants DEF NoUser, AccountType
  <2>2. PICK d \in Departed \cup {NoUser} :
            account = [a \in Account |-> IF a = Admin THEN boot ELSE IF a = Earlier THEN d ELSE NoUser]
      BY DEF SignOnInit, Init
  <2>3. d \in AccountType
      BY <2>1, DepartedAre
  <2> HIDE DEF boot
  <2>4. account \in [Account -> AccountType] /\ \A a \in Account : account[a].person # Nobody => a = Earlier
      BY <2>1, <2>2, <2>3
  <2> QED
      BY <2>4 DEF OneAccountPerPerson
<1>2. /\ role \in [Role -> {"none", "plain", "default"}] /\ session \in [Token -> SessionType]
      /\ client \in [Client -> Request] /\ \A t \in Token : session[t] = NoSession
      /\ \A k \in Client : client[k] = Idle
    BY IdleIs, NoSessionIs DEF SignOnInit, Init
<1>3. /\ login \in [Login -> LoginRow] /\ opened \in [Login -> Nat] /\ config \in Config
      /\ \A l \in Login : opened[l] = 0
    BY Constants DEF SignOnInit, LoginRow, NoState
<1>4. TabOK
    BY DEF SignOnInit, TabOK, Tab, Page
<1>5. LoginOnce
    BY <1>2, <1>3, IdleIs, Constants DEF LoginOnce, SignOnInit, NoState
<1>6. Refs /\ RevocationComplete
    BY <1>2, IdleIs DEF Refs, SessionFine, RevocationComplete, Live
<1> QED
    BY <1>1, <1>2, <1>3, <1>4, <1>5, <1>6 DEF SignOnInv, Types

-----------------------------------------------------------------------------
(* What a step has to establish                                             *)

(* What a step does to the sessions of an account: it ends them, it lets    *)
(* their era be, it marks them as spared, or slot k is to end them next.    *)
Kept(a) == account'[a].era = account[a].era /\ (account[a].spared => account'[a].spared)
Ended(a) == \A t \in Token : session'[t] # NoSession => session'[t].account # a
Accounted(a, q) == Kept(a) \/ Ended(a) \/ account'[a].spared \/ (q.op = "detach" /\ q.account = a)
Discharged(q) == q.op = "detach" => account'[q.account].spared \/ Ended(q.account)

(* Accounts only come to exist, and each of them is accounted for.          *)
LEMMA DeskStep ==
    ASSUME SignOnInv, NEW k \in Client, NEW q \in Request, client' = [client EXCEPT ![k] = q],
           account' \in [Account -> AccountType], session' \in [Token -> SessionType],
           SlotFine(account', q),
           \A a \in Account : account[a].state # "none" => account'[a].state # "none" /\ Accounted(a, q),
           \A t \in Token : \/ session'[t] = session[t]
                            \/ session'[t] = NoSession
                            \/ /\ Known(account', session'[t].account)
                               /\ session'[t].era = account'[session'[t].account].era,
           Discharged(client[k])
    PROVE  client' \in [Client -> Request] /\ Refs' /\ RevocationComplete'
<1>1. /\ client' \in [Client -> Request] /\ client'[k] = q /\ \A j \in Client \ {k} : client'[j] = client[j]
    BY DEF SignOnInv, Types
<1>2. \A a : Known(account, a) => Known(account', a)
    BY DEF Known
<1>3. \A j \in Client : SlotFine(account', client'[j])
    BY <1>1, <1>2 DEF SignOnInv, Refs, SlotFine
<1>4. \A t \in Token : SessionFine(account', session'[t])
    BY <1>2 DEF SignOnInv, Refs, SessionFine
<1>5. RevocationComplete'
  <2> SUFFICES ASSUME NEW t \in Token, session'[t] # NoSession
               PROVE  \/ session'[t].era = account'[session'[t].account].era
                      \/ account'[session'[t].account].spared
                      \/ \E j \in Client : client'[j].op = "detach" /\ client'[j].account = session'[t].account
      BY DEF RevocationComplete, Live, At
  <2>1. CASE session'[t] # session[t]
      BY <2>1
  <2>2. CASE session'[t] = session[t]
    <3> DEFINE a == session[t].account
    <3>1. a \in Account /\ account[a].state # "none"
        BY <2>2 DEF SignOnInv, Refs, SessionFine, Known
    <3>0. Accounted(a, q)
        BY <3>1
    <3>2. CASE ~Kept(a)
        BY <1>1, <2>2, <3>0, <3>2 DEF Accounted, Ended
    <3>4. CASE Kept(a) /\ (session[t].era = account[a].era \/ account[a].spared)
        BY <2>2, <3>4 DEF Kept
    <3>3. CASE \E j \in Client : client[j].op = "detach" /\ client[j].account = a
      <4>1. PICK j \in Client : client[j].op = "detach" /\ client[j].account = a
          BY <3>3
      <4>2. CASE j = k
          BY <2>2, <4>1, <4>2 DEF Discharged, Ended
      <4>3. CASE j # k
          BY <1>1, <2>2, <4>1, <4>3
      <4> QED
          BY <4>2, <4>3
    <3> QED
        BY <2>2, <3>2, <3>3, <3>4 DEF SignOnInv, RevocationComplete, Live, At
  <2> QED
      BY <2>1, <2>2
<1> QED
    BY <1>1, <1>3, <1>4, <1>5 DEF Refs

(* A slot that keeps its sign-in or lets go of it, while the rows stay.     *)
LEMMA LoginsStep ==
    ASSUME SignOnInv, NEW k \in Client, NEW q \in Request, client' = [client EXCEPT ![k] = q],
           q.login \in {client[k].login, Nobody}, UNCHANGED <<login, opened>>
    PROVE  LoginOnce'
<1>1. client'[k] = q /\ \A j \in Client \ {k} : client'[j] = client[j]
    BY DEF SignOnInv, Types
<1>2. \A j \in Client : client'[j].login \in {client[j].login, Nobody}
    BY <1>1
<1>3. \A l \in Login, j \in Client : client'[j].login = l => client[j].login = l
    BY <1>2, Constants
<1> QED
    BY <1>3 DEF SignOnInv, LoginOnce

(* A step of a slot that is not about sign-ins.                             *)
LEMMA SlotStep ==
    ASSUME SignOnInv, NEW k \in Client, NEW q \in Request, client' = [client EXCEPT ![k] = q],
           q.login \in {client[k].login, Nobody}, UNCHANGED <<login, opened>>,
           account' \in [Account -> AccountType], session' \in [Token -> SessionType],
           SlotFine(account', q),
           \A a \in Account : account[a].state # "none" => account'[a].state # "none" /\ Accounted(a, q),
           \A t \in Token : \/ session'[t] = session[t]
                            \/ session'[t] = NoSession
                            \/ /\ Known(account', session'[t].account)
                               /\ session'[t].era = account'[session'[t].account].era,
           Discharged(client[k]),
           role' \in [Role -> {"none", "plain", "default"}], config' \in Config, TabOK', OneAccountPerPerson'
    PROVE  SignOnInv'
<1>1. client' \in [Client -> Request] /\ Refs' /\ RevocationComplete'
    BY DeskStep
<1>2. LoginOnce'
    BY LoginsStep
<1> QED
    BY <1>1, <1>2 DEF SignOnInv, Types

(* A step of a slot that changes nothing else but the tab.                  *)
LEMMA QuietStep ==
    ASSUME SignOnInv, NEW k \in Client, NEW q \in Request, client' = [client EXCEPT ![k] = q],
           q.login \in {client[k].login, Nobody}, SlotFine(account, q), client[k].op # "detach",
           UNCHANGED <<accounts, config, login, opened>>, TabOK'
    PROVE  SignOnInv'
<1>1. UNCHANGED <<account, role, session>>
    BY DEF accounts
<1>2. /\ account' \in [Account -> AccountType] /\ session' \in [Token -> SessionType]
      /\ role' \in [Role -> {"none", "plain", "default"}] /\ config' \in Config
    BY <1>1 DEF SignOnInv, Types
<1>3. OneAccountPerPerson'
    BY <1>1 DEF SignOnInv, OneAccountPerPerson
<1> QED
    BY <1>1, <1>2, <1>3, SlotStep DEF Accounted, Kept, Discharged

(* A step of no slot.                                                       *)
LEMMA StillStep ==
    ASSUME SignOnInv, UNCHANGED client,
           account' \in [Account -> AccountType], session' \in [Token -> SessionType],
           \A a \in Account : account[a].state # "none" => account'[a].state # "none" /\ Kept(a),
           \A t \in Token : session'[t] = session[t] \/ session'[t] = NoSession,
           role' \in [Role -> {"none", "plain", "default"}], config' \in Config, TabOK', OneAccountPerPerson',
           login' \in [Login -> LoginRow], opened' \in [Login -> Nat], LoginOnce'
    PROVE  SignOnInv'
<1>1. \A a : Known(account, a) => Known(account', a)
    BY DEF Known
<1>2. \A j \in Client : SlotFine(account', client'[j])
    BY <1>1 DEF SignOnInv, Refs, SlotFine
<1>3. \A t \in Token : SessionFine(account', session'[t])
    BY <1>1 DEF SignOnInv, Refs, SessionFine
<1>4. RevocationComplete'
  <2> SUFFICES ASSUME NEW t \in Token, session'[t] # NoSession
               PROVE  \/ session'[t].era = account'[session'[t].account].era
                      \/ account'[session'[t].account].spared
                      \/ \E j \in Client : client'[j].op = "detach" /\ client'[j].account = session'[t].account
      BY DEF RevocationComplete, Live, At
  <2>1. session'[t] = session[t] /\ Known(account, session[t].account)
      BY DEF SignOnInv, Refs, SessionFine
  <2> QED
      BY <2>1 DEF SignOnInv, RevocationComplete, Live, At, Known, Kept
<1> QED
    BY <1>2, <1>3, <1>4 DEF SignOnInv, Types, Refs

(* A step of the browser or of the login states.                            *)
LEMMA CalmStep ==
    ASSUME SignOnInv, UNCHANGED <<accounts, client, config>>, TabOK',
           login' \in [Login -> LoginRow], opened' \in [Login -> Nat], LoginOnce'
    PROVE  SignOnInv'
<1>1. UNCHANGED <<account, role, session>>
    BY DEF accounts
<1>2. OneAccountPerPerson'
    BY <1>1 DEF SignOnInv, OneAccountPerPerson
<1> QED
    BY <1>1, <1>2, StillStep DEF SignOnInv, Types, Kept

(* A step of the browser alone.                                             *)
LEMMA TabStep ==
    ASSUME SignOnInv, UNCHANGED <<accounts, client, config, login, opened>>, TabOK'
    PROVE  SignOnInv'
<1>1. LoginOnce'
    BY DEF SignOnInv, LoginOnce
<1> QED
    BY <1>1, CalmStep DEF SignOnInv, Types

LEMMA RefusedTab ==
    ASSUME SignOnInv, NEW k \in Client, Refused(k)
    PROVE  TabOK'
BY DEF SignOnInv, TabOK, Tab, Page, Refused

LEMMA SameTab ==
    ASSUME SignOnInv, UNCHANGED tab
    PROVE  TabOK'
BY DEF SignOnInv, TabOK

LEMMA SamePersons ==
    ASSUME SignOnInv, \A a \in Account : account'[a].person = account[a].person
    PROVE  OneAccountPerPerson'
BY DEF SignOnInv, OneAccountPerPerson

LEMMA ClosedIs ==
    ASSUME SignOnInv, NEW gone
    PROVE  /\ Closed(gone) \in [Token -> SessionType]
           /\ \A t \in Token : Closed(gone)[t] \in {session[t], NoSession}
           /\ \A t \in Token : Closed(gone)[t] # NoSession => Closed(gone)[t].account \notin gone
BY NoSessionIs DEF Closed, SignOnInv, Types

-----------------------------------------------------------------------------
(* The administrator's requests                                             *)

LEMMA VerifyPasswordInv ==
    ASSUME SignOnInv, NEW k \in Client, NEW a \in Account, VerifyPassword(k, a), UNCHANGED sso
    PROVE  SignOnInv'
<1> DEFINE q == [Idle EXCEPT !.op = "login", !.account = a]
<1>1. q \in Request /\ q.op = "login" /\ q.account = a /\ q.login = Nobody
    BY DEF Idle, Request
<1>2. client[k] = Idle /\ client' = [client EXCEPT ![k] = q] /\ UNCHANGED <<accounts, config, login, opened, tab>>
      /\ account[a].state # "none"
    BY DEF VerifyPassword, Begin, sso, Local, Exists
<1> HIDE DEF q
<1>3. SlotFine(account, q) /\ client[k].op # "detach"
    BY <1>1, <1>2, IdleIs DEF SlotFine, Known
<1> QED
    BY <1>1, <1>2, <1>3, QuietStep, SameTab

LEMMA ReadUserInv ==
    ASSUME SignOnInv, NEW k \in Client, NEW a \in Account, NEW wish \in BOOLEAN, ReadUser(k, a, wish), UNCHANGED sso
    PROVE  SignOnInv'
<1> DEFINE q == [Idle EXCEPT !.op = "user", !.account = a, !.active = Active(a), !.wish = wish]
<1>1. q \in Request /\ q.op = "user" /\ q.account = a /\ q.login = Nobody
    BY DEF Idle, Request, Active
<1>2. client[k] = Idle /\ client' = [client EXCEPT ![k] = q] /\ UNCHANGED <<accounts, config, login, opened, tab>>
      /\ account[a].state # "none"
    BY DEF ReadUser, Begin, sso, Exists
<1> HIDE DEF q
<1>3. SlotFine(account, q) /\ client[k].op # "detach"
    BY <1>1, <1>2, IdleIs DEF SlotFine, Known
<1> QED
    BY <1>1, <1>2, <1>3, QuietStep, SameTab

Revised(a) ==
    /\ account' \in [Account -> AccountType] /\ account'[a].state # "none"
    /\ account'[a].person = account[a].person /\ \A b \in Account \ {a} : account'[b] = account[b]

LEMMA Revision ==
    ASSUME SignOnInv, NEW a \in Account, account[a].state # "none",
           NEW state \in {"active", "inactive"}, NEW era \in Nat, NEW spared \in BOOLEAN,
           \/ account' = [account EXCEPT ![a].era = era]
           \/ account' = [account EXCEPT ![a].spared = spared]
           \/ account' = [account EXCEPT ![a].state = state, ![a].era = era]
           \/ account' = [account EXCEPT ![a].state = state, ![a].era = era, ![a].spared = spared]
    PROVE  Revised(a)
<1>1. account \in [Account -> AccountType]
    BY DEF SignOnInv, Types
<1> QED
    BY <1>1 DEF AccountType, Revised

(* A revocation: the era advances and slot k is about to detach.            *)
LEMMA RevocationStep ==
    ASSUME SignOnInv, NEW k \in Client, NEW a \in Account, NEW q \in Request, client' = [client EXCEPT ![k] = q],
           q.op = "detach", q.account = a, q.login = Nobody, client[k].op # "detach",
           account[a].state # "none", UNCHANGED <<role, session, config, login, opened, tab>>,
           Revised(a)
    PROVE  SignOnInv'
<1>2. /\ account' \in [Account -> AccountType] /\ account'[a].state # "none" /\ account'[a].person = account[a].person
      /\ \A b \in Account \ {a} : account'[b] = account[b]
    BY DEF Revised
<1>3. OneAccountPerPerson'
  <2>1. \A b \in Account : account'[b].person = account[b].person
      BY <1>2
  <2> QED
      BY <2>1, SamePersons
<1>4. SlotFine(account', q)
    BY <1>2 DEF SlotFine, Known
<1>5. \A b \in Account : account[b].state # "none" => account'[b].state # "none" /\ Accounted(b, q)
    BY <1>2 DEF Accounted, Kept
<1>6. TabOK' /\ session' \in [Token -> SessionType] /\ role' \in [Role -> {"none", "plain", "default"}] /\ config' \in Config
    BY SameTab DEF SignOnInv, Types
<1> QED
    BY <1>2, <1>3, <1>4, <1>5, <1>6, SlotStep DEF Discharged

LEMMA DetachSlot ==
    ASSUME NEW a \in Account
    PROVE  LET q == [Idle EXCEPT !.op = "detach", !.account = a] IN
           q \in Request /\ q.op = "detach" /\ q.account = a /\ q.login = Nobody
BY DEF Idle, Request

LEMMA ResetUserPasswordInv ==
    ASSUME SignOnInv, NEW k \in Client, NEW a \in Account, ResetUserPassword(k, a), UNCHANGED sso
    PROVE  SignOnInv'
<1> DEFINE q == [Idle EXCEPT !.op = "detach", !.account = a]
<1>1. q \in Request /\ q.op = "detach" /\ q.account = a /\ q.login = Nobody
    BY DetachSlot
<1>2. client[k] = Idle /\ client' = [client EXCEPT ![k] = q] /\ UNCHANGED <<role, session, config, login, opened, tab>>
      /\ account[a].state # "none" /\ account' = [account EXCEPT ![a].era = @ + 1]
    BY DEF ResetUserPassword, Begin, sso, Local, Exists
<1>3. Revised(a)
  <2>1. account[a].era + 1 \in Nat
      BY DEF SignOnInv, Types, AccountType
  <2> QED
      BY <1>2, <2>1, Revision
<1> HIDE DEF q
<1> QED
    BY <1>1, <1>2, <1>3, RevocationStep, IdleIs

LEMMA DeleteUserInv ==
    ASSUME SignOnInv, NEW k \in Client, NEW a \in Account, DeleteUser(k, a), UNCHANGED sso
    PROVE  SignOnInv'
<1> DEFINE q == [Idle EXCEPT !.op = "detach", !.account = a]
<1>1. q \in Request /\ q.op = "detach" /\ q.account = a /\ q.login = Nobody
    BY DetachSlot
<1>2. client[k] = Idle /\ client' = [client EXCEPT ![k] = q] /\ UNCHANGED <<role, session, config, login, opened, tab>>
      /\ account[a].state # "none" /\ account' = [account EXCEPT ![a].state = "inactive", ![a].era = @ + 1]
    BY DEF DeleteUser, Begin, sso, Exists
<1>3. Revised(a)
  <2>1. account[a].era + 1 \in Nat
      BY DEF SignOnInv, Types, AccountType
  <2> QED
      BY <1>2, <2>1, Revision
<1> HIDE DEF q
<1> QED
    BY <1>1, <1>2, <1>3, RevocationStep, IdleIs

LEMMA UpdateUserInv ==
    ASSUME SignOnInv, NEW k \in Client, UpdateUser(k), UNCHANGED sso
    PROVE  SignOnInv'
<1> DEFINE a == client[k].account
           off == Active(a) /\ ~client[k].wish
           detach == client[k].active /\ ~client[k].wish
           state == IF client[k].wish THEN "active" ELSE "inactive"
           era == IF off THEN account[a].era + 1 ELSE account[a].era
           spared == account[a].spared \/ (off /\ ~detach /\ SignedIn(a))
           q == [Idle EXCEPT !.op = "detach", !.account = a]
<1>1. a \in Account /\ account[a].state # "none" /\ client[k].op = "user"
    BY DEF SignOnInv, Refs, SlotFine, Holding, Known, UpdateUser, At
<1>2. UNCHANGED <<role, session, config, login, opened, tab>>
    BY DEF UpdateUser, sso
<1>3. account \in [Account -> AccountType] /\ state \in {"active", "inactive"} /\ era \in Nat /\ spared \in BOOLEAN
    BY <1>1 DEF SignOnInv, Types, AccountType, SignedIn, Active
<1>4. account' = [account EXCEPT ![a].state = state, ![a].era = era, ![a].spared = spared]
    BY DEF UpdateUser
<1>5. client' = [client EXCEPT ![k] = IF detach THEN q ELSE Idle]
    BY DEF UpdateUser, Await
<1>6. q \in Request /\ q.op = "detach" /\ q.account = a /\ q.login = Nobody
    BY <1>1, DetachSlot
<1>7. account'[a].era = era /\ account'[a].spared = spared
    BY <1>1, <1>3, <1>4 DEF AccountType
<1>8. Accounted(a, IF detach THEN q ELSE Idle)
  <2>1. CASE detach
      BY <1>6, <2>1 DEF Accounted
  <2>2. CASE ~detach /\ ~off
      BY <1>3, <1>7, <2>2 DEF Accounted, Kept, AccountType
  <2>3. CASE ~detach /\ off /\ SignedIn(a)
      BY <1>7, <2>3 DEF Accounted
  <2>4. CASE ~SignedIn(a)
      BY <1>2, <2>4 DEF Accounted, Ended, SignedIn
  <2> QED
      BY <2>1, <2>2, <2>3, <2>4
<1> HIDE DEF a, state, era, spared, q, off, detach
<1>9. Revised(a)
    BY <1>1, <1>3, <1>4, Revision
<1>10. \A b \in Account : /\ account'[b].person = account[b].person
                          /\ account[b].state # "none" =>
                                 account'[b].state # "none" /\ Accounted(b, IF detach THEN q ELSE Idle)
    BY <1>1, <1>8, <1>9 DEF Revised, Accounted, Kept
<1>11. /\ account' \in [Account -> AccountType] /\ session' \in [Token -> SessionType]
       /\ role' \in [Role -> {"none", "plain", "default"}] /\ config' \in Config /\ TabOK' /\ OneAccountPerPerson'
    BY <1>2, <1>9, <1>10, SameTab, SamePersons DEF SignOnInv, Types, Revised
<1>12. SlotFine(account', q)
    BY <1>1, <1>6, <1>9 DEF SlotFine, Known, Revised
<1>13. Discharged(client[k])
    BY <1>1 DEF Discharged
<1> QED
    BY <1>1, <1>2, <1>5, <1>6, <1>10, <1>11, <1>12, <1>13, IdleIs, SlotStep

LEMMA DetachUserInv ==
    ASSUME SignOnInv, NEW k \in Client, DetachUser(k), UNCHANGED sso
    PROVE  SignOnInv'
<1> DEFINE a == client[k].account
<1>1. /\ client' = [client EXCEPT ![k] = Idle] /\ client[k].op = "detach"
      /\ UNCHANGED <<role, config, login, opened, tab>>
    BY DEF DetachUser, Done, Await, At, sso
<1>2. \/ session' = Closed({a}) /\ account' = [account EXCEPT ![a].spared = FALSE]
      \/ UNCHANGED session /\ account' = [account EXCEPT ![a].spared = TRUE]
    BY DEF DetachUser, EndSessions
<1>3. a \in Account /\ account[a].state # "none" /\ account \in [Account -> AccountType]
    BY <1>1 DEF SignOnInv, Types, Refs, SlotFine, Holding, Known
<1> HIDE DEF a
<1>4. session' \in [Token -> SessionType] /\ \A t \in Token : session'[t] = session[t] \/ session'[t] = NoSession
    BY <1>2, ClosedIs DEF SignOnInv, Types
<1>5. Revised(a) /\ account'[a].era = account[a].era
  <2>1. PICK spared \in BOOLEAN : account' = [account EXCEPT ![a].spared = spared]
      BY <1>2
  <2>2. account'[a].era = account[a].era
      BY <1>3, <2>1 DEF AccountType
  <2>3. Revised(a)
      BY <1>3, <2>1, Revision
  <2> QED
      BY <2>2, <2>3
<1>6. account'[a].spared \/ Ended(a)
  <2>1. CASE session' = Closed({a})
      BY <2>1, ClosedIs DEF Ended
  <2>2. CASE account' = [account EXCEPT ![a].spared = TRUE]
      BY <1>3, <2>2 DEF AccountType
  <2> QED
      BY <1>2, <2>1, <2>2
<1>7. \A b \in Account : /\ account'[b].person = account[b].person
                         /\ account[b].state # "none" => account'[b].state # "none" /\ Accounted(b, Idle)
    BY <1>5, <1>6 DEF Revised, Accounted, Kept
<1>8. Discharged(client[k])
    BY <1>6 DEF Discharged, a
<1>9. /\ account' \in [Account -> AccountType] /\ role' \in [Role -> {"none", "plain", "default"}]
      /\ config' \in Config /\ TabOK' /\ OneAccountPerPerson'
    BY <1>1, <1>5, <1>7, SameTab, SamePersons DEF SignOnInv, Types, Revised
<1> QED
    BY <1>1, <1>4, <1>7, <1>8, <1>9, IdleIs, SlotStep

LEMMA InvalidateRoleSessionsInv ==
    ASSUME SignOnInv, NEW k \in Client, InvalidateRoleSessions(k), UNCHANGED sso
    PROVE  SignOnInv'
<1> DEFINE gone == {a \in Account \ {Admin} : client[k].role \in account[a].roles}
<1>1. /\ client' = [client EXCEPT ![k] = Idle] /\ session' \in {Closed(gone), session} /\ client[k].op = "role sessions"
      /\ UNCHANGED <<account, role, config, login, opened, tab>>
    BY DEF InvalidateRoleSessions, Done, Await, At, sso
<1> HIDE DEF gone
<1>2. /\ session' \in [Token -> SessionType] /\ \A t \in Token : session'[t] = session[t] \/ session'[t] = NoSession
  <2>1. CASE session' = Closed(gone)
      BY <2>1, ClosedIs
  <2>2. CASE session' = session
      BY <2>2 DEF SignOnInv, Types
  <2> QED
      BY <1>1, <2>1, <2>2
<1>3. /\ Discharged(client[k]) /\ UNCHANGED <<login, opened>> /\ client' = [client EXCEPT ![k] = Idle]
      /\ \A a \in Account : account[a].state # "none" => account'[a].state # "none" /\ Accounted(a, Idle)
    BY <1>1 DEF Discharged, Accounted, Kept
<1>4. /\ account' \in [Account -> AccountType] /\ role' \in [Role -> {"none", "plain", "default"}]
      /\ config' \in Config /\ TabOK' /\ OneAccountPerPerson'
    BY <1>1, SameTab, SamePersons DEF SignOnInv, Types
<1> QED
    BY <1>2, <1>3, <1>4, IdleIs, SlotStep

LEMMA InsertSessionInv ==
    ASSUME SignOnInv, NEW k \in Client, InsertSession(k), UNCHANGED sso
    PROVE  SignOnInv'
<1> DEFINE a == client[k].account
           s == [account |-> a, era |-> account[a].era]
<1>1. /\ client' = [client EXCEPT ![k] = Idle] /\ session' = [session EXCEPT ![Password] = s]
      /\ client[k].op = "login" /\ UNCHANGED <<account, role, config, login, opened, tab>>
    BY DEF InsertSession, CreateSession, Done, Await, At, sso
<1>2. Known(account, a)
    BY <1>1 DEF SignOnInv, Refs, SlotFine, Holding
<1>3. s \in SessionType /\ s.account = a /\ s.era = account[a].era
    BY <1>2 DEF SessionType, Known, SignOnInv, Types, AccountType
<1> HIDE DEF s
<1>4. /\ session' \in [Token -> SessionType] /\ \A t \in Token : session'[t] = session[t] \/ session'[t] = s
    BY <1>1, <1>3 DEF SignOnInv, Types
<1>5. /\ account' \in [Account -> AccountType] /\ role' \in [Role -> {"none", "plain", "default"}]
      /\ config' \in Config /\ TabOK' /\ OneAccountPerPerson'
    BY <1>1, SameTab, SamePersons DEF SignOnInv, Types
<1> QED
    BY <1>1, <1>2, <1>3, <1>4, <1>5, IdleIs, SlotStep DEF Accounted, Kept, Discharged

LEMMA RevokeSessionInv ==
    ASSUME SignOnInv, NEW t \in Token, RevokeSession(t), UNCHANGED sso
    PROVE  SignOnInv'
<1>1. session' = [session EXCEPT ![t] = NoSession] /\ UNCHANGED <<account, role, client, config, login, opened, tab>>
    BY DEF RevokeSession, sso
<1>2. session' \in [Token -> SessionType] /\ \A x \in Token : session'[x] = session[x] \/ session'[x] = NoSession
    BY <1>1, NoSessionIs DEF SignOnInv, Types
<1>3. TabOK' /\ OneAccountPerPerson' /\ LoginOnce'
    BY <1>1, SameTab, SamePersons DEF SignOnInv, LoginOnce
<1> QED
    BY <1>1, <1>2, <1>3, StillStep DEF SignOnInv, Types, Kept

(* An account that did not exist is created for a person who has none.      *)
LEMMA Created ==
    ASSUME SignOnInv, NEW a, ~Exists(a), NEW new \in AccountType, account' = [account EXCEPT ![a] = new],
           new.person = Nobody \/ ~Taken(new.person)
    PROVE  /\ account' \in [Account -> AccountType] /\ OneAccountPerPerson'
           /\ \A b \in Account : account[b].state # "none" => account'[b] = account[b]
           /\ a \in Account => account'[a] = new
<1>1. account \in [Account -> AccountType]
    BY DEF SignOnInv, Types
<1>2. /\ account' \in [Account -> AccountType]
      /\ \A b \in Account : account'[b] = IF b = a THEN new ELSE account[b]
    BY <1>1
<1>3. \A b \in Account : account[b].state # "none" => account'[b] = account[b]
    BY <1>2 DEF Exists
<1>4. OneAccountPerPerson'
    BY <1>2 DEF SignOnInv, OneAccountPerPerson, Taken
<1> QED
    BY <1>2, <1>3, <1>4

LEMMA CreateUserInv ==
    ASSUME SignOnInv, NEW roles \in Grants, CreateUser(roles), UNCHANGED sso
    PROVE  SignOnInv'
<1> DEFINE new == [NoUser EXCEPT !.state = "active", !.roles = roles]
<1>1. new \in AccountType /\ new.person = Nobody
    BY Constants DEF AccountType, NoUser
<1>2. /\ ~Exists(NewAccount) /\ account' = [account EXCEPT ![NewAccount] = new]
      /\ UNCHANGED <<role, session, client, config, login, opened, tab>>
    BY DEF CreateUser, sso
<1> HIDE DEF new
<1>3. /\ account' \in [Account -> AccountType] /\ OneAccountPerPerson'
      /\ \A b \in Account : account[b].state # "none" => account'[b] = account[b]
    BY <1>1, <1>2, Created
<1>4. TabOK' /\ LoginOnce'
    BY <1>2, SameTab DEF SignOnInv, LoginOnce
<1> QED
    BY <1>2, <1>3, <1>4, StillStep DEF SignOnInv, Types, Kept

LEMMA SetUserRolesInv ==
    ASSUME SignOnInv, NEW a \in Account, NEW roles \in Grants, SetUserRoles(a, roles), UNCHANGED sso
    PROVE  SignOnInv'
<1>1. account' = [account EXCEPT ![a].roles = roles] /\ UNCHANGED <<role, session, client, config, login, opened, tab>>
    BY DEF SetUserRoles, sso
<1>2. account \in [Account -> AccountType] /\ roles \subseteq Role
    BY Constants DEF SignOnInv, Types
<1>3. /\ account' \in [Account -> AccountType]
      /\ \A b \in Account : /\ account'[b].state = account[b].state /\ Kept(b)
                            /\ account'[b].person = account[b].person
    BY <1>1, <1>2 DEF AccountType, Kept
<1>4. TabOK' /\ OneAccountPerPerson' /\ LoginOnce'
    BY <1>1, <1>3, SameTab, SamePersons DEF SignOnInv, LoginOnce
<1> QED
    BY <1>1, <1>3, <1>4, StillStep DEF SignOnInv, Types, Kept

LEMMA WithDefaultIs ==
    ASSUME SignOnInv, NEW r \in Role, NEW default \in BOOLEAN
    PROVE  WithDefault(r, default) \in [Role -> {"none", "plain", "default"}]
BY DEF SignOnInv, Types, WithDefault

LEMMA CreateRoleInv ==
    ASSUME SignOnInv, NEW r \in Role, NEW default \in BOOLEAN, CreateRole(r, default), UNCHANGED sso
    PROVE  SignOnInv'
<1>1. role' = WithDefault(r, default) /\ UNCHANGED <<account, session, client, config, login, opened, tab>>
    BY DEF CreateRole, sso
<1>2. TabOK' /\ OneAccountPerPerson' /\ LoginOnce' /\ role' \in [Role -> {"none", "plain", "default"}]
    BY <1>1, SameTab, SamePersons, WithDefaultIs DEF SignOnInv, LoginOnce
<1> QED
    BY <1>1, <1>2, StillStep DEF SignOnInv, Types, Kept

LEMMA UpdateRoleInv ==
    ASSUME SignOnInv, NEW k \in Client, NEW r \in Role, NEW default \in BOOLEAN, UpdateRole(k, r, default), UNCHANGED sso
    PROVE  SignOnInv'
<1> DEFINE q == [Idle EXCEPT !.op = "role sessions", !.role = r]
<1>1. q \in Request /\ q.op = "role sessions" /\ q.login = Nobody
    BY DEF Idle, Request
<1>2. /\ client[k] = Idle /\ client' = [client EXCEPT ![k] = q] /\ role' = WithDefault(r, default)
      /\ UNCHANGED <<account, session, config, login, opened, tab>>
    BY DEF UpdateRole, Begin, sso
<1> HIDE DEF q
<1>3. /\ account' \in [Account -> AccountType] /\ session' \in [Token -> SessionType]
      /\ role' \in [Role -> {"none", "plain", "default"}]
      /\ config' \in Config /\ TabOK' /\ OneAccountPerPerson'
    BY <1>2, SameTab, SamePersons, WithDefaultIs DEF SignOnInv, Types
<1>4. SlotFine(account', q) /\ client[k].op # "detach"
    BY <1>1, <1>2, IdleIs DEF SlotFine, Holding
<1> QED
    BY <1>1, <1>2, <1>3, <1>4, SlotStep DEF Accounted, Kept, Discharged

LEMMA ReadRoleInv ==
    ASSUME SignOnInv, NEW k \in Client, NEW r \in Role, ReadRole(k, r), UNCHANGED sso
    PROVE  SignOnInv'
<1> DEFINE q == [Idle EXCEPT !.op = "count role", !.role = r]
<1>1. q \in Request /\ q.op = "count role" /\ q.login = Nobody
    BY DEF Idle, Request
<1>2. client[k] = Idle /\ client' = [client EXCEPT ![k] = q] /\ UNCHANGED <<accounts, config, login, opened, tab>>
    BY DEF ReadRole, Begin, sso
<1> HIDE DEF q
<1>3. SlotFine(account, q) /\ client[k].op # "detach"
    BY <1>1, <1>2, IdleIs DEF SlotFine, Holding
<1> QED
    BY <1>1, <1>2, <1>3, QuietStep, SameTab

LEMMA CountRoleInv ==
    ASSUME SignOnInv, NEW k \in Client, NEW inUse, CountRole(k, inUse), UNCHANGED sso
    PROVE  SignOnInv'
<1> DEFINE q == [client[k] EXCEPT !.op = "delete role"]
<1>0. client[k] \in Request /\ client[k].op = "count role"
    BY DEF SignOnInv, Types, CountRole, At
<1>1. q \in Request /\ q.op = "delete role" /\ q.login = client[k].login
    BY <1>0 DEF Request
<1>2. /\ client' = [client EXCEPT ![k] = q] \/ client' = [client EXCEPT ![k] = Idle]
      /\ UNCHANGED <<accounts, config, login, opened, tab>>
    BY DEF CountRole, Await, Done, sso
<1> HIDE DEF q
<1>3. SlotFine(account, q)
    BY <1>1 DEF SlotFine, Holding
<1> QED
    BY <1>0, <1>1, <1>2, <1>3, QuietStep, SameTab, IdleIs

LEMMA DeleteRoleInv ==
    ASSUME SignOnInv, NEW k \in Client, NEW inUse, DeleteRole(k, inUse), UNCHANGED <<login, opened, tab>>,
           config' = IF role' # role THEN Unmapped(client[k].role) ELSE config
    PROVE  SignOnInv'
<1> DEFINE r == client[k].role
<1>1. client' = [client EXCEPT ![k] = Idle] /\ client[k].op = "delete role" /\ UNCHANGED session
    BY DEF DeleteRole, Done, Await, At
<1>2. \/ UNCHANGED <<account, role>>
      \/ /\ role' = [role EXCEPT ![r] = "none"]
         /\ account' = [a \in Account |-> [account[a] EXCEPT !.roles = @ \ {r}]]
    BY DEF DeleteRole
<1>3. account \in [Account -> AccountType] /\ role \in [Role -> {"none", "plain", "default"}] /\ config \in Config
    BY DEF SignOnInv, Types
<1> HIDE DEF r
<1>4. /\ account' \in [Account -> AccountType]
      /\ \A b \in Account : /\ account'[b].state = account[b].state /\ Kept(b)
                            /\ account'[b].person = account[b].person
  <2>1. CASE UNCHANGED <<account, role>>
      BY <1>3, <2>1 DEF Kept
  <2>2. CASE account' = [a \in Account |-> [account[a] EXCEPT !.roles = @ \ {r}]]
      BY <1>3, <2>2 DEF AccountType, Kept
  <2> QED
      BY <1>2, <2>1, <2>2
<1>5. role' \in [Role -> {"none", "plain", "default"}]
    BY <1>2, <1>3
<1>6. config' \in Config
    BY <1>3 DEF Unmapped, Config
<1>7. TabOK' /\ OneAccountPerPerson' /\ session' \in [Token -> SessionType]
    BY <1>1, <1>4, SameTab, SamePersons DEF SignOnInv, Types
<1> QED
    BY <1>1, <1>4, <1>5, <1>6, <1>7, IdleIs, SlotStep DEF Accounted, Kept, Discharged

-----------------------------------------------------------------------------
(* The callback                                                             *)

LEMMA FailInv ==
    ASSUME SignOnInv, NEW k \in Client, Fail(k), client[k].op # "detach",
           UNCHANGED <<accounts, config, login, opened>>
    PROVE  SignOnInv'
<1>1. client' = [client EXCEPT ![k] = Idle] /\ TabOK'
    BY RefusedTab DEF Fail, Done, Await
<1> QED
    BY <1>1, QuietStep, IdleIs

LEMMA ExchangeFailsInv ==
    ASSUME SignOnInv, NEW k \in Client, ExchangeFails(k)
    PROVE  SignOnInv'
<1>1. client[k].op # "detach" /\ Fail(k) /\ UNCHANGED <<accounts, config, login, opened>>
    BY DEF ExchangeFails, At
<1> QED
    BY <1>1, FailInv

LEMMA ResolveFailsInv ==
    ASSUME SignOnInv, NEW k \in Client, ResolveFails(k)
    PROVE  SignOnInv'
<1>1. client[k].op # "detach" /\ Fail(k) /\ UNCHANGED <<accounts, config, login, opened>>
    BY DEF ResolveFails, At
<1> QED
    BY <1>1, FailInv

LEMMA ProvisionFailsInv ==
    ASSUME SignOnInv, NEW k \in Client, ProvisionFails(k)
    PROVE  SignOnInv'
<1>1. client[k].op # "detach" /\ Fail(k) /\ UNCHANGED <<accounts, config, login, opened>>
    BY DEF ProvisionFails, At
<1> QED
    BY <1>1, FailInv

LEMMA ExchangeInv ==
    ASSUME SignOnInv, NEW k \in Client, NEW p \in Person, Exchange(k, p)
    PROVE  SignOnInv'
<1> DEFINE q == [client[k] EXCEPT !.op = "resolve", !.person = p, !.auto = config.auto, !.role = config.role]
<1>0. /\ client[k] \in Request /\ client[k].op = "exchange"
      /\ config.auto \in BOOLEAN /\ config.role \in Role \cup {NoRole}
    BY DEF SignOnInv, Types, Exchange, At, Config
<1>1. q \in Request /\ q.op = "resolve" /\ q.login = client[k].login
    BY <1>0 DEF Request
<1>2. client' = [client EXCEPT ![k] = q] /\ UNCHANGED <<accounts, config, login, opened, tab>>
    BY DEF Exchange, Await, sso
<1> HIDE DEF q
<1>3. SlotFine(account, q)
    BY <1>1 DEF SlotFine, Holding
<1> QED
    BY <1>0, <1>1, <1>2, <1>3, QuietStep, SameTab

LEMMA PresentTokenInv ==
    ASSUME SignOnInv, NEW k \in Client, NEW p \in Person, PresentToken(k, p)
    PROVE  SignOnInv'
<1> DEFINE q == [Idle EXCEPT !.op = "resolve", !.person = p, !.auto = config.auto, !.role = config.role]
<1>0. config.auto \in BOOLEAN /\ config.role \in Role \cup {NoRole}
    BY DEF SignOnInv, Types, Config
<1>1. q \in Request /\ q.op = "resolve" /\ q.login = Nobody
    BY <1>0 DEF Request, Idle
<1>2. client[k] = Idle /\ client' = [client EXCEPT ![k] = q] /\ UNCHANGED <<accounts, config, login, opened, tab>>
    BY DEF PresentToken, Begin, sso
<1> HIDE DEF q
<1>3. SlotFine(account, q) /\ client[k].op # "detach"
    BY <1>1, <1>2, IdleIs DEF SlotFine, Holding
<1> QED
    BY <1>1, <1>2, <1>3, QuietStep, SameTab

LEMMA FallbackIs ==
    ASSUME NEW k
    PROVE  Fallback(k) \subseteq Role
BY DEF Fallback, Roles

LEMMA OpeningIs ==
    ASSUME SignOnInv, NEW k \in Client, NEW a, NEW table, Known(table, a)
    PROVE  /\ Opening(k, a) \in Request /\ Opening(k, a).login \in {client[k].login, Nobody}
           /\ SlotFine(table, Opening(k, a)) /\ Opening(k, a).op # "detach"
<1>0. client[k] \in Request
    BY DEF SignOnInv, Types
<1>1. CASE client[k].login = Nobody
    BY <1>1, IdleIs DEF Opening
<1>2. CASE client[k].login # Nobody
  <2> DEFINE q == [Idle EXCEPT !.op = "open", !.login = client[k].login, !.account = a]
  <2>1. client[k].login \in Login /\ a \in Account
      BY <1>0, <1>2 DEF Request, Known
  <2>2. q \in Request /\ q.op = "open" /\ q.login = client[k].login /\ q.account = a
      BY <2>1 DEF Request, Idle
  <2>3. Opening(k, a) = q
      BY <1>2 DEF Opening
  <2> HIDE DEF q
  <2> QED
      BY <2>1, <2>2, <2>3 DEF SlotFine
<1> QED
    BY <1>1, <1>2

LEMMA ResolveFoundInv ==
    ASSUME SignOnInv, NEW k \in Client, NEW a \in Account, ResolveFound(k, a)
    PROVE  SignOnInv'
<1> DEFINE q == [Idle EXCEPT !.op = "repair", !.login = client[k].login, !.account = a, !.roles = Fallback(k)]
<1>0. client[k] \in Request /\ client[k].op = "resolve" /\ Known(account, a)
    BY DEF SignOnInv, Types, ResolveFound, At, Found, Active, Known
<1>1. client[k].login \in Login \cup {Nobody} /\ Fallback(k) \subseteq Role
    BY <1>0, FallbackIs DEF Request
<1>2. q \in Request /\ q.op = "repair" /\ q.login = client[k].login /\ q.account = a
    BY <1>1 DEF Request, Idle
<1>3. /\ client' = [client EXCEPT ![k] = q] \/ client' = [client EXCEPT ![k] = Opening(k, a)]
      /\ UNCHANGED <<accounts, config, login, opened, tab>>
    BY DEF ResolveFound, Await, sso
<1> HIDE DEF q
<1>4. SlotFine(account, q)
    BY <1>0, <1>2 DEF SlotFine
<1> QED
    BY <1>0, <1>2, <1>3, <1>4, OpeningIs, QuietStep, SameTab

LEMMA RepairRolesInv ==
    ASSUME SignOnInv, NEW k \in Client, RepairRoles(k)
    PROVE  SignOnInv'
<1> DEFINE a == client[k].account
           given == client[k].roles \cap Roles
<1>1. /\ client[k].op = "repair" /\ client' = [client EXCEPT ![k] = Opening(k, a)]
      /\ account' = [account EXCEPT ![a].roles = @ \cup given]
      /\ UNCHANGED <<role, session, config, login, opened, tab>>
    BY DEF RepairRoles, Await, At, sso
<1>2. a \in Account /\ account[a].state # "none"
    BY <1>1 DEF SignOnInv, Refs, SlotFine, Holding, Known
<1>3. given \subseteq Role /\ account \in [Account -> AccountType]
    BY DEF Roles, SignOnInv, Types
<1> HIDE DEF a, given
<1>4. /\ account' \in [Account -> AccountType]
      /\ \A b \in Account : /\ account'[b].state = account[b].state /\ Kept(b)
                            /\ account'[b].person = account[b].person
    BY <1>1, <1>2, <1>3 DEF AccountType, Kept
<1>5. Known(account', a)
    BY <1>2, <1>4 DEF Known
<1>6. /\ session' \in [Token -> SessionType] /\ role' \in [Role -> {"none", "plain", "default"}]
      /\ config' \in Config /\ TabOK' /\ OneAccountPerPerson'
    BY <1>1, <1>4, SameTab, SamePersons DEF SignOnInv, Types
<1>7. /\ Opening(k, a) \in Request /\ Opening(k, a).login \in {client[k].login, Nobody}
      /\ SlotFine(account', Opening(k, a))
    BY <1>5, OpeningIs
<1> QED
    BY <1>1, <1>4, <1>6, <1>7, SlotStep DEF Accounted, Kept, Discharged

LEMMA ResolveNewInv ==
    ASSUME SignOnInv, NEW k \in Client, NEW mapped \in SUBSET config.mapped, ResolveNew(k, mapped)
    PROVE  SignOnInv'
<1> DEFINE roles == IF mapped # {} THEN mapped ELSE Fallback(k)
           q == [client[k] EXCEPT !.op = "provision", !.roles = roles, !.auto = FALSE, !.role = NoRole]
<1>0. client[k] \in Request /\ client[k].op = "resolve" /\ roles \subseteq Role
    BY FallbackIs DEF SignOnInv, Types, ResolveNew, At, Config
<1>1. client' = [client EXCEPT ![k] = q] /\ UNCHANGED <<accounts, config, login, opened, tab>>
    BY DEF ResolveNew, Await, sso
<1> HIDE DEF roles
<1>2. q \in Request /\ q.op = "provision" /\ q.login = client[k].login
    BY <1>0 DEF Request
<1> HIDE DEF q
<1>3. SlotFine(account, q)
    BY <1>2 DEF SlotFine, Holding
<1> QED
    BY <1>0, <1>1, <1>2, <1>3, QuietStep, SameTab

LEMMA ProvisionUserInv ==
    ASSUME SignOnInv, NEW k \in Client, NEW a \in Account, ProvisionUser(k, a)
    PROVE  SignOnInv'
<1> DEFINE new == [NoUser EXCEPT !.state = "active", !.person = client[k].person, !.roles = client[k].roles]
<1>0. client[k] \in Request /\ client[k].op = "provision" /\ ~Taken(client[k].person)
    BY DEF SignOnInv, Types, ProvisionUser, At
<1>1. new \in AccountType /\ new.person = client[k].person /\ new.state = "active"
    BY <1>0 DEF Request, AccountType, NoUser
<1>2. /\ ~Exists(a) /\ account' = [account EXCEPT ![a] = new] /\ client' = [client EXCEPT ![k] = Opening(k, a)]
      /\ UNCHANGED <<role, session, config, login, opened, tab>>
    BY DEF ProvisionUser, Insert, Await, sso
<1> HIDE DEF new
<1>3. /\ account' \in [Account -> AccountType] /\ OneAccountPerPerson'
      /\ \A b \in Account : account[b].state # "none" => account'[b] = account[b]
      /\ account'[a] = new
    BY <1>0, <1>1, <1>2, Created
<1>4. Known(account', a)
    BY <1>1, <1>3 DEF Known
<1>5. /\ session' \in [Token -> SessionType] /\ role' \in [Role -> {"none", "plain", "default"}]
      /\ config' \in Config /\ TabOK'
    BY <1>2, SameTab DEF SignOnInv, Types
<1>6. /\ Opening(k, a) \in Request /\ Opening(k, a).login \in {client[k].login, Nobody}
      /\ SlotFine(account', Opening(k, a))
    BY <1>4, OpeningIs
<1> QED
    BY <1>0, <1>2, <1>3, <1>5, <1>6, SlotStep DEF Accounted, Kept, Discharged

(* The session of a sign-in: its slot lets go of it as it is opened.        *)
LEMMA OpenSessionInv ==
    ASSUME SignOnInv, NEW k \in Client, OpenSession(k)
    PROVE  SignOnInv'
<1> DEFINE a == client[k].account
           l == client[k].login
           s == [account |-> a, era |-> account[a].era]
<1>1. /\ client[k].op = "open" /\ client' = [client EXCEPT ![k] = Idle] /\ session' = [session EXCEPT ![l] = s]
      /\ opened' = [opened EXCEPT ![l] = @ + 1] /\ UNCHANGED <<account, role, config, login>>
    BY DEF OpenSession, CreateSession, Done, Await, At
<1>2. Known(account, a) /\ l \in Login
    BY <1>1 DEF SignOnInv, Refs, SlotFine, Holding
<1>3. TabOK'
  <2>1. CASE Waiting(k) /\ Active(a)
    <3>1. tab' = [tab EXCEPT !.page = "loading", !.cookie = l, !.login = NoLogin]
        BY <2>1 DEF OpenSession
    <3>2. l \in Token /\ tab \in Tab
        BY <1>2, Constants DEF SignOnInv, TabOK
    <3> HIDE DEF l
    <3> QED
        BY <3>1, <3>2 DEF TabOK, Tab, Page
  <2>2. CASE ~(Waiting(k) /\ Active(a))
      BY <2>2, RefusedTab DEF OpenSession
  <2> QED
      BY <2>1, <2>2
<1>4. s \in SessionType /\ s.account = a /\ s.era = account[a].era
    BY <1>2 DEF SessionType, Known, SignOnInv, Types, AccountType
<1>5. \A j \in Client : client'[j] = IF j = k THEN Idle ELSE client[j]
    BY <1>1 DEF SignOnInv, Types
<1>6. /\ opened' \in [Login -> Nat] /\ opened'[l] = opened[l] + 1
      /\ \A m \in Login \ {l} : opened'[m] = opened[m]
    BY <1>1, <1>2 DEF SignOnInv, Types
<1>7. opened[l] = 0 /\ login[l].state = "none" /\ \A j \in Client \ {k} : client[j].login # l
  <2>1. /\ login[l].state # "none" => \A j \in Client : client[j].login # l
        /\ \A j \in Client : client[j].login = l => opened[l] = 0
        /\ \A i, j \in Client : client[i].login = l /\ client[j].login = l => i = j
      BY <1>2 DEF SignOnInv, LoginOnce
  <2>2. \A j \in Client : client[j].login = l => j = k
      BY <2>1
  <2> QED
      BY <2>1, <2>2
<1>8. LoginOnce'
  <2> SUFFICES ASSUME NEW m \in Login
               PROVE  /\ opened'[m] <= 1
                      /\ login'[m].state # "none" => opened'[m] = 0 /\ \A j \in Client : client'[j].login # m
                      /\ \A j \in Client : client'[j].login = m => opened'[m] = 0
                      /\ \A i, j \in Client : client'[i].login = m /\ client'[j].login = m => i = j
      BY DEF LoginOnce
  <2>1. \A j \in Client : client'[j].login = m => j # k /\ client[j].login = m
      BY <1>5, IdleIs, Constants
  <2>2. CASE m = l
    <3>1. \A j \in Client : client'[j].login # l
        BY <1>7, <2>1, <2>2
    <3> QED
        BY <1>1, <1>6, <1>7, <2>2, <3>1
  <2>3. CASE m # l
      BY <1>1, <1>6, <2>1, <2>3 DEF SignOnInv, LoginOnce
  <2> QED
      BY <2>2, <2>3
<1> HIDE DEF s
<1>9. /\ session' \in [Token -> SessionType] /\ \A t \in Token : session'[t] = session[t] \/ session'[t] = s
    BY <1>1, <1>4 DEF SignOnInv, Types
<1>10. client' \in [Client -> Request] /\ Refs' /\ RevocationComplete'
  <2>1. account' \in [Account -> AccountType] /\ SlotFine(account', Idle) /\ Idle \in Request
      BY <1>1, IdleIs DEF SignOnInv, Types
  <2> HIDE DEF a, l
  <2>2. \A t \in Token : session'[t] = session[t] \/ (/\ Known(account', session'[t].account)
                                                    /\ session'[t].era = account'[session'[t].account].era)
      BY <1>1, <1>2, <1>4, <1>9
  <2> QED
      BY <1>1, <1>9, <2>1, <2>2, DeskStep DEF Accounted, Kept, Discharged
<1>11. OneAccountPerPerson'
    BY <1>1, SamePersons
<1> QED
    BY <1>1, <1>3, <1>6, <1>8, <1>9, <1>10, <1>11 DEF SignOnInv, Types

-----------------------------------------------------------------------------
(* Login states and the configuration                                       *)

LEMMA SaveInv ==
    ASSUME SignOnInv, NEW c \in Configs, Save(c)
    PROVE  SignOnInv'
<1>1. config' = c /\ UNCHANGED <<account, role, session, client, login, opened, tab>>
    BY DEF Save, accounts
<1>2. config' \in Config /\ TabOK' /\ OneAccountPerPerson' /\ LoginOnce'
    BY <1>1, Constants, SameTab, SamePersons DEF SignOnInv, LoginOnce
<1> QED
    BY <1>1, <1>2, StillStep DEF SignOnInv, Types, Kept

(* A row is inserted for a sign-in that nothing refers to.                  *)
LEMMA Started ==
    ASSUME SignOnInv, NEW l \in Login, Unused(l), NEW asked \in BOOLEAN,
           login' = [login EXCEPT ![l] = StateRow(asked)], opened' = [opened EXCEPT ![l] = 0], UNCHANGED client
    PROVE  login' \in [Login -> LoginRow] /\ opened' \in [Login -> Nat] /\ LoginOnce'
<1>1. StateRow(asked) \in LoginRow
    BY DEF StateRow, LoginRow, SignOnInv, Types, Config
<1>2. /\ login' \in [Login -> LoginRow] /\ opened' \in [Login -> Nat] /\ opened'[l] = 0
      /\ \A m \in Login \ {l} : opened'[m] = opened[m] /\ login'[m] = login[m]
    BY <1>1 DEF SignOnInv, Types
<1>3. \A k \in Client : client[k].login # l
    BY DEF Unused
<1>4. LoginOnce'
    BY <1>2, <1>3 DEF SignOnInv, LoginOnce
<1> QED
    BY <1>2, <1>4

LEMMA StartElsewhereInv ==
    ASSUME SignOnInv, NEW l \in Login, StartElsewhere(l)
    PROVE  SignOnInv'
<1>1. /\ Unused(l) /\ login' = [login EXCEPT ![l] = StateRow(FALSE)] /\ opened' = [opened EXCEPT ![l] = 0]
      /\ UNCHANGED <<accounts, client, config, tab>>
    BY DEF StartElsewhere
<1>2. login' \in [Login -> LoginRow] /\ opened' \in [Login -> Nat] /\ LoginOnce'
    BY <1>1, Started
<1> QED
    BY <1>1, <1>2, CalmStep, SameTab

LEMMA StartInv ==
    ASSUME SignOnInv, NEW l \in Login, Start(l)
    PROVE  SignOnInv'
<1>1. /\ Unused(l) /\ login' = [login EXCEPT ![l] = StateRow(tab.silent)] /\ opened' = [opened EXCEPT ![l] = 0]
      /\ UNCHANGED <<accounts, client, config>> /\ tab.silent \in BOOLEAN
    BY DEF Start, SignOnInv, TabOK, Tab
<1>2. login' \in [Login -> LoginRow] /\ opened' \in [Login -> Nat] /\ LoginOnce'
    BY <1>1, Started
<1>3. TabOK'
    BY DEF Start, SignOnInv, TabOK, Tab, Page
<1> QED
    BY <1>1, <1>2, <1>3, CalmStep

(* A row leaves, or grows too old.                                          *)
LEMMA RowsGo ==
    ASSUME SignOnInv, login' \in [Login -> LoginRow], UNCHANGED <<client, opened>>,
           \A l \in Login : login'[l].state # "none" => login[l].state # "none"
    PROVE  LoginOnce'
BY DEF SignOnInv, LoginOnce

LEMMA ExpireInv ==
    ASSUME SignOnInv, NEW l \in Login, Expire(l)
    PROVE  SignOnInv'
<1>1. /\ login' = [login EXCEPT ![l].state = "expired"] /\ login[l].state = "waiting"
      /\ UNCHANGED <<accounts, client, config, opened, tab>>
    BY DEF Expire
<1>2. login \in [Login -> LoginRow]
    BY DEF SignOnInv, Types
<1>3. login' \in [Login -> LoginRow] /\ \A m \in Login : login'[m].state # "none" => login[m].state # "none"
    BY <1>1, <1>2 DEF LoginRow
<1>4. LoginOnce'
    BY <1>1, <1>3, RowsGo
<1> QED
    BY <1>1, <1>3, <1>4, CalmStep, SameTab DEF SignOnInv, Types

LEMMA NoStateIs == NoState \in LoginRow /\ NoState.state = "none"
BY DEF NoState, LoginRow

LEMMA RemoveExpiredInv ==
    ASSUME SignOnInv, RemoveExpired
    PROVE  SignOnInv'
<1>1. /\ login' = [l \in Login |-> IF login[l].state = "expired" THEN NoState ELSE login[l]]
      /\ UNCHANGED <<accounts, client, config, opened, tab>>
    BY DEF RemoveExpired
<1>2. login' \in [Login -> LoginRow] /\ \A m \in Login : login'[m].state # "none" => login[m].state # "none"
    BY <1>1, NoStateIs DEF SignOnInv, Types
<1>3. LoginOnce'
    BY <1>1, <1>2, RowsGo
<1> QED
    BY <1>1, <1>2, <1>3, CalmStep, SameTab DEF SignOnInv, Types

LEMMA AbandonLoginInv ==
    ASSUME SignOnInv, AbandonLogin
    PROVE  SignOnInv'
<1>1. login' = [login EXCEPT ![tab.login] = NoState] /\ UNCHANGED <<accounts, client, config, opened>>
    BY DEF AbandonLogin
<1>2. login' \in [Login -> LoginRow] /\ \A m \in Login : login'[m].state # "none" => login[m].state # "none"
    BY <1>1, NoStateIs DEF SignOnInv, Types
<1>3. LoginOnce'
    BY <1>1, <1>2, RowsGo
<1>4. TabOK'
    BY DEF AbandonLogin, RefusalRedirect, SignOnInv, TabOK, Tab, Page
<1> QED
    BY <1>1, <1>2, <1>3, <1>4, CalmStep DEF SignOnInv, Types

(* A callback takes the row: the sign-in goes from it to the slot.          *)
LEMMA TakenBy ==
    ASSUME SignOnInv, NEW k \in Client, NEW l \in Login, client[k] = Idle, Take(l),
           client' = [client EXCEPT ![k] = [Idle EXCEPT !.op = "exchange", !.login = l]],
           UNCHANGED <<accounts, config, opened>>, TabOK'
    PROVE  SignOnInv'
<1> DEFINE q == [Idle EXCEPT !.op = "exchange", !.login = l]
<1>1. q \in Request /\ q.op = "exchange" /\ q.login = l
    BY DEF Idle, Request
<1>2. client' = [client EXCEPT ![k] = q]
    OBVIOUS
<1> HIDE DEF q
<1>3. UNCHANGED <<account, role, session>>
    BY DEF accounts
<1>4. client' \in [Client -> Request] /\ Refs' /\ RevocationComplete'
  <2>1. account' \in [Account -> AccountType] /\ session' \in [Token -> SessionType] /\ SlotFine(account', q)
        /\ client[k].op # "detach"
      BY <1>1, <1>3, IdleIs DEF SignOnInv, Types, SlotFine, Holding
  <2> QED
      BY <1>1, <1>2, <1>3, <2>1, DeskStep DEF Accounted, Kept, Discharged
<1>5. /\ login' \in [Login -> LoginRow] /\ login'[l].state = "none" /\ login[l].state = "waiting"
      /\ \A m \in Login \ {l} : login'[m] = login[m]
    BY NoStateIs DEF Take, SignOnInv, Types
<1>6. \A j \in Client : client'[j] = IF j = k THEN q ELSE client[j]
    BY <1>2 DEF SignOnInv, Types
<1>7. opened[l] = 0 /\ \A j \in Client : client[j].login # l
    BY <1>5 DEF SignOnInv, LoginOnce
<1>8. LoginOnce'
  <2> SUFFICES ASSUME NEW m \in Login
               PROVE  /\ opened'[m] <= 1
                      /\ login'[m].state # "none" => opened'[m] = 0 /\ \A j \in Client : client'[j].login # m
                      /\ \A j \in Client : client'[j].login = m => opened'[m] = 0
                      /\ \A i, j \in Client : client'[i].login = m /\ client'[j].login = m => i = j
      BY DEF LoginOnce
  <2>1. CASE m = l
    <3>1. \A j \in Client : client'[j].login = l => j = k
        BY <1>6, <1>7
    <3> QED
        BY <1>5, <1>7, <2>1, <3>1
  <2>2. CASE m # l
    <3>1. \A j \in Client : client'[j].login = m => client[j].login = m
        BY <1>1, <1>6, <2>2
    <3> QED
        BY <1>5, <2>2, <3>1 DEF SignOnInv, LoginOnce
  <2> QED
      BY <2>1, <2>2
<1>9. OneAccountPerPerson'
    BY <1>3, SamePersons
<1> QED
    BY <1>3, <1>4, <1>5, <1>8, <1>9 DEF SignOnInv, Types

LEMMA CallbackElsewhereInv ==
    ASSUME SignOnInv, NEW k \in Client, NEW l \in Login, CallbackElsewhere(k, l)
    PROVE  SignOnInv'
<1>1. /\ client[k] = Idle /\ Take(l) /\ client' = [client EXCEPT ![k] = [Idle EXCEPT !.op = "exchange", !.login = l]]
      /\ UNCHANGED <<accounts, config, opened, tab>>
    BY DEF CallbackElsewhere, Begin
<1> QED
    BY <1>1, TakenBy, SameTab

LEMMA CallbackInv ==
    ASSUME SignOnInv, NEW k \in Client, Callback(k)
    PROVE  SignOnInv'
<1>1. /\ client[k] = Idle /\ Take(tab.login) /\ UNCHANGED <<accounts, config, opened>>
      /\ client' = [client EXCEPT ![k] = [Idle EXCEPT !.op = "exchange", !.login = tab.login]]
      /\ tab.page = "callback" /\ tab' = [tab EXCEPT !.page = "answer"]
    BY DEF Callback, Await
<1>2. tab.login \in Login
    BY <1>1 DEF SignOnInv, TabOK
<1>3. TabOK'
    BY <1>1, <1>2 DEF SignOnInv, TabOK, Tab, Page
<1> QED
    BY <1>1, <1>2, <1>3, TakenBy

-----------------------------------------------------------------------------
(* The tab                                                                  *)

LEMMA LoadInv ==
    ASSUME SignOnInv, Load
    PROVE  SignOnInv'
<1>1. TabOK' /\ UNCHANGED <<accounts, client, config, login, opened>>
    BY DEF Load, SignOnInv, TabOK, Tab, Page
<1> QED
    BY <1>1, TabStep

LEMMA StartFailsInv ==
    ASSUME SignOnInv, StartFails
    PROVE  SignOnInv'
<1>1. TabOK' /\ UNCHANGED <<accounts, client, config, login, opened>>
    BY DEF StartFails, SignOnInv, TabOK, Tab, Page
<1> QED
    BY <1>1, TabStep

LEMMA ApproveInv ==
    ASSUME SignOnInv, Approve
    PROVE  SignOnInv'
<1>1. TabOK' /\ UNCHANGED <<accounts, client, config, login, opened>>
    BY DEF Approve, SignOnInv, TabOK, Tab, Page
<1> QED
    BY <1>1, TabStep

LEMMA CallbackRefusedInv ==
    ASSUME SignOnInv, CallbackRefused
    PROVE  SignOnInv'
<1>1. TabOK' /\ UNCHANGED <<accounts, client, config, login, opened>>
    BY DEF CallbackRefused, SignOnInv, TabOK, Tab, Page
<1> QED
    BY <1>1, TabStep

LEMMA VisitInv ==
    ASSUME SignOnInv, Visit
    PROVE  SignOnInv'
<1>1. TabOK' /\ UNCHANGED <<accounts, client, config, login, opened>>
    BY DEF Visit, SignOnInv, TabOK, Tab, Page
<1> QED
    BY <1>1, TabStep

LEMMA AskProviderInv ==
    ASSUME SignOnInv, AskProvider
    PROVE  SignOnInv'
<1>1. TabOK' /\ UNCHANGED <<accounts, client, config, login, opened>>
    BY DEF AskProvider, SignOnInv, TabOK, Tab, Page
<1> QED
    BY <1>1, TabStep

LEMMA ClearStorageInv ==
    ASSUME SignOnInv, ClearStorage
    PROVE  SignOnInv'
<1>1. TabOK' /\ UNCHANGED <<accounts, client, config, login, opened>>
    BY DEF ClearStorage, SignOnInv, TabOK, Tab, Page
<1> QED
    BY <1>1, TabStep

LEMMA LogoutInv ==
    ASSUME SignOnInv, Logout
    PROVE  SignOnInv'
<1>1. /\ session' = [session EXCEPT ![tab.cookie] = NoSession]
      /\ UNCHANGED <<account, role, client, config, login, opened>>
    BY DEF Logout
<1>2. session' \in [Token -> SessionType] /\ \A t \in Token : session'[t] = session[t] \/ session'[t] = NoSession
    BY <1>1, NoSessionIs DEF SignOnInv, Types
<1>3. TabOK'
    BY DEF Logout, SignOnInv, TabOK, Tab, Page
<1>4. OneAccountPerPerson' /\ LoginOnce'
    BY <1>1, SamePersons DEF SignOnInv, LoginOnce
<1> QED
    BY <1>1, <1>2, <1>3, <1>4, StillStep DEF SignOnInv, Types, Kept

-----------------------------------------------------------------------------
(* The invariant is kept by administrators, callbacks, access tokens and    *)
(* tabs, in any number and order.                                           *)
THEOREM SignOnInvariant == Spec => []SignOnInv
<1>1. SignOnInv /\ [Next]_vars => SignOnInv'
  <2> SUFFICES ASSUME SignOnInv, [Next]_vars PROVE SignOnInv'
      OBVIOUS
  <2>1. CASE UNCHANGED vars
    <3>1. UNCHANGED <<accounts, client, config, login, opened, tab>>
        BY <2>1 DEF vars
    <3> QED
        BY <3>1, TabStep, SameTab
  <2>2. ASSUME NEW k \in Client, Proceed(k) PROVE SignOnInv'
    <3>1. CASE (InsertSession(k) \/ UpdateUser(k) \/ DetachUser(k)
                  \/ InvalidateRoleSessions(k) \/ CountRole(k, InUse)) /\ UNCHANGED sso
        BY <3>1, InsertSessionInv, UpdateUserInv, DetachUserInv, InvalidateRoleSessionsInv, CountRoleInv
    <3>2. CASE /\ DeleteRole(k, {config.role})
               /\ config' = IF role' # role THEN Unmapped(client[k].role) ELSE config
               /\ UNCHANGED <<login, opened, tab>>
        BY <3>2, DeleteRoleInv
    <3>3. CASE \E p \in Person : Exchange(k, p)
        BY <3>3, ExchangeInv
    <3>4. CASE \E a \in Account : ResolveFound(k, a) \/ ProvisionUser(k, a)
        BY <3>4, ResolveFoundInv, ProvisionUserInv
    <3>5. CASE \E mapped \in SUBSET config.mapped : ResolveNew(k, mapped)
        BY <3>5, ResolveNewInv
    <3>6. CASE ExchangeFails(k) \/ ResolveFails(k) \/ ProvisionFails(k)
        BY <3>6, ExchangeFailsInv, ResolveFailsInv, ProvisionFailsInv
    <3>7. CASE RepairRoles(k) \/ OpenSession(k)
        BY <3>7, RepairRolesInv, OpenSessionInv
    <3> QED
        BY <2>2, <3>1, <3>2, <3>3, <3>4, <3>5, <3>6, <3>7 DEF Proceed
  <2>3. CASE Navigate
      BY <2>3, LoadInv, StartInv, StartFailsInv, ApproveInv, AbandonLoginInv, CallbackInv, CallbackRefusedInv
         DEF Navigate
  <2>4. CASE Administer /\ UNCHANGED sso
    <3>1. CASE \E k \in Client, a \in Account :
                  VerifyPassword(k, a) \/ ResetUserPassword(k, a) \/ DeleteUser(k, a)
                    \/ \E wish \in BOOLEAN : ReadUser(k, a, wish)
        BY <2>4, <3>1, VerifyPasswordInv, ResetUserPasswordInv, DeleteUserInv, ReadUserInv
    <3>2. CASE \E t \in Token : RevokeSession(t)
        BY <2>4, <3>2, RevokeSessionInv
    <3>3. CASE \E roles \in Grants : CreateUser(roles) \/ \E a \in Account : SetUserRoles(a, roles)
        BY <2>4, <3>3, CreateUserInv, SetUserRolesInv
    <3>4. CASE \E r \in Role, default \in BOOLEAN :
                  CreateRole(r, default) \/ \E k \in Client : UpdateRole(k, r, default)
        BY <2>4, <3>4, CreateRoleInv, UpdateRoleInv
    <3>5. CASE \E k \in Client, r \in Role : ReadRole(k, r)
        BY <2>4, <3>5, ReadRoleInv
    <3> QED
        BY <2>4, <3>1, <3>2, <3>3, <3>4, <3>5 DEF Administer
  <2>5. CASE \E c \in Configs : Save(c)
      BY <2>5, SaveInv
  <2>6. CASE \E k \in Client, p \in Person : PresentToken(k, p)
      BY <2>6, PresentTokenInv
  <2>7. CASE \E l \in Login : StartElsewhere(l) \/ Expire(l) \/ \E k \in Client : CallbackElsewhere(k, l)
      BY <2>7, StartElsewhereInv, ExpireInv, CallbackElsewhereInv
  <2>8. CASE RemoveExpired \/ Approve \/ AbandonLogin
      BY <2>8, RemoveExpiredInv, ApproveInv, AbandonLoginInv
  <2>9. CASE Visit \/ AskProvider \/ Logout \/ ClearStorage
      BY <2>9, VisitInv, AskProviderInv, LogoutInv, ClearStorageInv
  <2> QED
      BY <2>1, <2>2, <2>3, <2>4, <2>5, <2>6, <2>7, <2>8, <2>9 DEF Next
<1> QED
    BY <1>1, InitInv, PTL DEF Spec

(* A session opened before a password reset or a deactivation outlives it   *)
(* only while the request has the DELETE before it, or where the DELETE     *)
(* failed or a stale form sent none; for any number of administrators and   *)
(* sign-ins at the same time.                                               *)
THEOREM RevocationsComplete == Spec => []RevocationComplete
<1>1. SignOnInv => RevocationComplete
    BY DEF SignOnInv
<1> QED
    BY <1>1, SignOnInvariant, PTL

(* A person has one account, however many callbacks and access tokens of    *)
(* that person are resolved at once.                                        *)
THEOREM PersonsHaveOneAccount == Spec => []OneAccountPerPerson
<1>1. SignOnInv => OneAccountPerPerson
    BY DEF SignOnInv
<1> QED
    BY <1>1, SignOnInvariant, PTL

(* A login state opens at most one session, however often it is presented.  *)
THEOREM LoginsOpenOneSession == Spec => []OneSessionPerLogin
<1>1. SignOnInv => OneSessionPerLogin
    BY DEF SignOnInv, LoginOnce, OneSessionPerLogin
<1> QED
    BY <1>1, SignOnInvariant, PTL
=============================================================================
