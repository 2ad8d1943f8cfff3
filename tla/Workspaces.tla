----------------------------- MODULE Workspaces -----------------------------
(***************************************************************************)
(* VOC workspaces (package voice): a department's workspace, its request    *)
(* types, its members (customers registered in it) and where each customer  *)
(* request is filed.  Administrators change workspaces and types while      *)
(* handlers register members and file requests.                             *)
(*                                                                          *)
(* The service reads the workspace, the type and the customer in separate   *)
(* statements and writes in a later one; a slot of Client is one request    *)
(* between them.  A type with no workspace stands also for a request        *)
(* without a type: the code treats both as outside every workspace.  Names  *)
(* and versions of members are left out; Customers has them.                *)
(***************************************************************************)
EXTENDS Naturals

CONSTANTS
    Workspace,     \* ids of workspaces
    NoWorkspace,   \* the workspace of what belongs to none
    Org,           \* organizations
    Category,      \* ids of request types
    Member,        \* ids of customers
    Code,          \* customer codes
    Voice,         \* ids of customer requests
    Global,        \* the code scope shared by all customers
    Settings,      \* what an administrator saves for a workspace
    Client,        \* slots of requests
    MaxVersion,    \* bound on the versions of a request
    MaxRequests    \* bound on the requests of a behaviour

Setting == [org : Org, isolated : BOOLEAN, gate : BOOLEAN, scope : {"GLOBAL", "WORKSPACE"}, active : BOOLEAN]

ASSUME WorkspacesAssumption ==
    /\ NoWorkspace \notin Workspace /\ Global \notin Workspace
    /\ Settings \subseteq Setting /\ Settings # {}
    /\ MaxVersion \in Nat \ {0} /\ MaxRequests \in Nat

VARIABLES
    workspace,   \* voice_workspaces: at most one row, as a set
    category,    \* voice_categories: at most one row, as a set
    member,      \* customers: at most one row, as a set
    filing,      \* where a customer request is filed: at most one row
    client,      \* the requests in progress
    begun        \* how many requests have begun

desk == <<workspace, category>>
wsVars == <<desk, member, filing, client, begun>>

CategoryRow == [workspace : Workspace \cup {NoWorkspace}, active : BOOLEAN]
MemberRow == [home : Workspace \cup {NoWorkspace}, org : Org, code : Code,
              scope : Workspace \cup {Global}]
FilingRow == [customer : Member, category : Category, workspace : Workspace \cup {NoWorkspace}, org : Org]

AtMostOne(S) == {{}} \cup {{x} : x \in S}

Given(rows) == rows # {}
Row(rows) == CHOOSE r \in rows : TRUE

Idle == [op |-> "idle"]
At(k, op) == client[k].op = op
Count == begun < MaxRequests /\ begun' = begun + 1
Begin(k, request) == Count /\ client[k] = Idle /\ client' = [client EXCEPT ![k] = request]
Await(k, request) == client' = [client EXCEPT ![k] = request] /\ UNCHANGED begun
Done(k) == Await(k, Idle)

WorkspacesInit ==
    /\ workspace = [w \in Workspace |-> {}]
    /\ category = [t \in Category |-> {}]
    /\ member = [c \in Member |-> {}]
    /\ filing = [v \in Voice |-> {}]
    /\ client = [k \in Client |-> Idle]
    /\ begun = 0

-----------------------------------------------------------------------------
(* Workspaces                                                               *)

(* s.workspace: the row, when it is active.                                 *)
Usable(w) == Given(workspace[w]) /\ Row(workspace[w]).active
Members(w) == {c \in Member : Given(member[c]) /\ Row(member[c]).home = w}
FiledIn(w) == {v \in Voice : Given(filing[v]) /\ Row(filing[v]).workspace = w}

(* CreateWorkspace: one INSERT; a new workspace is active.                  *)
CreateWorkspace(w) ==
    /\ Count /\ ~Given(workspace[w])
    /\ \E s \in Settings : workspace' = [workspace EXCEPT ![w] = {[s EXCEPT !.active = TRUE]}]
    /\ UNCHANGED <<category, member, filing, client>>

(* ApplyPreset: one transaction; what exists already is left as it is.      *)
ApplyPreset(w) ==
    /\ Count
    /\ \E s \in Settings :
         /\ s.isolated /\ s.gate
         /\ workspace' = [workspace EXCEPT ![w] = IF Given(@) THEN @ ELSE {[s EXCEPT !.active = TRUE]}]
    /\ category' = [t \in Category |-> IF Given(category[t]) THEN category[t]
                                       ELSE {[workspace |-> w, active |-> TRUE]}]
    /\ UNCHANGED <<member, filing, client>>

(* UpdateWorkspace: one transaction on the locked row.  The code scope of a *)
(* workspace with members stays; the requests and the members of an         *)
(* isolated workspace move to its organization.                             *)
UpdateWorkspace(w) ==
    /\ Count /\ Given(workspace[w])
    /\ \E s \in Settings :
         /\ s.scope = Row(workspace[w]).scope \/ Members(w) = {}
         /\ workspace' = [workspace EXCEPT ![w] = {s}]
         /\ filing' = [v \in Voice |-> IF s.isolated /\ v \in FiledIn(w)
                                       THEN {[Row(filing[v]) EXCEPT !.org = s.org]} ELSE filing[v]]
         /\ member' = [c \in Member |-> IF s.isolated /\ c \in Members(w)
                          THEN {[Row(member[c]) EXCEPT !.org = s.org]} ELSE member[c]]
    /\ UNCHANGED <<category, client>>

-----------------------------------------------------------------------------
(* Request types                                                            *)

Used(t) == \E v \in Voice : Given(filing[v]) /\ Row(filing[v]).category = t

(* CreateCategory: one INSERT.                                              *)
CreateCategory(t, w) ==
    /\ Count /\ ~Given(category[t]) /\ (w # NoWorkspace => Given(workspace[w]))
    /\ category' = [category EXCEPT ![t] = {[workspace |-> w, active |-> TRUE]}]
    /\ UNCHANGED <<workspace, member, filing, client>>

(* updateVoiceCategory: reads whether the type is used, then an UPDATE that *)
(* looks at nothing.                                                        *)
ReadCategory(k, t, w) ==
    /\ Given(category[t]) /\ (w # NoWorkspace => Given(workspace[w]))
    /\ Used(t) => Row(category[t]).workspace = w
    /\ Begin(k, [op |-> "category", category |-> t, workspace |-> w])
    /\ UNCHANGED <<desk, member, filing>>

UpdateCategory(k) ==
    /\ At(k, "category") /\ Done(k)
    /\ \E active \in BOOLEAN :
         category' = [category EXCEPT ![client[k].category] =
             IF Given(@) THEN {[workspace |-> client[k].workspace, active |-> active]} ELSE @]
    /\ UNCHANGED <<workspace, member, filing>>

(* deleteVoiceCategory: reads whether the type is used; a used one is       *)
(* retired, another deleted unless a request refers to it by then.          *)
ReadUnused(k, t) ==
    /\ Given(category[t])
    /\ Begin(k, [op |-> IF Used(t) THEN "retire" ELSE "delete category", category |-> t])
    /\ UNCHANGED <<desk, member, filing>>

RetireCategory(k) ==
    /\ At(k, "retire") /\ Done(k)
    /\ category' = [category EXCEPT ![client[k].category] =
                       IF Given(@) THEN {[Row(@) EXCEPT !.active = FALSE]} ELSE @]
    /\ UNCHANGED <<workspace, member, filing>>

DeleteCategory(k) ==
    /\ At(k, "delete category") /\ Done(k)
    /\ category' = [category EXCEPT ![client[k].category] = IF Used(client[k].category) THEN @ ELSE {}]
    /\ UNCHANGED <<workspace, member, filing>>

-----------------------------------------------------------------------------
(* Members                                                                  *)

MemberCodeScope(w, setting) == IF setting.scope = "WORKSPACE" THEN w ELSE Global

(* CustomerByCodeIn: the codes registered in a workspace.                   *)
CodesIn(w) == {Row(member[c]).code : c \in Members(w)}
Collides(scope, code) == \E c \in Member : Given(member[c]) /\ Row(member[c]).scope = scope
                                                         /\ Row(member[c]).code = code

(* QuickRegister, and ImportCustomers with its rows: the workspace is read  *)
(* once, before the first row.                                              *)
ReadRoster(k, w) ==
    /\ Usable(w)
    /\ \E rows \in SUBSET Code \ {{}} :
         Begin(k, [op |-> "check", workspace |-> w, setting |-> Row(workspace[w]), rows |-> rows])
    /\ UNCHANGED <<desk, member, filing>>

NextRow(k, rows) == IF rows = {} THEN Done(k) ELSE Await(k, [client[k] EXCEPT !.op = "check", !.rows = rows])

(* A row whose code is in the workspace at most renames its customer.       *)
CheckRow(k, code) ==
    /\ At(k, "check") /\ code \in client[k].rows
    /\ IF code \in CodesIn(client[k].workspace)
       THEN NextRow(k, client[k].rows \ {code})
       ELSE Await(k, [op |-> "register", workspace |-> client[k].workspace, setting |-> client[k].setting,
                      rows |-> client[k].rows, code |-> code])
    /\ UNCHANGED <<desk, member, filing>>

(* CreateCustomerIn: one INSERT, which the unique index on scope and code   *)
(* may refuse; a refused row never stops the rest.                          *)
RegisterRow(k, c) ==
    /\ At(k, "register") /\ ~Given(member[c])
    /\ LET q == client[k]
           scope == MemberCodeScope(q.workspace, q.setting) IN
         /\ IF q.rows = {q.code} THEN Done(k)
            ELSE Await(k, [op |-> "check", workspace |-> q.workspace, setting |-> q.setting,
                           rows |-> q.rows \ {q.code}])
         /\ member' = IF Collides(scope, q.code) THEN member
                      ELSE [member EXCEPT ![c] = {[home |-> q.workspace, org |-> q.setting.org,
                                code |-> q.code, scope |-> scope]}]
    /\ UNCHANGED <<desk, filing>>

(* A customer of no workspace: CreateCustomer.                              *)
CreateCustomer(c, org, code) ==
    /\ Count /\ ~Given(member[c]) /\ ~Collides(Global, code)
    /\ member' = [member EXCEPT ![c] = {[home |-> NoWorkspace, org |-> org, code |-> code, scope |-> Global]}]
    /\ UNCHANGED <<desk, filing, client>>

-----------------------------------------------------------------------------
(* Filing a request                                                         *)

(* intakeFor: an active type and, when it has one, its workspace.           *)
Intake(k, t, c) ==
    /\ Given(category[t]) /\ Row(category[t]).active
    /\ LET w == Row(category[t]).workspace IN
         /\ w # NoWorkspace => Usable(w)
         /\ Begin(k, [op |-> "intake", category |-> t, customer |-> c, workspace |-> w,
                      setting |-> IF w = NoWorkspace THEN {} ELSE workspace[w]])
    /\ UNCHANGED <<desk, member, filing>>

(* The customer must be at home in the workspace of the type, or in none.   *)
AtHomeUnchecked(row, w) == TRUE

AtHome(row, w) == row.home = w

ReadMember(k) ==
    /\ At(k, "intake")
    /\ LET q == client[k] IN
         IF ~Given(member[q.customer]) \/ ~AtHome(Row(member[q.customer]), q.workspace) THEN Done(k)
         ELSE Await(k, [op |-> "file", row |->
                  [customer |-> q.customer, category |-> q.category, workspace |-> q.workspace,
                   org |-> IF Given(q.setting) /\ Row(q.setting).isolated
                           THEN Row(q.setting).org ELSE Row(member[q.customer]).org]])
    /\ UNCHANGED <<desk, member, filing>>

(* The INSERT of Create; its foreign key wants the type to exist still.     *)
File(k, v) ==
    /\ At(k, "file") /\ Done(k) /\ ~Given(filing[v])
    /\ Given(category[client[k].row.category])
    /\ filing' = [filing EXCEPT ![v] = {client[k].row}]
    /\ UNCHANGED <<desk, member>>

FileRefused(k) ==
    /\ At(k, "file") /\ Done(k)
    /\ ~Given(category[client[k].row.category])
    /\ UNCHANGED <<desk, member, filing>>

-----------------------------------------------------------------------------
Administer ==
    \/ \E w \in Workspace : CreateWorkspace(w) \/ ApplyPreset(w) \/ UpdateWorkspace(w)
    \/ \E t \in Category, w \in Workspace \cup {NoWorkspace} : CreateCategory(t, w)
    \/ \E c \in Member, org \in Org, code \in Code : CreateCustomer(c, org, code)
    \/ \E k \in Client, t \in Category :
         \/ ReadUnused(k, t)
         \/ \E w \in Workspace \cup {NoWorkspace} : ReadCategory(k, t, w)
    \/ \E k \in Client : UpdateCategory(k) \/ RetireCategory(k) \/ DeleteCategory(k)

Register(k) ==
    \/ \E w \in Workspace : ReadRoster(k, w)
    \/ \E code \in Code : CheckRow(k, code)
    \/ \E c \in Member : RegisterRow(k, c)
=============================================================================
