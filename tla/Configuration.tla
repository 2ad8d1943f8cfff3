--------------------------- MODULE Configuration ---------------------------
(***************************************************************************)
(* Configuration bundles (package server, admin_data.go) beside the forms   *)
(* of administrators who edit the same tables: settings (package admin),    *)
(* deal health rules (package intelligence), custom fields, pipelines,      *)
(* approval policies and the organizations policies refer to.               *)
(*                                                                          *)
(* A row stands for a setting, a role with its permissions, a pipeline with *)
(* its stages, playbooks and exit criteria, a custom field, a health rule   *)
(* or a policy; Item is what the bundle calls its logical key.  Rows of one *)
(* key carry ids, the order of their insertion.  A slot of Client is a      *)
(* request that exports, previews or applies a bundle, one of Editor the    *)
(* form of an administrator.  Statements take a connection of the pool for  *)
(* their time; an open result set and a transaction keep one.  An import    *)
(* is a READ COMMITTED transaction: its writes are its own, and the rows it *)
(* wrote locked, until it commits.                                          *)
(***************************************************************************)
EXTENDS Naturals, FiniteSets, FiniteSetsExt, Sequences

CONSTANTS
    Item,        \* logical keys
    SectionOf,   \* the section of each
    Barred,      \* keys a bundle may not have: a sensitive name, SYSTEM_ADMIN,
                 \* a field of an entity the bundle does not know
    Value,       \* contents of a row; a pipeline's tells whether it is the default
    Default, Plain,
    Org,         \* organizations
    OrgOf,       \* the approver organization of each policy
    Bundles,     \* bundles presented for import: some items and their values
    Initial,     \* configurations a behaviour starts with
    Client, Editor,
    MaxConns,    \* size of the pool
    MaxRequests, MaxEdits   \* bounds

(* The order in which a bundle is written.                                  *)
Sections == <<"settings", "roles", "pipelines", "customFields", "dealHealthRules", "approvalPolicies">>

(* A secret setting, a system role or a workspace's field is "kept" out of  *)
(* bundles.  The version counts for settings and health rules only.         *)
Row == [id : Nat, value : Value, version : Nat, class : {"open", "kept"}]

In(x, section) == SectionOf[x] = section

(* What unique keys and finite tables make of a configuration: an id is     *)
(* given once, a setting and a rule have one row each, only three tables    *)
(* have rows of both classes, and some row is the last.                     *)
Keyed(c) ==
    /\ \A x, y \in Item : \A row \in c[x], other \in c[y] : row.id = other.id => x = y /\ row = other
    /\ \A x \in Item : In(x, "settings") \/ In(x, "dealHealthRules") =>
         \A row, other \in c[x] : row = other
    /\ \A x \in Item : \A row \in c[x] :
         row.class = "kept" => SectionOf[x] \in {"settings", "roles", "customFields"}
    /\ LET ids == {row.id : row \in UNION {c[x] : x \in Item}} \cup {0}
       IN \E last \in ids : \A id \in ids : id <= last

(* validateConfigurationBundle: one pipeline at most is the default.        *)
ASSUME ConfigurationAssumption ==
    /\ SectionOf \in [Item -> {Sections[i] : i \in DOMAIN Sections}]
    /\ Barred \subseteq Item /\ {Default, Plain} \subseteq Value
    /\ OrgOf \in [Item -> Org]
    /\ \A b \in Bundles :
         /\ DOMAIN b \subseteq Item /\ \A x \in DOMAIN b : b[x] \in Value
         /\ \A x, y \in DOMAIN b :
              In(x, "pipelines") /\ In(y, "pipelines") /\ b[x] = Default /\ b[y] = Default => x = y
    /\ \A c \in Initial : c \in [Item -> SUBSET Row] /\ Keyed(c)
    /\ MaxConns \in Nat \ {0} /\ MaxRequests \in Nat /\ MaxEdits \in Nat

VARIABLES
    rows,     \* the committed rows of each key
    org,      \* the organizations there are
    transfer,     \* the requests about bundles
    held,     \* the connections they keep between statements
    form,     \* the forms of administrators
    serial,   \* the id of the last row
    begun, edits

configVars == <<rows, org, transfer, held, form, serial, begun, edits>>
counted == <<begun, edits>>

Idle == [op |-> "idle"]
ConfigInit ==
    /\ rows \in Initial /\ org \in {Org, {OrgOf[x] : x \in {y \in Item : In(y, "approvalPolicies") /\ rows[y] # {}}}}
    /\ transfer = [k \in Client |-> Idle] /\ held = [k \in Client |-> 0]
    /\ form = [e \in Editor |-> Idle]
    /\ serial = Max({row.id : row \in UNION {rows[x] : x \in Item}} \cup {0})
    /\ begun = 0 /\ edits = 0

Free == MaxConns - Cardinality({k \in Client : held[k] = 1})
RankOf(x) == CHOOSE i \in DOMAIN Sections : Sections[i] = SectionOf[x]
Open(x) == {row \in rows[x] : row.class = "open"}

At(k, op) == transfer[k].op = op
Await(k, state) == transfer' = [transfer EXCEPT ![k] = state]
Release(k) == held' = [held EXCEPT ![k] = 0]
Keep(k) == held' = [held EXCEPT ![k] = 1]

(* The request is answered, and gives back what it holds.                   *)
Answered(k) == Await(k, Idle) /\ Release(k)

-----------------------------------------------------------------------------
(* Export, and the preview an import begins with                            *)

(* requireAdmin and validateConfigurationBundle pass; a bundle refused there *)
(* changes nothing.                                                         *)
BeginTransfer(k, task) ==
    /\ transfer[k] = Idle /\ begun < MaxRequests /\ begun' = begun + 1
    /\ task.kind = "import" => DOMAIN task.bundle \cap Barred = {}
    /\ Await(k, [op |-> "read", task |-> task, next |-> 1, twice |-> FALSE])
    /\ UNCHANGED <<rows, org, held, form, serial, edits>>

(* The statements of configurationBundle, in four steps; all that matters   *)
(* of what they read is whether two rows have one key, which flattenBundle  *)
(* refuses.                                                                 *)
Steps == <<{"settings", "roles"}, {"pipelines"},
           {"customFields", "dealHealthRules", "approvalPolicies"}, {"salesExecution"}>>
Twice(step) == \E x \in Item : SectionOf[x] \in step /\ Cardinality(Open(x)) > 1
Nested(step) == step \in {{"pipelines"}, {"salesExecution"}}

Reading(k) == LET q == transfer[k] IN [q EXCEPT !.next = @ + 1, !.twice = @ \/ Twice(Steps[q.next])]

ReadSections(k) ==
    /\ At(k, "read") /\ transfer[k].next \in DOMAIN Steps /\ ~Nested(Steps[transfer[k].next])
    /\ Free > 0 /\ Await(k, Reading(k))
    /\ UNCHANGED <<rows, org, held, form, serial, counted>>

(* Pipelines and executions are read with a query inside the open rows of   *)
(* another: the first connection is kept while the second is asked for.     *)
OpenRows(k) ==
    /\ At(k, "read") /\ transfer[k].next \in DOMAIN Steps /\ Nested(Steps[transfer[k].next])
    /\ held[k] = 0 /\ Free > 0 /\ Keep(k)
    /\ UNCHANGED <<rows, org, transfer, form, serial, counted>>

ReadInner(k) ==
    /\ At(k, "read") /\ held[k] = 1
    /\ Free > 0 \/ \A x \in Item : In(x, "pipelines") => rows[x] = {}
    /\ Await(k, Reading(k)) /\ Release(k)
    /\ UNCHANGED <<rows, org, form, serial, counted>>

(* The export is answered, or diffConfigurationBundles refuses the current  *)
(* configuration, or the transaction begins.                                *)
Compare(k) ==
    /\ At(k, "read") /\ transfer[k].next > Len(Steps)
    /\ IF transfer[k].task.kind = "export" \/ transfer[k].twice
       THEN Answered(k)
       ELSE /\ Free > 0 /\ Keep(k)
            /\ LET b == transfer[k].task.bundle IN
                 Await(k, [op |-> "find", bundle |-> b, todo |-> DOMAIN b, found |-> {},
                           writes |-> {}, gone |-> {}, met |-> {}])
    /\ UNCHANGED <<rows, org, form, serial, counted>>

-----------------------------------------------------------------------------
(* Import                                                                   *)

(* Rows a transaction has locked: those it wrote, and the one it selected   *)
(* FOR UPDATE; and keys whose insertion others have to wait for.            *)
InTx == {k \in Client : transfer[k].op \in {"find", "write"}}
Item0(k) == CHOOSE x \in transfer[k].todo : \A y \in transfer[k].todo : RankOf(x) <= RankOf(y)
ForUpdate(k) == transfer[k].op = "write" /\ SectionOf[Item0(k)] \in {"settings", "roles"}
Locks(k) == {w.row.id : w \in transfer[k].writes} \cup (IF ForUpdate(k) THEN transfer[k].found ELSE {})
LockedFor(k, id) == \E j \in InTx \ {k} : id \in Locks(j)
Unlocked(id) == \A k \in InTx : id \notin Locks(k)
Inserting(k, x) == \E j \in InTx \ {k} : \E w \in transfer[j].writes : w.item = x /\ w.row \notin rows[x]
                                                       /\ \A row \in rows[x] : row.id # w.row.id

(* The row of the key, as a statement of k sees it.                         *)
Seen(k, x) ==
    LET mine == {w.row : w \in {v \in transfer[k].writes : v.item = x}} IN
    mine \cup {row \in rows[x] : \A m \in mine : m.id # row.id}

Lowest(found) == IF found = {} THEN {} ELSE {Min(found)}
DefaultFirst(found) ==
    IF \E row \in found : row.value = Default THEN {row \in found : row.value = Default} ELSE found

(* The SELECT that looks for the row of the next item.  A setting or a role *)
(* is locked, a secret or a system role refused; a pipeline or a policy is  *)
(* only looked up by name, and a policy's organization must exist.          *)
Find(k) ==
    /\ At(k, "find") /\ transfer[k].todo # {}
    /\ LET x == Item0(k)
           seen == Seen(k, x)
           go(found) == Await(k, [transfer[k] EXCEPT !.op = "write", !.found = found]) /\ UNCHANGED held IN
         \/ /\ SectionOf[x] \in {"settings", "roles"} /\ \A row \in seen : ~LockedFor(k, row.id)
            /\ IF \E row \in seen : row.class = "kept" THEN Answered(k) ELSE go({row.id : row \in seen})
         \/ In(x, "pipelines") /\ go(Lowest({row.id : row \in DefaultFirst(seen)}))
         \/ /\ In(x, "approvalPolicies")
            /\ IF OrgOf[x] \in org THEN go(Lowest({row.id : row \in seen})) ELSE Answered(k)
         \/ SectionOf[x] \in {"customFields", "dealHealthRules"} /\ go({})
    /\ UNCHANGED <<rows, org, form, serial, counted>>

(* The row an upsert lands on: the key's own (a general field, not a        *)
(* workspace's), whatever became of it since the SELECT; for a pipeline or  *)
(* a policy the one found, if it is still there.                            *)
TargetAnyField(k, x) ==
    IF SectionOf[x] \in {"pipelines", "approvalPolicies"}
    THEN {row \in Seen(k, x) : row.id \in transfer[k].found}
    ELSE Seen(k, x)

Target(k, x) ==
    IF SectionOf[x] \in {"pipelines", "approvalPolicies"}
    THEN {row \in Seen(k, x) : row.id \in transfer[k].found}
    ELSE {row \in Seen(k, x) : In(x, "customFields") => row.class = "open"}

(* DO UPDATE ... WHERE it differs, with the next version.                   *)
UpdatedSameVersion(row, value) == [row EXCEPT !.value = value]

Updated(row, value) ==
    IF row.value = value THEN row ELSE [row EXCEPT !.value = value, !.version = @ + 1]

Fresh(value) == [id |-> serial + 1, value |-> value, version |-> 1, class |-> "open"]

Recorded(writes, more) == {w \in writes : \A m \in more : m.row.id # w.row.id} \cup more

(* The setting there was none of for the SELECT, which locked no row then,   *)
(* and which somebody has inserted since: the upsert meets it.              *)
Met(k) == {x \in {Item0(k)} : In(x, "settings") /\ transfer[k].found = {} /\ Target(k, x) # {}}

(* The other pipelines that give up being the default.                      *)
Demotions(k, x, value) ==
    IF ~In(x, "pipelines") \/ value # Default THEN {}
    ELSE UNION {{[item |-> y, row |-> [row EXCEPT !.value = Plain]] :
                    row \in {other \in Seen(k, y) : other.value = Default /\ other \notin Target(k, x)}} :
                y \in {z \in Item : In(z, "pipelines")}}

(* INSERT or UPDATE.  A role inserted meanwhile is a unique violation, a    *)
(* pipeline deleted meanwhile leaves its stages without a parent, a policy  *)
(* deleted meanwhile is an UPDATE of no row, which nobody notices; an       *)
(* organization deleted meanwhile breaks the foreign key.                   *)
Write(k) ==
    /\ At(k, "write")
    /\ LET x == Item0(k)
           q == transfer[k]
           value == q.bundle[x]
           target == Target(k, x)
           lost == q.found # {} /\ target = {}
           clash == In(x, "roles") /\ q.found = {} /\ target # {}
           written == {[item |-> x, row |-> IF target = {} THEN Fresh(value)
                                            ELSE Updated(CHOOSE row \in target : TRUE, value)]}
           more == Demotions(k, x, value)
           go(w, missing) == /\ Await(k, [q EXCEPT !.op = "find", !.todo = @ \ {x}, !.found = {},
                                       !.writes = Recorded(@, w), !.gone = @ \cup missing,
                                       !.met = @ \cup Met(k)])
                             /\ UNCHANGED held IN
         /\ \A row \in target \cup {w.row : w \in more} : ~LockedFor(k, row.id)
         /\ SectionOf[x] \notin {"pipelines", "approvalPolicies"} => ~Inserting(k, x)
         /\ \/ /\ clash \/ (lost /\ In(x, "pipelines")) \/ (In(x, "approvalPolicies") /\ OrgOf[x] \notin org)
               /\ Answered(k) /\ UNCHANGED serial
            \/ lost /\ ~In(x, "pipelines") /\ go({}, {x}) /\ UNCHANGED serial
            \/ /\ ~clash /\ ~lost /\ (In(x, "approvalPolicies") => OrgOf[x] \in org)
               /\ go(written \cup more, {})
               /\ serial' = IF target = {} THEN serial + 1 ELSE serial
    /\ UNCHANGED <<rows, org, form, counted>>

After(writes) ==
    [x \in Item |->
        LET mine == {w.row : w \in {v \in writes : v.item = x}} IN
        mine \cup {row \in rows[x] : \A m \in mine : m.id # row.id}]

Commit(k) ==
    /\ At(k, "find") /\ transfer[k].todo = {}
    /\ rows' = After(transfer[k].writes)
    /\ Answered(k)
    /\ UNCHANGED <<org, form, serial, counted>>

(* A statement fails, a deadlock is broken, or the client goes away and the *)
(* context is cancelled: result sets are closed, the transaction rolls back. *)
FailLeaking(k) ==
    /\ transfer[k] # Idle /\ Await(k, Idle) /\ UNCHANGED held
    /\ UNCHANGED <<rows, org, form, serial, counted>>

Fail(k) ==
    /\ transfer[k] # Idle /\ Answered(k)
    /\ UNCHANGED <<rows, org, form, serial, counted>>

-----------------------------------------------------------------------------
(* Administrators                                                           *)

(* One statement of an administrator's request.                             *)
Edit == edits < MaxEdits /\ Free > 0 /\ edits' = edits + 1 /\ UNCHANGED <<transfer, held, begun>>
Replace(x, old, new) == rows' = [rows EXCEPT ![x] = (@ \ old) \cup new]

(* A form shows a setting or a rule with its version, or that there is none; *)
(* Put reads the setting again before it writes.                            *)
OpenForm(e, x) ==
    /\ form[e] = Idle /\ edits < MaxEdits /\ Free > 0
    /\ In(x, "settings") \/ (In(x, "dealHealthRules") /\ rows[x] # {})
    /\ form' = [form EXCEPT ![e] = [op |-> IF In(x, "settings") THEN "put" ELSE "save", item |-> x,
                                    seen |-> rows[x], read |-> {}]]
    /\ UNCHANGED <<rows, org, transfer, held, serial, counted>>

(* Put: a secret is not turned into plaintext, a form with an old version is *)
(* refused; one opened before there was a row sends version 0, which is not *)
(* compared.                                                                *)
OutdatedNever(f, row) == FALSE

Outdated(f, row) == \E old \in f.seen : old.version # row.version

ReadSetting(e, secret) ==
    LET f == form[e]
        now == rows[f.item] IN
    /\ f.op = "put" /\ Free > 0
    /\ form' = [form EXCEPT ![e] =
          IF \E row \in now : (row.class = "kept" /\ ~secret) \/ Outdated(f, row) THEN Idle
          ELSE [op |-> "upsert", item |-> f.item, seen |-> f.seen, read |-> now, secret |-> secret]]
    /\ UNCHANGED <<rows, org, transfer, held, serial, counted>>

Unchanged == rows' = rows /\ UNCHANGED serial

(* INSERT ... ON CONFLICT DO UPDATE ... WHERE version is the one read.      *)
WriteSetting(e, value) ==
    LET f == form[e]
        now == rows[f.item]
        class == IF f.secret THEN "kept" ELSE "open" IN
    /\ f.op = "upsert" /\ Edit /\ form' = [form EXCEPT ![e] = Idle]
    /\ \A row \in now : Unlocked(row.id)
    /\ \A k \in InTx : ~\E w \in transfer[k].writes : w.item = f.item
    /\ \/ now = {} /\ Replace(f.item, {}, {[Fresh(value) EXCEPT !.class = class]}) /\ serial' = serial + 1
       \/ \E row \in now :
            IF \E old \in f.read : old.version = row.version
            THEN /\ Replace(f.item, {row}, {[row EXCEPT !.value = value, !.version = @ + 1, !.class = class]})
                 /\ UNCHANGED serial
            ELSE Unchanged
    /\ UNCHANGED org

(* SaveHealthRule: UPDATE ... WHERE id AND version.                         *)
SaveHealthRule(e, value) ==
    LET f == form[e] IN
    /\ f.op = "save" /\ Edit /\ form' = [form EXCEPT ![e] = Idle]
    /\ \E row \in rows[f.item] :
         /\ Unlocked(row.id)
         /\ IF \E old \in f.seen : old.version = row.version
            THEN Replace(f.item, {row}, {[row EXCEPT !.value = value, !.version = @ + 1]})
            ELSE rows' = rows
    /\ UNCHANGED <<org, serial>>

Removed(x, row) ==
    /\ row \in rows[x] /\ Edit
    /\ Unlocked(row.id) /\ Replace(x, {row}, {})
    /\ UNCHANGED <<org, form, serial>>

(* Delete, whatever the version; a custom field's values stay with their    *)
(* records; a pipeline must not be the default one, and like a policy one   *)
(* nothing refers to.                                                       *)
DeleteSetting(x, row) == In(x, "settings") /\ Removed(x, row)
DeleteCustomField(x, row) == In(x, "customFields") /\ Removed(x, row)
DeletePipeline(x, row) == In(x, "pipelines") /\ row.value # Default /\ Removed(x, row)
DeletePolicy(x, row) == In(x, "approvalPolicies") /\ Removed(x, row)

(* A custom field, general or of a workspace, unique in its kind.           *)
CreateCustomField(x, value, class) ==
    /\ In(x, "customFields") /\ Edit
    /\ \A row \in rows[x] : row.class # class
    /\ \A k \in InTx : ~\E w \in transfer[k].writes : w.item = x
    /\ Replace(x, {}, {[Fresh(value) EXCEPT !.class = class]}) /\ serial' = serial + 1
    /\ UNCHANGED <<org, form>>

(* There may be several pipelines of one name.  A new default ends that of  *)
(* the others.                                                              *)
CreatePipeline(x, value) ==
    LET ends(y, row) == value = Default /\ In(y, "pipelines") /\ row.value = Default IN
    /\ In(x, "pipelines") /\ Edit
    /\ \A y \in Item : \A row \in rows[y] : ends(y, row) => Unlocked(row.id)
    /\ rows' = [y \in Item |->
          {IF ends(y, row) THEN [row EXCEPT !.value = Plain] ELSE row : row \in rows[y]}
          \cup (IF y = x THEN {Fresh(value)} ELSE {})]
    /\ serial' = serial + 1
    /\ UNCHANGED <<org, form>>

(* Nor is the name of a policy unique; its organization is a foreign key.   *)
InsertPolicy(x, value) ==
    /\ In(x, "approvalPolicies") /\ OrgOf[x] \in org /\ Edit
    /\ Replace(x, {}, {Fresh(value)}) /\ serial' = serial + 1
    /\ UNCHANGED <<org, form>>

(* updateCustomField: no version, the last form saved stays.                *)
UpdateCustomField(x, row, value) ==
    /\ row \in rows[x] /\ In(x, "customFields") /\ row.value # value /\ Edit /\ Unlocked(row.id)
    /\ Replace(x, {row}, {[row EXCEPT !.value = value]})
    /\ UNCHANGED <<org, form, serial>>

(* deleteOrganization: not while a policy refers to it, which is counted    *)
(* first and then enforced by the foreign key.                              *)
DeleteOrganization(o) ==
    /\ o \in org /\ Edit
    /\ \A x \in Item : In(x, "approvalPolicies") /\ OrgOf[x] = o =>
         rows[x] = {} /\ \A k \in InTx : ~\E w \in transfer[k].writes : w.item = x
    /\ org' = org \ {o}
    /\ UNCHANGED <<rows, form, serial>>

CreateOrganization(o) ==
    /\ o \in Org \ org /\ Edit /\ org' = org \cup {o}
    /\ UNCHANGED <<rows, form, serial>>

-----------------------------------------------------------------------------
Task == {[kind |-> "export"]} \cup [kind : {"import"}, bundle : Bundles]

Proceed(k) == ReadSections(k) \/ OpenRows(k) \/ ReadInner(k) \/ Compare(k) \/ Find(k) \/ Write(k) \/ Commit(k)

Administer ==
    \/ \E e \in Editor, x \in Item : OpenForm(e, x)
    \/ \E e \in Editor : \E secret \in BOOLEAN : ReadSetting(e, secret)
    \/ \E e \in Editor, value \in Value : WriteSetting(e, value) \/ SaveHealthRule(e, value)
    \/ \E x \in Item : \E row \in rows[x] :
         DeleteSetting(x, row) \/ DeleteCustomField(x, row) \/ DeletePipeline(x, row) \/ DeletePolicy(x, row)
    \/ \E x \in Item, value \in Value :
         \/ CreatePipeline(x, value) \/ InsertPolicy(x, value)
         \/ \E class \in {"open", "kept"} : CreateCustomField(x, value, class)
         \/ \E row \in rows[x] : UpdateCustomField(x, row, value)
    \/ \E o \in Org : DeleteOrganization(o) \/ CreateOrganization(o)

ConfigNext ==
    \/ \E k \in Client, task \in Task : BeginTransfer(k, task)
    \/ \E k \in Client : Proceed(k) \/ Fail(k)
    \/ Administer

ConfigSpec == ConfigInit /\ [][ConfigNext]_configVars

(* Nobody waits for ever: a request either comes to its end, or its client  *)
(* gives up and net/http cancels the context.                               *)
ConfigFairness == \A k \in Client : WF_configVars(Fail(k))

ConfigFairSpec == ConfigSpec /\ ConfigFairness

-----------------------------------------------------------------------------
(* Properties                                                               *)

(* configurationBundle and AdminStageExecutions ask for a second connection *)
(* while they keep a first, so enough of them at once drain the pool; it    *)
(* never stays drained: whoever gives up gives back what it kept.           *)
PoolRecovers == []<>(Free > 0)

(* What a form was made from: the row it showed; if it showed none, all Put *)
(* can hold a rival against is the row it read itself.                      *)
Base(f) == IF f.seen = {} THEN f.read ELSE f.seen

(* Put and SaveHealthRule: the row a form replaces is the one it showed, not *)
(* one an import or another form has changed since.  Two rows it may never  *)
(* have shown: one made anew after a deletion, whose version is the same by *)
(* chance, and, for a form opened when there was no row, the one inserted   *)
(* meanwhile, because version 0 skips the check; from Put's own read on     *)
(* that row is guarded too.                                                 *)
EditsSeen ==
    [][\A e \in Editor :
        form[e].op \in {"upsert", "save"} /\ form'[e] = Idle /\ rows' # rows =>
            LET base == Base(form[e]) IN
            \A row \in rows[form[e].item] :
                row \in base \/ (base # {} /\ \A old \in base : old.id # row.id)]_configVars

(* An import that is applied is applied whole: every item is what the bundle *)
(* says (but a policy deleted under it), every other row is kept, but for   *)
(* the default flag of pipelines, and the fields of workspaces, system      *)
(* roles and secret settings are left alone, but for a secret inserted      *)
(* between the import's SELECT, which found nothing to refuse or lock, and  *)
(* its upsert: that one gets the bundle's plaintext value.  An import that  *)
(* ends otherwise changes nothing.                                          *)
ImportsWholeAndKeeps ==
    [][\A k \in Client :
        (k \in InTx /\ transfer'[k] = Idle) =>
            \/ rows' = rows
            \/ LET b == transfer[k].bundle IN
               /\ \A x \in DOMAIN b \ transfer[k].gone : \E row \in rows'[x] :
                    row.value = b[x] /\ (In(x, "customFields") => row.class = "open")
               /\ \A x \in Item : \A row \in rows[x] :
                    \/ row \in rows'[x]
                    \/ \E new \in rows'[x] :
                         /\ new.id = row.id /\ new.class = row.class
                         /\ row.class = "kept" => x \in transfer[k].met
                         /\ x \in DOMAIN b \/ (In(x, "pipelines") /\ row.value = Default /\ new.value = Plain)]_configVars
=============================================================================
