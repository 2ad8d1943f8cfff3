# Relio: TLA+ models, checks and proofs

Relio is a CRM server: one Go process (several may share one PostgreSQL
database), a REST API, an MCP server for agents, a browser client and a
scheduler that ticks every minute. PostgreSQL holds all state but one file, the
master key on the `relio-data` volume. Most operations are a handful of SQL
statements, many of them outside a transaction, so the interesting behaviour is
what happens *between* the statements: another tab, another container, the
scheduler, a crash.

## Inventory

| Part | State it keeps | Operations | What is hard | What makes it correct |
|---|---|---|---|---|
| Instance key (`platform/secrets`) | `master.key`, `instance_data_key`, `instance_key_registry`, ciphertexts, key digests | `Resolve` at start-up, `Encrypt`, `Digest` | several first starts at once, crashes between file and database, lost volumes, changed `ENCRYPTION_KEY`, databases of older releases | one data key for the life of the installation; every stored credential opens; a start ends |
| Personal Keys (`apikey`, `auth.authenticateKey`) | `personal_keys` | create, change access, rotate, revoke, revoke all, authenticate | reads and writes in different statements, two tabs, the expiry pass | a stopped key never works again; no access change is lost; rotation leaves a working key |
| Maintenance (`job`) | advisory lock, ticker | expire keys, sessions, login states and idempotency keys; snapshot; analyze; mail | one lock for several containers and for start-up, a panic in the goroutine | single writer, never blocks a start for ever, survives each tick |
| Intelligence (`intelligence`) | `signals`, `risks`, `insights`, `recommendations`, `intelligence_runs` | scheduled and manual run, ignore, accept, answer | runs overlap, fail half way and crash; people decide meanwhile | decisions stand; what is shown converges to what the rules find |
| Customers (`crm`) | customers, contacts, merge history, what is filed under a customer | create, update, merge, delete | checks outside the transaction, versions, cascades | history survives; a retired customer stays retired; no update is lost |
| Contracts (`crm/contracts.go`) | contracts, revenue schedules, sales | create, activate, recognize, renew, sell | recognition twice, rounding of instalments, month ends | a schedule is exactly the due dates and the amount; a row is recognized once |
| Pipelines (`server`, `crm`, `intelligence`) | pipelines, stages, exit criteria, playbooks, opportunities | move deals through a gate, edit and reorder the board | gate and update are separate statements; stale board positions | a deal leaves a stage through its gate; order is kept |
| Approvals (`approval`) | policies, requests, steps, history | submit, decide, save and remove policies | two submissions at once, a decision racing another, stale approver | at most one decision per request, by somebody entitled |
| Requests (`voice`) | customer requests, events, workspaces, types, members, knowledge | file, move, comment, resolve, review; administer | status machine on stale reads, SLA clocks, isolation of workspaces | history is an allowed walk; clocks say what it says; requests stay in their workspace |
| Accounts and sign-on (`auth`, `oidc`, `server`) | users, roles, sessions, provider, login states | sign in, callback, provision, administer users and roles | replayed callbacks, two provisionings, revocation in several statements, silent sign-on loops | one session per login; one account per person; revocation complete; a visit settles |
| The door (`server`, `mcp`) | limiter, idempotency keys | admit, replay, MCP batches | eviction, retries beside the first attempt, panics in a batch | bursts bounded; answers are one's own; the request log tells the truth |
| Configuration (`server/admin_data.go`, `admin`) | settings, roles, pipelines, fields, health rules, policies | export, preview, apply a bundle; forms | imports beside forms, nested queries on a small pool | an import is whole or nothing; a form replaces the row it showed; the pool recovers |
| Mail (`mail`) | `mail_deliveries`, `mail_notices` | notify, renewal digest | background goroutines, retries, crash with a delivery queued | an accepted notice is not sent again; a failed one is retried |
| Forecast, health, analytics, relationship, personal, audit, config, time zone, API description, web client | mostly none of their own | queries and single statements | little | see PROJECT.json for each |

Interactions. `main` opens the database, migrates, calls `secrets.Resolve` and
exits if it refuses; then it starts the scheduler goroutine and the HTTP server.
The scheduler takes the advisory lock whose id `Resolve` also takes, expires
rows, and calls the forecast snapshot, `intelligence.RunIfDue` and the renewal
digest. Every request passes the door (`requireAuth`), which authenticates it by
session, Personal Key or access token; `auth` checks Personal Keys with digests
made by the data key, and `oidc` provisions accounts. The engine reads the CRM's
tables and writes its own; accepting advice inserts a CRM task. `crm` calls back
into `intelligence` for its stage gate. `approval` and `voice` notify through
`mail`. A configuration bundle writes the tables of half a dozen packages in one
transaction.

## Modules

| Module | Role |
|---|---|
| `InstanceKey` | abstract specification: what key resolution promises |
| `KeyEnvelope` | `secrets.Resolve` by several containers and the maintenance lock; it implements `InstanceKey` |
| `PersonalKeys` | one user's keys and the requests that change them |
| `Keys_proofs` | the proofs about `KeyEnvelope` and `PersonalKeys` |
| `Intelligence`, `Intelligence_proofs` | the rule engine, its runs and human decisions |
| `Mail` | background deliveries and the renewal digest |
| `Approvals` | policies, submissions and decisions, composed with `Mail` |
| `Customers` | customer records and what is filed under them |
| `Contracts`, `Contracts_proofs` | contracts, schedules and sales, composed with `Customers` |
| `Pipelines`, `Pipelines_proofs` | the board, the stage gate and the deals |
| `Accounts` | users, roles, sessions, password sign-in |
| `SignOn`, `SignOn_proofs` | single sign-on and a browser tab, composed with `Accounts` |
| `Workspaces` | workspaces, request types, members, filing |
| `Voices`, `Voices_proofs` | the life of a request, composed with `Workspaces` |
| `Gateway`, `Gateway_proofs` | limiter, idempotency keys, MCP batches |
| `Configuration` | configuration bundles, forms and the connection pool |
| `ApprovalsConfiguration_proofs` | the proofs about `Configuration`, and about `Mail` and `Approvals`: the two sides on which approval policies are kept and used |
| `MC*` and `.cfg` | small instances for TLC |

The newer modules share one convention: a slot of `Client` is one request of the
server, and its record is what the handler remembers between two statements.
`Begin` starts a request, `Await` leaves it at the next statement, `Done` ends
it; a transaction that only writes is one step. `begun` counts requests against
`MaxRequests`. Modules whose proofs share a file have names of their own for
what the others call `Init`, `Next` or `Spec` (`KeysSpec`, `ConfigSpec`).

### InstanceKey and KeyEnvelope

Each container is at a program counter of `main`/`Resolve`: `Stat` and `Count`
(the first `Lstat` and `protectedMaterialCount`, before any lock), `CheckLost`,
`WrappingKey`, `CreateFile` and `WriteFile` (`LoadOrCreate`, in two steps because
the file is empty in between), `AcquireLock`, `ResolveDataKey`
(`resolveDataKey`), `Commit` (the rest of the transaction). `Refuse` is an error
return followed by `os.Exit(1)`; `Crash` may happen anywhere and loses the
transaction and the lock, not the file. `StoreSecret`, `IssueKey` and `Retire`
stand for every write and removal of a protected value;
`BeginMaintenance`/`EndMaintenance` for `job.Runner.maintain` on a pooled
connection of its own. Operators (environment actions `Start`, `ReplaceVolume`)
start a container with any volume and any `ENCRYPTION_KEY`, and recreate or
restore volumes nobody has mounted.

Keys are opaque values: a fingerprint is the key it names, AES-GCM opens exactly
under the key that sealed, random keys are fresh. The first start meets one of
four kinds of database (`Install`): new, 1.5 with a registered fingerprint,
older with ciphertext, older with only Personal Keys.

`InstanceKey` hides all of this: an installation is bound to one key, containers
serve with it, credentials are sealed by it. The refinement maps `bound` to the
registry row.

### PersonalKeys

A request is a process: `BeginCreate` (the count against `max_per_user`),
`Insert`; `BeginRotate`, `Insert`, `RetireRotated`; `BeginUpdate`, `CheckUpdate`, `Apply`. Each step is one
statement of `apikey/service.go`, and `Abort` may end the request between any
two. Revocations are single statements. `RevokeRotated` and `ExpireKeys` are the
two statements of the maintenance pass, in its order; `KeysEnd` is about both, and a
grace period ends before the key expires in the run. Scopes and channels are
one set of grants. `Accepts` is the test of `authenticateKey`, with the exact
comparisons of expiry and grace, which differ from those of the pass. Revoking
keys when a user is deactivated (`detachUser`) has the effect of `RevokeAll`.

### Intelligence

The facts about an account are records of the conditions the rules test, cut at
the rules' thresholds; `AccountSignals`, `OpportunitySignals`,
`ContractSignals`, `Points` and `Recommend` are the rules and the scores of
`engine.go`, with their points. A run reads accounts, then deals and contracts
(`Begin`, `ReadRecords`), writes signals, then risks, then insight and advice
account by account (`Advise`), and finishes, which expires insights (`Finish`,
and `Age` for the passing of their 14 days). Nothing is transactional, so each
write may also stop half way (`Fail`), after which the run records its error or
not. `Panic` is the nil account of a deactivated customer. A manual run may
overlap the scheduled one. People ignore signals and accept risks by id; an
answer to a recommendation reads it in one step and writes it in another.
Deactivation is the half of `DeleteCustomer` for customers with history; the
other half removes a customer together with its rows.

### Mail

A slot is one goroutine of `Notify` together with the `mail_deliveries` row it
writes: `Start` (`Notify`), `Dispatch` (settings, recipient, the queued row),
`Deliver` (one attempt), `Complete` (the outcome). A failed attempt may still
have reached the relay, because `Deliver` in `mail.go` can return an error after
the body was accepted; the first failure is retried. `SendNow` is the
administrator's test message, without the event switches, the recipient lookup
and the retry. The digest (`BeginRenewals`, `NextOwner`, `AfterDispatch`,
`RecordNotice`) runs inside the maintenance pass, whose lock makes it the only
one, and delivers in a slot of its own. `relay` and `inbox` are what the outside
world saw: how often the relay took the message of a slot, and who was told
which fact. When `PruneNotices` forgets a notice, `inbox` forgets it too: the
contract may be announced again after a renewal, on purpose. `MailCrash` loses
goroutines and the pass, and keeps the rows. Contracts stay in their window once
they enter it, because nothing in the code changes `end_date` or leaves the
status `ACTIVE`.

### Approvals

`Approvals` extends `Mail`: `Insert` and `CommitDecision` start a delivery in
the step that commits. Every request the server handles is a call that goes
through the statements of `Submit` (`Submit`, `CheckPending`, `ResolveApprover`,
`Insert`), of `Decide` (`Decide`, `CommitDecision`) or of `deletePolicy`
(`CountRequests`, then `RemovePolicy` or `DeactivatePolicy`). A lookup whose
error the code ignores may fail and then counts as nothing found. The foreign
key from `approval_requests` to `approval_policies` is in both directions of the
race: an insert fails when the policy is gone, a delete fails when a request has
come to refer to it. The snapshot of an entity is the one number conditions test;
`TextIn` says which numbers' digits contain which, for `CONTAINS`.

### Customers and Contracts

Every handler first reads the customer (`GetCustomer` wants an active row) and
writes later. `ReadCustomer` then `UpdateCustomer` (guarded by the version);
`ReadTarget`, `ReadSource`, then `MergeCustomers`, whose transaction retires
a source only if it is still active; `ReadDeleted`, `CountHistory`, then
`DiscardCustomer` or `DeactivateCustomer`; `ReadFor` then a filing.  `deal`
stands for the tables whose foreign key refuses the deletion of a customer,
`voice` for customer requests, which cascade; a deletion remembers the requests
filed when it counted (`counted`), so that `HistoryKept` can say which of them it
may take: those filed since. `Contracts` adds `CreateContract`,
`ActivateContract` (which writes the schedule), `UpdateContractRenewal`,
recognition (`ReadRow`, `LockRow` for `SELECT ... FOR UPDATE`, `BookSale`,
`RollBack`) and sales entered by hand, and gives `Merge` and `Delete` their
effect on contracts and sales. The schedule is computed as the code does:
`AddMonthsClamped` from the anchor, `Occurrences` up to the end date or
`MaxScheduleEntries`, `SplitScheduleAmount` in cents. `DueDates` is the
reference definition without the loop.

### Pipelines

A deal is the set of its filled fields. An update reads the deal (`ReadDeal`),
the target stage (`ReadTarget`), passes `ValidateStageTransition` and writes
(`UpdateOpportunity`, guarded by the version); `AddActivity` and
`SetPlaybookProgress` write without a version. Administrators create, change and
delete pipelines and stages; `Reordered` is the shift of `updateStage` between
the position *read* and the new one. A position
used twice violates a unique index and rolls the transaction back; the index is
checked row by row, so a shift of several rows may also fail without need. `is_won`
stands for `is_lost` too.

### Accounts and SignOn

`Accounts` has password sign-in (`VerifyPassword`, `InsertSession`), the
administrator's `updateUser` (`ReadUser`, `UpdateUser`, `DetachUser`), password
reset, deletion, roles with `InvalidateRoleSessions`, and `deleteRole`
(`ReadRole`, `CountRole`, `DeleteRole`). An account's `era` advances with each
password reset, deletion and step from active to inactive, whether or not the
handler goes on to end the sessions, and a session remembers the era its row was
inserted in. `DetachUser` is the DELETE, whose error the code drops; it may fail.
`spared` remembers that a revocation left a session because its DELETE failed or
because `updateUser`, from a form that read the account as inactive, sent none.
A password sign-in verified before a reset whose row is inserted after the DELETE
counts as opened after it. `SignOn` has the
provider's configuration, login states, the callback (`Take` is the one DELETE
that reads and spends the state; `Exchange`, `ResolveFound`/`ResolveNew`,
`RepairRoles`, `ProvisionUser`, `OpenSession`), the access token of an agent
(`PresentToken`), and one tab: `Load`, `Start`, the provider, `Callback`,
`AbandonLogin` with `RefusalRedirect`. Other browsers start logins and present
callbacks too, the tab's own among them. The provider answers as it likes.

### Workspaces and Voices

`Workspaces`: administrators create and change workspaces, presets and request
types; members are registered from a list (`ReadRoster`, `CheckRow`,
`RegisterRow`); a request is filed in three steps (`Intake` reads the type and
its workspace, `ReadMember` the customer, `File` inserts). `Voices`: `Read`,
then `Update` (guarded by the version), `ChangeCategory`, `Resolve` with its
preliminary move out of intake, `Comment`, and the knowledge review, whose
UPDATE names only the id. A clock holds the version of the row when it was set.

### Gateway

`Arrive` reads the limit, or falls back when the SELECT fails (`PolicyLimit`);
`Admit`/`Limited` are `requestLimiter.allow` with its
fixed windows and the eviction beyond `MaxEntries`. `LookUp`, `Run`, `Store` are
`serveIdempotent`; the store's error is ignored and its conflict does nothing.
`Receive`, `Dispatch`, `Log` are MCP's `ServeHTTP`: one message at a time. That a
panic stays within its message is the deferred `recover` of `safeDispatch`, taken
over and not derived, so no property is about it. Time goes in half minutes and is kept as ages, so no
clock is needed.

### Configuration

A row stands for a setting, a role, a pipeline with all below it, a custom
field, a health rule or a policy. Export and preview read section by section
(`ReadSections`, `OpenRows`, `ReadInner`: the nested queries keep one connection
and ask for another); an import compares, then finds and writes item by item in
a READ COMMITTED transaction (`Find`, `Write`, `Commit`, or `Fail`), whose rows
are locked. Forms (`OpenForm`, `ReadSetting`, `WriteSetting`, `SaveHealthRule`)
and single-statement changes run beside it. A form of a setting carries what it
`seen` when it was opened and what `Put` `read`: `Put` compares the first with
the row unless the form showed none (version 0, `settings.go:167`), and its
UPDATE compares the second. An import remembers the settings whose SELECT found
nothing but whose upsert `met` a row. The sales execution of a pipeline
is part of the pipeline's value.

## Runs

| Run | Instance | Shows |
|---|---|---|
| `key_envelope` | 2 containers, 1 volume, 3 keys, 1 vault key, every database but one with only digests | `CredentialsReadable`, `SealedByDurableFile`, `BoundForLife` (refinement), `BootEnds` |
| `personal_keys` | 2 key rows, 2 tabs, 2 grants, lifetimes of 1 and 2 time units, grace of 1 | `NeverAcceptedAgain`, `UpdateReplacesWhatWasSeen`, `RotationNeverStrands`, `KeysEnd` |
| `intelligence` | 1 account that may be deactivated, 2 situations, 1 person, 1 failure, 1 decision, both triggers | `DecisionsStand`, `RowsFollowFacts`, `AdviceFollowsFacts`, `InsightsAgeOut` |
| `intelligence_panic` | the same | **violation** of `EveryTickIsSafe`: see Findings |
| `mail` | 3 contracts of 2 owners, a limit of 2, 2 failures, 2 changes | `SentMeansAccepted`, `LedgerMeansTold`, `NoticedOnce`, `DueIsTold` |
| `approvals` | 3 accounts, 1 policy, 1 entity, 1 request, 2 calls, 1 background delivery, 1 failure, 2 changes | `DecidedOnce`, `NewsIsTrue`, `PolicyOutlivesRequests`, `RequesterIsTold` |
| `contracts` | 2 customers, 1 contact, deal, request and contract, 2 sales, 2 slots, 4 requests; months of 31, 28, 31, 30 days; a month-end monthly schedule, one over the limit of 3 entries, a one-time one | `ScheduleMatches`, `RecognizedOnce`, `NothingOverwritten`, `HistoryKept`, `RetiredForGood` |
| `pipelines` | 2 pipelines, 3 stages, 1 deal, 2 slots, 4 requests | `StageChangeGated`, `BoardOrderKept` |
| `sign_on` | 3 accounts, 1 of them switched off before or not, 1 person of the provider, 3 roles, 1 login, 3 provider settings, 3 slots, 2 requests beside the tab | `OneSessionPerLogin`, `OneAccountPerPerson`, `RevocationComplete`, `VisitSettles` |
| `voices` | 1 workspace, type, member and request, 2 organizations, 2 slots, 4 versions, 4 requests | `LifecycleHonest`, `ClocksTold`, `FiledAtHome` |
| `gateway` | 1 user at 2 doors, 1 key, 2 digests, 2 batches, limits 0 and 1, fallback 1, 1 entry before eviction, 2 slots, 5 requests | `BurstBounded`, `AnswersOwn` |
| `configuration` | 7 items of all sections, 3 bundles, 2 slots, 1 form, pool of 2, 1 edit | `PoolRecovers`, `EditsSeen`, `ImportsWholeAndKeeps` |

Bounds. Two containers and one shared volume are enough for every race of
`Resolve`: the lock admits one, and the file has one creator; a third key is
needed so that a fresh one exists beside the vault's and the file's. Two tabs
and two rows are what a rotation racing a change or a second rotation needs;
`MaxVersion` and `MaxTime` cap counters that only grow. For the engine one
account is enough because rows of different accounts only meet in the loop over
`run.left`, and in the panic that ends it early; two situations differ in every
table. For mail, two owners of whom one has two contracts give digests of one
and of several rows and a pass with several owners; two failures are a retry
that fails as well, or a failure and a crash. `Limit` stands for the 500 of the
query: two contracts of the first owner fill it and the third has to wait, until
they are announced or, while that owner has no address, for ever. For approvals two calls are every pairwise race; one
delivery slot serialises the mails of a request, whose contents never depend on
one another.

In the newer modules two slots are every pairwise race of handlers, and
`MaxRequests` lets a pair be prepared by earlier requests: four are a customer
with a filing, then two rivals; a deal, a criterion, then two moves. Two
customers suffice because a merge relates two; sources are read and
retired one by one, so a third would only repeat a step. Three stages are the fewest of which one
moves between two. Four versions of a request are resolve, reopen and resolve
or close; longer histories are covered by the proofs, which bound nothing. One login
state is started by the tab or by another browser and its callback presented by
both; three slots are the tab's and two rivals. Three accounts are the
administrator, a local and a provisioned one. A window, one caller
more than `MaxEntries` and half-minute ticks are enough to evict a neighbour and
to straddle two windows; `BurstBounded` is proved for all limits. A pool of two
is the smallest in which two nested readers wait for each other. Deadlock is
checked for `key_envelope` and `personal_keys`; elsewhere the system may rest
once nothing is due and the bounds are used up.

Fairness. `KeyEnvelope`: a process that is not killed keeps executing; the lock
is granted to a waiter in the end (strong fairness), because PostgreSQL queues
waiters for a lock and a `pg_try_advisory_lock` does not overtake them; a pass
ends. `PersonalKeys`: the ticker runs a pass every minute (`WF(Maintain)`);
requests are not assumed to finish. `Intelligence`: minutes pass, the container
is restarted, a due tick begins a run, and statements return; people and the CRM
are not fair. Convergence is stated for a CRM that stops changing. `Mail` and
`Approvals`: a goroutine and a request keep executing while the process lives,
and the ticker starts a pass every minute (`WF(Renewing)`); people, failures and
the calendar are not fair. `DueIsTold` holds although failures may hit any
statement, because each is used up in the end; `RequesterIsTold` is claimed only
without a failure, since a crash does lose background mail. `SignOn`: a handler
runs to its end (`WF(Proceed(k))`), and the browser follows redirects and a
silent attempt is answered without anybody's help (`WF(Navigate)`); what a
person or an administrator does is not fair. `Configuration`: a request that
waits gives up in the end (`WF(Fail(k))`), because a client gives up and
`net/http` cancels the request's context; progress is not assumed.

## Proofs

For every value of the constants that satisfies the `ASSUME`s:

* `Keys_proofs`, about `KeyEnvelope`: `Invariance` (the inductive `IInv`),
  `CredentialsStayReadable`, `KeysAlwaysAgree`, `FileSealIsDurable`,
  `ImplementsInstanceKey`. All assume that the installation can be verified
  (the last disagreement below is about the kind that cannot).
  `CredentialsReadable` is not inductive: a start decides from a count it read
  before the lock and from a transaction's own state.
  `Exclusive` says only the lock holder resolves and commits and only one
  container writes a volume's file; `HoldsWrap` that a start without
  `ENCRYPTION_KEY` still holds what the file holds; `CountIsFresh` that as long
  as nobody is bound the count cannot have moved, since only a serving container
  stores credentials; `Proposal` that what is about to be committed opens
  everything stored.
* `Keys_proofs`, about `PersonalKeys`: `KeysInvariance`, `StoppedKeysStayStopped`,
  `NoLostAccessChange`, `RotationKeepsAKey`. The strengthening says what a
  request in flight still knows: `TabsTrackVersions` (an equal version means
  equal scopes) and `RotationsHaveKeys` (the replacement is another row, in use).
* `Intelligence_proofs`: `HumanDecisionsSurvive` (`DecisionsStand`), from the
  types of the rows and of the runs in flight. It needs no memory of what a run
  has read: each write keeps a decided row decided whatever the run knew, which
  is proved of every write, whole or cut off half way, for all situations.
* `ApprovalsConfiguration_proofs`, about `Mail`: `MailInvariant`, and from it
  `MailTypeCorrect`, `SentIsAccepted`, `LedgerIsTold`. `LedgerMeansTold` is not
  inductive: the pass acts on the outcome of a delivery long after the message was composed.
  `OutcomesAreTrue` says that an outcome called sent, in the goroutine or in the
  row, implies that the relay took the message, and that attempts bound what the
  relay took; `DigestIsTrue` that the message in the digest's slot is about the
  contracts the pass is going to record, for their owner. One lemma (`SlotStep`)
  says what a step of a single slot has to establish, and each action cites it.
  `ContractsAreNoticedOnce` (`NoticedOnce`) is about a step that happens long
  after the query that chose the contracts. `DigestInPass` says that the
  digest's slot works only while the pass waits for it, and that no other
  message is about contracts; `Unnoticed` that the pass has only contracts that
  are not in the ledger; `ToldAreNoticed` that without a failure a contract whose
  owner was told is in the ledger or in the pass that is about to record it.
* `ApprovalsConfiguration_proofs`, about `Approvals`: `ApprovalInvariant`, and
  from it `TypeCorrect`, `RequestsAreDecidedOnce`, `AnnouncedDecisionsStand`,
  `PoliciesOutliveRequests`. The strengthening says that a decision in flight is
  by someone entitled (`DecidersAreEntitled`: the designated approver never
  changes) and that a message on its way tells the truth (`NotesAreTrue`);
  `MailInv` is carried along, so the results about mail hold in the composition.
* `Gateway_proofs`: `GatewayInvariant`, and from it `BurstsAreBounded` and
  `KeyedAnswersAreOwn`. `BurstBounded` is not inductive:
  it counts admissions, the limiter counts windows. `Counted` ties the two by
  the age of the caller's window: a fresh one bounds what was admitted in this
  half minute, one half a minute old what was admitted in both, one a minute old
  leaves only the half before, an older one nothing. That is why evicting
  windows older than two minutes is harmless, and a caller without a window has
  nothing admitted. `KeptOK`
  says that a stored answer is its own request's.
* `SignOn_proofs`: `SignOnInvariant`, and from it `RevocationsComplete`,
  `PersonsHaveOneAccount`, `LoginsOpenOneSession`. `Refs` says that what a
  request between two statements refers to exists; `LoginOnce` that a sign-in is
  at exactly one place (its row waits, one callback works for it, or its session
  was opened), which is what the DELETE ... RETURNING buys; `RevocationComplete`
  is carried along with the eras: a session older than its account's era is live
  only while the request that advanced it is about to detach it, or if the
  account was spared, and a later DELETE that succeeds ends what was spared.
* `Contracts_proofs`: `TypesKept`, `RetiredStayRetired`, `HistoryIsKept`,
  `NothingIsOverwritten`, `SchedulesMatch`, `RevenueBookedOnce`. `Filed` says that
  everything filed names a customer whose row is there, which `HistoryKept` needs
  before the step: a row goes only if nothing is filed on it at that moment
  (`GoneOnlyIf`), whatever `CountHistory` saw. For requests,
  which cascade, `Counted` says that those a deletion had counted are not under
  its customer: none moves there, because a merge into it leaves a row that
  refuses the deletion. `Current`: what a request read is
  the row, or the row has a later version. `Planned`: a schedule is what
  `RevenueSchedule` computes from the terms of its contract, and an activation in
  flight has read those terms, which never change. `Held`: from `LockRow` to
  `BookSale` each recognition holds the lock of a PLANNED row of its own;
  `Booked`: a RECOGNIZED row and its sale name each other, one to one. That
  `RevenueSchedule` meets its reference definition (`DueDates`, the sum of the
  rows) for every calendar, terms and amount is proved without an induction
  theorem: `Least` gives a nonempty set of naturals a least element, and a
  smallest row that breaks the claim leads to a contradiction. `OccurrencesAre`
  shows in this way that the dates up to the end are an initial segment,
  `TotalIs` and `SplitTotal` that the cents add up.
* `Voices_proofs`: `TypesKept`, `HistoryIsHonest`, `ClocksFollowHistory`,
  `RequestsStayHome`. `Readings` says that what a handler read is the row or an
  earlier version of it, with the same status and resolution if the versions are
  equal: so the guarded UPDATE moves the request from the status that was judged.
  `Histories` relates the whole history to the row: the walk (`Walked`), the
  first answer (`AnswerTold`), the last entries into RESOLVED and CLOSED
  (`EndTold`), and times that do not exceed the version (`Dated`). `FiledRows` and
  `FiledSlots`: what is filed, or about to be, names a customer at home in its
  workspace; members are registered once and never move. The effect lemmas
  `RowsAdvance`, `RowsKept`, `MembersStay`, `FilingsKept` and `SlotsKept` say what
  any step may do to each table, so that every part of the invariant is argued
  once and not once per action.

* `Pipelines_proofs`: `Invariance`, `TypeCorrect`, `StageChangesAreGated`,
  `BoardsKeepOrder`. `StageChangeGated` is about a write two statements after
  the gate. `ReadHolds` says what a request that read a deal knows: the version
  only grows, and while it is the one read, the deal is in the stage read.
  `GateHolds` says that a request about to write, if the version still allows
  it, stays in its stage or was judged by the gate of the stage the deal is in,
  and that what is lasting in that gate still holds, because only an activity
  changes a deal without a version, and it only fills the next action (`Grown`).
  `BoardOrderKept` needs no memory of the past but a lemma about the shift:
  `ReorderedShifts` says that the stages between the two positions move by one
  and the others not at all, whatever position the request had read, and
  `ShiftsKeepOrder` that such a move changes the order of no two of them.
* `ApprovalsConfiguration_proofs`, about `Configuration`: `ConfigInvariance`,
  `FormsSeeEdits`, `ImportsAreWhole`. Both properties relate a step to what was
  read many steps earlier. `RowsOK`: ids are given once, a setting and a health
  rule have one row. `FormOK`: what a form shows, or `Put` has read for it, is its
  row, an older version of it, or a row that is gone; so an equal version means an
  equal row, and what `Put` read has the version of what the form showed. `WritesOK`:
  a pending write replaces a row that stays as the transaction saw it until the
  commit, with a later version if it differs (`Based`), or is a row no table and
  no form knows (`Unknown`). `BundleOK`: what the bundle is done with is written
  as it says. `TargetOK`: no other statement turns a role into a system role after
  `Find` saw none, and a setting `Find` saw was no secret and, being locked,
  becomes none; the one it did not see is the exception of `ImportsWholeAndKeeps`. `Apart`: two transactions never write one row, nor insert
  twice under a key that has one row. `Untouched` says what a step of somebody
  else must leave alone, and `Undisturbed` that all of this survives such a
  step, so each edit is argued once against every transaction in flight; the
  row locks are what makes it true.
  `ConfigurationAssumption` says of a bundle what `validateConfigurationBundle`
  enforces (one default pipeline at most) and of the configurations at the start
  what the schema does (`Keyed`: ids are primary keys, a setting and a rule are
  unique).

Type correctness is part of each inductive invariant. Every invariant and every
action property the runs check is a theorem. Only model-checked: liveness
(`BootEnds`, `KeysEnd`, `RowsFollowFacts`, `AdviceFollowsFacts`,
`InsightsAgeOut`, `DueIsTold`, `RequesterIsTold`, `VisitSettles`, `PoolRecovers`), which is out of the prover's
reach, and the violation.

## Findings

`intelligence/engine.go:186`: a deactivated customer with a stalled or overdue
deal or an expiring contract makes the scheduler panic on every start, although
`job/runner.go:29-30` says of the analysis that "calling it every tick is safe"
(`intelligence_panic`).

## Disagreements with the documentation

Besides the finding, the code departs from what the repository says of it in the
cases below. Where a property covers the case, its formula names the exception
exactly, the run reaches it, and the property claims the rest.

* Requests are lost with a customer. `crm/contacts.go:176-178`: opportunities,
  contracts and requests "are never silently discarded"; `src/README.md:49` says
  the same. A request filed after `DeleteCustomer` counted goes with the customer
  by cascade. `HistoryKept` allows the loss of exactly these.
* Sessions outlive a revocation. `admin_crud.go:179-180`: `detachUser` "revokes
  everything a deactivated account could still use"; `docs/ADMIN_GUIDE.md:347`:
  after a deactivation sign-in is blocked at once and sessions end. The errors of
  its statements are dropped (`:182`, also `:252`), and an `updateUser` whose form
  read the account as inactive, while somebody activated it, deactivates without
  detaching (`:158`). `RevocationComplete` allows a session that was `spared` in
  one of these two ways.
* The digest can starve owners. `mail/digest.go:8-10`: turning mail on "tells
  owners about everything currently pending". The query is cut at 500 rows
  (`:40`) before anybody asks who has an address; contracts of owners without one
  stay in it and can keep later owners out for ever. `DueIsTold` is claimed for
  contracts that are not `CrowdedOut` in the end.
* An import replaces a secret. `admin_data.go:625` tells the administrator that
  secrets are not part of a bundle, and `:679-681` refuses a setting that is one.
  A secret inserted after that SELECT and before the upsert becomes plaintext.
  `ImportsWholeAndKeeps` allows this for a setting that was `met` in this way.
* Knowledge stays approved. `voice/knowledge.go:31-32`: "only a resolved or closed
  case can be approved". The UPDATE of `Review` names only the id, so a case
  reopened since it was read is approved and stays so. `Voices` has the step; no
  property claims otherwise.
* A wrong key is accepted. `src/README.md:116`: a database with active Personal
  Keys and another key or volume stops the start. A database of before the
  registry that holds only key digests has no ciphertext to verify against, and
  any key is adopted (`integrity.go:349`). The `key_envelope` run and the
  theorems leave out this one kind of `Install`.

## Observations

What modelling met besides; nothing in the repository states the opposite, or the
case is outside a module's abstraction.

* Keys: rotation
  compares no version, so a narrowing saved meanwhile is undone by the
  replacement (`apikey/service.go:337`). Concurrent creations may exceed
  `max_per_user` (`:229`), and `RevokeAll` does not see a creation in flight
  (`:390`).
* Engine: advice for an account with no signal left stays open
  (`engine.go:185`); the upsert of a signal keeps an old `account_id` after a
  merge (`store.go:108`).
* Mail and approvals: two submissions
  can leave two pending requests for an entity (`approval/service.go:334`); an
  inactive manager may be designated (`:373`).
* Customers: contacts are last-writer-wins.
* Pipelines: activities write the next action without a version; two deletions
  at once can empty a pipeline; there may be none or two default pipelines; a
  deal moved from a won stage to an open one keeps its status.
* Accounts: a login verified before a password reset may insert its session
  after it; `deleteRole` may leave a user
  without a role; organizations and managers can be made cyclic by two edits
  (`admin_crud.go:167`, `:447`).
* OIDC keys: within the refresh interval a cached key is returned whatever its
  age (`oidc/access.go:310`); a failed fetch writes back its stale copy over a
  concurrent success (`:321`).
* Requests: an intake keeps the organization it read; a
  change of the code scope beside a registration may leave a duplicate code;
  moving a type to another workspace leaves its requests where they were filed.
* Door: concurrent duplicates with one idempotency key both run; answers without
  a body are not stored; an expired row not yet removed blocks storing.
* Configuration: a settings form opened when there was no row sends version 0
  (`adminSettings.ts`), which skips the check of `settings.go:167`, so it replaces
  a row an import inserted meanwhile and the form never showed; a row deleted and
  made anew may meet a form of equal version (`EditsSeen` excepts both); two
  applies at once may duplicate names, after which every preview is refused; a
  policy deleted under an import is silently missing; importing a role does not
  end its members' sessions.
* Forecast: the snapshot deletes and inserts without a transaction
  (`forecast.go:59`).

## Plan

1. `Forecast` and `Health`: daily snapshot, overrides, health rules as pure
   operators.
2. Composition: start-up, maintenance pass and services of several containers;
   the assignment mail of `Voices` through `Mail`.

## Not modelled

Formatting and wording, HTTP decoding, what each MCP tool does beyond the
service it calls, SQL reads that change nothing (lists, searches, reports,
dashboards, the relationship graph), audit and history rows, cryptographic
primitives, SMTP, discovery and key caches of the identity provider, the
tracker scripts of analytics, and single-statement writes with no rule between
them (leads, products, targets, tasks, preferences). PROJECT.json lists every
part with its reason.
