-------------------------------- MODULE Mail --------------------------------
(***************************************************************************)
(* The mail service: mail.Service with the background goroutine of every    *)
(* Notify (dispatch, deliver, complete), the administrator's SendNow, and   *)
(* the renewal digest the maintenance pass runs (NotifyRenewals).           *)
(*                                                                          *)
(* A slot of Delivery is one goroutine and the mail_deliveries row it       *)
(* writes; a finished slot is used again, so log[d] is the row of the       *)
(* latest delivery.  The digest dispatches in the maintenance pass itself,  *)
(* which the maintenance lock makes the only one, and has its own slot.     *)
(* Every caller names one recipient.  What a message says is a set of       *)
(* facts: contracts to renew, or requests with the status announced.        *)
(***************************************************************************)
EXTENDS Naturals, FiniteSets

CONSTANTS
    User,          \* accounts
    Admin,         \* accounts with admin:write
    NoUser,        \* the absent actor of a scheduled message
    Contract,      \* contracts
    Owner,         \* contracts.owner_id
    Rank,          \* the order owner_id, end_date, id of the digest's query
    Limit,         \* the LIMIT of the digest's query
    Request,       \* rows of approval_requests
    Delivery,      \* slots of background deliveries
    Digest,        \* the slot of the renewal digest
    MaxFaults,     \* bound on failed statements, relay errors and crashes
    MaxChanges     \* bound on what administrators and owners change

ASSUME MailAssumption ==
    /\ Owner \in [Contract -> User] /\ NoUser \notin User
    /\ Rank \in [Contract -> Nat] /\ Limit \in Nat
    /\ MaxFaults \in Nat /\ MaxChanges \in Nat
    /\ Digest \notin Delivery
    /\ User # {} /\ Admin \subseteq User
    /\ \A c \in Contract, q \in Request, s \in {"PENDING", "APPROVED", "REJECTED"} : c # <<q, s>>

VARIABLES
    config,    \* the mail settings
    account,   \* the users table: who has an address
    window,    \* ACTIVE contracts within renewal_notice_days of their end
    started,   \* contracts whose renewal_status is not NOT_STARTED
    ledger,    \* mail_notices
    aged,      \* ledger rows older than noticeAge
    job,       \* the goroutine in each slot
    log,       \* mail_deliveries.status
    relay,     \* how often the relay took the message of a slot
    inbox,     \* who was told which fact by a message the relay took
    tick,      \* NotifyRenewals
    faults,    \* what the bound on failures has left
    changes    \* what the bound on changes has left

settings == <<config, account>>
renewals == <<window, started, ledger, aged>>
sending  == <<job, log, relay, inbox>>
bounds   == <<faults, changes>>
mailVars == <<settings, renewals, sending, tick, bounds>>

Decision == {"APPROVED", "REJECTED"}
Fact     == Contract \cup (Request \X (Decision \cup {"PENDING"}))
Event    == {"renewal", "approval", "test"}
Slot     == Delivery \cup {Digest}

(* off: mail.enabled is false; muted: every mail.notify_* switch is off;    *)
(* incomplete: Validate names a missing setting.                            *)
Config == {"off", "muted", "incomplete", "ready"}

(* LookupEmails finds active accounts with an address.                      *)
Account == {"reachable", "no address", "inactive"}

Notification == [event : Event, to : User, actor : User \cup {NoUser}, facts : SUBSET Fact]

Job == [at : {"idle", "dispatch", "send", "complete"}, note : Notification,
        attempts : 0..2, sent : BOOLEAN]

Tick == [at : {"idle", "next", "wait", "ledger"}, left : SUBSET Contract, noticed : SUBSET Contract]

Told(note) == {note.to} \X note.facts

Nothing == [event |-> "test", to |-> CHOOSE u \in User : TRUE, actor |-> NoUser, facts |-> {}]
IdleJob == [at |-> "idle", note |-> Nothing, attempts |-> 0, sent |-> FALSE]
IdleTick == [at |-> "idle", left |-> {}, noticed |-> {}]

MailTypeOK ==
    /\ config \in Config
    /\ account \in [User -> Account]
    /\ window \subseteq Contract /\ started \subseteq Contract
    /\ ledger \subseteq Contract /\ aged \subseteq Contract
    /\ job \in [Slot -> Job]
    /\ log \in [Slot -> {"none", "queued", "sent", "failed"}]
    /\ relay \in [Slot -> 0..2]
    /\ inbox \subseteq User \X Fact
    /\ tick \in Tick
    /\ faults \in 0..MaxFaults /\ changes \in 0..MaxChanges

MailInit ==
    /\ config = "ready"
    /\ account = [x \in User |-> "reachable"]
    /\ window = {} /\ started = {} /\ ledger = {} /\ aged = {}
    /\ job = [d \in Slot |-> IdleJob]
    /\ log = [d \in Slot |-> "none"]
    /\ relay = [d \in Slot |-> 0]
    /\ inbox = {}
    /\ tick = IdleTick
    /\ faults = MaxFaults /\ changes = MaxChanges

-----------------------------------------------------------------------------
(* What happens around the service                                          *)

(* The bounds: a failure uses up a fault, a change a change.                *)
Fault  == faults > 0 /\ faults' = faults - 1 /\ UNCHANGED changes
Change == changes > 0 /\ changes' = changes - 1 /\ UNCHANGED faults

(* An administrator saves the mail settings.                                *)
Configure ==
    /\ Change
    /\ config' \in Config \ {config}
    /\ UNCHANGED <<account, renewals, sending, tick>>

(* updateUser gives an account an address, deleteUser deactivates it.       *)
ChangeAccount(u) ==
    /\ Change
    /\ \E state \in Account \ {account[u]} : account' = [account EXCEPT ![u] = state]
    /\ UNCHANGED <<config, renewals, sending, tick>>

(* The end of a contract comes closer, and its ledger row gets older.       *)
EnterWindow(c) ==
    /\ c \notin window
    /\ window' = window \cup {c}
    /\ UNCHANGED <<settings, started, ledger, aged, sending, tick, bounds>>

GrowOld(c) ==
    /\ c \in ledger \ aged
    /\ aged' = aged \cup {c}
    /\ UNCHANGED <<settings, window, started, ledger, sending, tick, bounds>>

(* UpdateContractRenewal: renewal_status leaves NOT_STARTED or returns.     *)
UpdateContractRenewal(c) ==
    /\ Change
    /\ started' = IF c \in started THEN started \ {c} ELSE started \cup {c}
    /\ UNCHANGED <<settings, window, ledger, aged, sending, tick>>

-----------------------------------------------------------------------------
(* Background deliveries                                                    *)

(* Notify: a goroutine of its own; in the digest, the pass itself.          *)
Start(d, note) ==
    /\ job[d].at = "idle"
    /\ job' = [job EXCEPT ![d] = [IdleJob EXCEPT !.at = "dispatch", !.note = note]]
    /\ log' = [log EXCEPT ![d] = "none"]
    /\ relay' = [relay EXCEPT ![d] = 0]
    /\ UNCHANGED inbox

ApprovalRequested(q, requester, approver) ==
    [event |-> "approval", to |-> approver, actor |-> requester, facts |-> {<<q, "PENDING">>}]

(* Mutant: the one who decided is told.                                     *)
ApprovalDecidedToActor(q, decision, actor, requester) ==
    [event |-> "approval", to |-> actor, actor |-> requester, facts |-> {<<q, decision>>}]

ApprovalDecided(q, decision, actor, requester) ==
    [event |-> "approval", to |-> requester, actor |-> actor, facts |-> {<<q, decision>>}]

ContractsDueForRenewal(contracts, owner) ==
    [event |-> "renewal", to |-> owner, actor |-> NoUser, facts |-> contracts]

TestMessage(u) == [event |-> "test", to |-> u, actor |-> u, facts |-> {}]

(* SendNow: the administrator's test button.                                *)
SendNow(d, u) ==
    /\ account[u] = "reachable"
    /\ Start(d, TestMessage(u))
    /\ UNCHANGED <<settings, renewals, tick, bounds>>

(* dispatch and resolve: the event is switched on, and its recipient has an *)
(* address and is not the one who acted.  SendNow asks only for             *)
(* mail.enabled.                                                            *)
Wanted(note) ==
    IF note.event = "test"
    THEN config # "off"
    ELSE /\ config \notin {"off", "muted"}
         /\ account[note.to] = "reachable"
         /\ note.to # note.actor

Finish(d, sent) == job' = [job EXCEPT ![d] = [IdleJob EXCEPT !.sent = sent]]

(* dispatch: settings and recipient are looked up and the row is recorded   *)
(* as queued.  A failed lookup ends it; a row that could not be recorded    *)
(* does not.                                                                *)
Dispatch(d) ==
    /\ job[d].at = "dispatch"
    /\ \/ /\ ~Wanted(job[d].note) /\ UNCHANGED <<log, bounds>>
          /\ Finish(d, FALSE)
       \/ /\ Fault /\ UNCHANGED log
          /\ Finish(d, FALSE)
       \/ /\ Wanted(job[d].note)
          /\ \/ log' = [log EXCEPT ![d] = "queued"] /\ UNCHANGED bounds
             \/ Fault /\ UNCHANGED log
          /\ job' = [job EXCEPT ![d].at = IF config = "incomplete" THEN "complete" ELSE "send"]
    /\ UNCHANGED <<settings, renewals, relay, inbox, tick>>

(* Mutant: a second attempt that failed still counts as delivered.          *)
DeliverGivesUpSilently(d) ==
    LET n == job[d].attempts + 1
        again == n = 1
    IN
    /\ job[d].at = "send"
    /\ \/ /\ relay' = [relay EXCEPT ![d] = @ + 1]
          /\ inbox' = inbox \cup Told(job[d].note)
          /\ job' = [job EXCEPT ![d].at = "complete", ![d].attempts = n, ![d].sent = TRUE]
          /\ UNCHANGED bounds
       \/ /\ Fault
          /\ UNCHANGED <<relay, inbox>>
          /\ job' = [job EXCEPT ![d].at = IF again THEN "send" ELSE "complete",
                                ![d].attempts = n, ![d].sent = ~again]
    /\ UNCHANGED <<settings, renewals, log, tick>>

(* deliver: one attempt.  The relay takes the message and Deliver succeeds, *)
(* or Deliver reports an error, and then the relay may have taken it all    *)
(* the same (the error came after DATA).  The first error is retried once,  *)
(* except by SendNow.                                                       *)
Deliver(d) ==
    LET n == job[d].attempts + 1
        again == n = 1 /\ job[d].note.event # "test"
    IN
    /\ job[d].at = "send"
    /\ \/ /\ relay' = [relay EXCEPT ![d] = @ + 1]
          /\ inbox' = inbox \cup Told(job[d].note)
          /\ job' = [job EXCEPT ![d].at = "complete", ![d].attempts = n, ![d].sent = TRUE]
          /\ UNCHANGED bounds
       \/ /\ Fault
          /\ \/ UNCHANGED <<relay, inbox>>
             \/ /\ relay' = [relay EXCEPT ![d] = @ + 1]
                /\ inbox' = inbox \cup Told(job[d].note)
          /\ job' = [job EXCEPT ![d].at = IF again THEN "send" ELSE "complete",
                                ![d].attempts = n]
    /\ UNCHANGED <<settings, renewals, log, tick>>

(* complete: the outcome goes into the row, if it was recorded and the      *)
(* UPDATE does not fail.                                                    *)
Complete(d) ==
    /\ job[d].at = "complete"
    /\ \/ /\ log' = [log EXCEPT ![d] = IF @ = "none" THEN @
                                       ELSE IF job[d].sent THEN "sent" ELSE "failed"]
          /\ UNCHANGED bounds
       \/ Fault /\ UNCHANGED log
    /\ Finish(d, job[d].sent)
    /\ UNCHANGED <<settings, renewals, relay, inbox, tick>>

-----------------------------------------------------------------------------
(* The renewal digest                                                       *)

(* PruneNotices: old rows of contracts that are not waiting for a renewal.  *)
Prunable == {c \in ledger \cap aged : c \in started}

(* Mutant: the query does not look at the ledger.                           *)
DueIgnoringLedger(noticed) == window \ started

(* Contracts in their window with no renewal started and no notice.         *)
Due(noticed) == (window \ started) \ noticed

(* The query's ORDER BY and LIMIT.                                          *)
First(contracts) ==
    {c \in contracts : Cardinality({x \in contracts : Rank[x] < Rank[c]}) < Limit}

(* A pruned notice counts no more: its contract may be announced again.     *)
Prune(rows) ==
    /\ ledger' = ledger \ rows
    /\ aged' = aged \ rows
    /\ inbox' = inbox \ (User \X rows)

(* NotifyRenewals begins: nothing is noticed unless the settings are ready. *)
(* A DELETE that fails is ignored.                                          *)
BeginRenewals ==
    /\ tick.at = "idle" /\ config = "ready"
    /\ \/ Prune(Prunable) /\ UNCHANGED bounds
       \/ Prune({}) /\ Prunable # {} /\ Fault
    /\ LET left == First(Due(ledger')) IN
       tick' = [IdleTick EXCEPT !.at = IF left = {} THEN "idle" ELSE "next", !.left = left]
    /\ UNCHANGED <<settings, window, started, job, log, relay>>

(* The next owner of the query's order gets one message about all of theirs. *)
NextOwner ==
    /\ tick.at = "next"
    /\ \E c \in tick.left :
        LET mine == {x \in tick.left : Owner[x] = Owner[c]} IN
        /\ \A x \in tick.left : Rank[c] <= Rank[x]
        /\ Start(Digest, ContractsDueForRenewal(mine, Owner[c]))
        /\ tick' = [tick EXCEPT !.at = "wait", !.left = @ \ mine, !.noticed = mine]
    /\ UNCHANGED <<settings, renewals, bounds>>

(* Mutant: the ledger is written whatever became of the delivery.           *)
AfterDispatchAnyOutcome ==
    /\ tick.at = "wait" /\ job[Digest].at = "idle"
    /\ tick' = [tick EXCEPT !.at = "ledger"]
    /\ UNCHANGED <<settings, renewals, sending, bounds>>

(* dispatch returned: zero deliveries accepted leave the ledger alone.      *)
AfterDispatch ==
    /\ tick.at = "wait" /\ job[Digest].at = "idle"
    /\ tick' = IF job[Digest].sent
               THEN [tick EXCEPT !.at = "ledger"]
               ELSE [tick EXCEPT !.at = IF tick.left = {} THEN "idle" ELSE "next", !.noticed = {}]
    /\ UNCHANGED <<settings, renewals, sending, bounds>>

(* One INSERT per contract; a failing one ends the pass.                    *)
RecordNotice(c) ==
    /\ tick.at = "ledger" /\ c \in tick.noticed
    /\ \/ /\ ledger' = ledger \cup {c}
          /\ tick' = LET rest == tick.noticed \ {c} IN
                     [tick EXCEPT !.noticed = rest,
                                  !.at = IF rest # {} THEN "ledger"
                                         ELSE IF tick.left = {} THEN "idle" ELSE "next"]
          /\ UNCHANGED bounds
       \/ Fault /\ tick' = IdleTick /\ UNCHANGED ledger
    /\ UNCHANGED <<settings, window, started, aged, sending>>

-----------------------------------------------------------------------------
(* The process dies: goroutines and the pass are gone, rows stay.           *)
MailCrash ==
    /\ Fault
    /\ job' = [d \in Slot |-> IdleJob]
    /\ tick' = IdleTick
    /\ UNCHANGED <<settings, renewals, log, relay, inbox>>

Renewing ==
    \/ BeginRenewals \/ NextOwner \/ AfterDispatch
    \/ \E c \in Contract : RecordNotice(c)

Delivering(d) == Dispatch(d) \/ Deliver(d) \/ Complete(d)

Around ==
    \/ Configure
    \/ \E u \in User : ChangeAccount(u)
    \/ \E c \in Contract : EnterWindow(c) \/ GrowOld(c) \/ UpdateContractRenewal(c)

MailNext ==
    \/ Around \/ Renewing
    \/ \E d \in Slot : Delivering(d)
    \/ \E d \in Delivery, u \in Admin : SendNow(d, u)

MailSpec == MailInit /\ [][MailNext \/ MailCrash]_mailVars

(* A goroutine runs while the process lives, and the maintenance pass is    *)
(* started every minute.                                                    *)
FairMailSpec ==
    /\ MailSpec
    /\ \A d \in Slot : WF_mailVars(Delivering(d))
    /\ WF_mailVars(Renewing)

-----------------------------------------------------------------------------
(* A delivery the log calls sent was taken by the relay, whichever attempt  *)
(* or status write failed on the way.                                       *)
SentMeansAccepted == \A d \in Slot : log[d] = "sent" => relay[d] > 0

(* NotifyRenewals: the ledger holds only contracts their owner was told of, *)
(* so a failed digest is tried again instead of being forgotten.            *)
LedgerMeansTold == \A c \in ledger : <<Owner[c], c>> \in inbox

(* A contract in the ledger is never put into another digest, and without a *)
(* failure no contract is put into two, however often the pass runs and     *)
(* whatever happens to renewals, accounts and settings meanwhile.           *)
NoticedOnce ==
    [][relay'[Digest] > relay[Digest] =>
        /\ job[Digest].note.facts \cap ledger = {}
        /\ faults = MaxFaults => Told(job[Digest].note) \cap inbox = {}]_mailVars

(* The query is cut at LIMIT before it is known who has an address: so many *)
(* contracts of owners without one keep those ranked after them out of      *)
(* every digest.                                                            *)
CrowdedOut(c) ==
    Cardinality({x \in Due(ledger) : Rank[x] < Rank[c] /\ account[Owner[x]] # "reachable"}) >= Limit

(* A contract that stays due, with mail configured and an owner who can be  *)
(* reached, is announced to the owner: failed digests are repeated, and     *)
(* those announced make room for those behind the LIMIT.  digest.go lines   *)
(* 8-10 promise it of everything pending; it does not hold of a contract    *)
(* that is crowded out, for as long as it is.                               *)
DueIsTold ==
    \A c \in Contract :
        <>[](/\ config = "ready" /\ c \in window \ started
             /\ account[Owner[c]] = "reachable" /\ ~CrowdedOut(c))
            => <>(<<Owner[c], c>> \in inbox)

(* Why the invariants hold: a message is sent at most twice, an outcome is  *)
(* only called sent when the relay took the message ...                     *)
OutcomesAreTrue ==
    \A d \in Slot :
        /\ job[d].at = "dispatch" => job[d].attempts = 0 /\ relay[d] = 0
        /\ job[d].at = "send" => job[d].attempts < 2 /\ relay[d] <= job[d].attempts
        /\ job[d].sent \/ log[d] = "sent" => relay[d] > 0

(* ... and the pass reaches the ledger with contracts whose owner was told. *)
OwnersToldOf(contracts) == \A c \in contracts : <<Owner[c], c>> \in inbox

DigestIsTrue ==
    /\ tick.at = "wait" =>
        /\ job[Digest].at # "idle" =>
             /\ job[Digest].note.facts = tick.noticed
             /\ \A c \in tick.noticed : Owner[c] = job[Digest].note.to
        /\ job[Digest].sent => OwnersToldOf(tick.noticed)
    /\ tick.at = "ledger" => OwnersToldOf(tick.noticed)

MailInv == MailTypeOK /\ OutcomesAreTrue /\ DigestIsTrue /\ LedgerMeansTold
=============================================================================
