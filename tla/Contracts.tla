----------------------------- MODULE Contracts -----------------------------
(***************************************************************************)
(* Contracts, their revenue schedules and sales (package crm), with the     *)
(* customers they belong to: creating and activating a contract writes one  *)
(* row per recurring date, and recognizing a row books a sale.              *)
(*                                                                          *)
(* A date is a month of the calendar and a day in it; amounts are cents.    *)
(* A slot of Client works on customers or on contracts, never on both.      *)
(***************************************************************************)
EXTENDS Customers, Sequences

CONSTANTS
    Contract,            \* ids of contracts
    Sale,                \* ids of sales
    NoRow,               \* the schedule row of a sale entered by hand
    Terms,               \* inputs: start, end, revenue_schedule_type, amount
    NoDate,              \* a date left out
    LastDay,             \* the number of days of each month
    MaxContractVersion,  \* bound on the versions of a contract
    MaxScheduleEntries   \* maxScheduleEntries

Month == DOMAIN LastDay
Date == Month \X (1..31)
RealDate == {d \in Date : d[2] <= LastDay[d[1]]}
Term == [start : RealDate \cup {NoDate}, end : RealDate \cup {NoDate},
         type : {"ONE_TIME", "MONTHLY", "QUARTERLY", "ANNUAL"}, amount : Nat]

ASSUME ContractsAssumption ==
    /\ MaxScheduleEntries \in Nat \ {0} /\ MaxContractVersion \in Nat \ {0}
    /\ NoRow \notin Contract \X Nat /\ NoRow \notin Contract
    /\ LastDay \in Seq(1..31) /\ NoDate \notin Date
    /\ Terms \subseteq Term /\ Terms # {}

VARIABLES
    contract,   \* contracts
    schedule,   \* revenue_schedules: the rows of each contract by sequence_no
    sale,       \* sales
    lock,       \* schedule rows a transaction holds FOR UPDATE
    clerk       \* the requests on contracts in progress

contractVars == <<contract, schedule, sale, lock, clerk>>
vars == <<crmVars, contractVars>>

SomeTerms == CHOOSE t \in Terms : TRUE

(* status "none" is an id not yet inserted; renewal is renewal_status.      *)
ContractRow == [status : {"none", "DRAFT", "ACTIVE"}, customer : Customer \cup {NoCustomer},
                terms : Terms, renewal : Kind, version : 0..MaxContractVersion]
ScheduleRow == [date : Date, amount : Nat, status : {"PLANNED", "RECOGNIZED"}]
SaleRow == [customer : Customer \cup {NoCustomer}, row : (Contract \X Nat) \cup {NoRow}]
Errand == [op : {"idle", "create", "activate", "renew", "recognize", "book", "sell"},
           on : Contract \cup {NoRow}, row : Nat, version : 0..MaxContractVersion, before : ContractRow,
           input : Kind \cup {Blank}]

NoContract == [status |-> "none", customer |-> NoCustomer, terms |-> SomeTerms,
               renewal |-> SomeKind, version |-> 0]
NoSale == [customer |-> NoCustomer, row |-> NoRow]
NoErrand == [op |-> "idle", on |-> NoRow, row |-> 0, version |-> 0, before |-> NoContract, input |-> Blank]

TypeOK ==
    /\ CustomersTypeOK
    /\ contract \in [Contract -> ContractRow]
    /\ schedule \in [Contract -> Seq(ScheduleRow)]
    /\ sale \in [Sale -> SaleRow]
    /\ lock \subseteq Contract \X Nat
    /\ clerk \in [Client -> Errand]

Init ==
    /\ CustomersInit
    /\ contract = [c \in Contract |-> NoContract]
    /\ schedule = [c \in Contract |-> << >>]
    /\ sale = [s \in Sale |-> NoSale]
    /\ lock = {}
    /\ clerk = [k \in Client |-> NoErrand]

-----------------------------------------------------------------------------
(* The dates and amounts of a schedule                                      *)

Before(d, e) == d[1] < e[1] \/ (d[1] = e[1] /\ d[2] < e[2])

(* Mutant: time.AddDate, which runs over into the next month.               *)
AddMonthsOverflowing(anchor, months) ==
    LET month == anchor[1] + months
    IN IF anchor[2] > LastDay[month] THEN <<month + 1, anchor[2] - LastDay[month]>>
       ELSE <<month, anchor[2]>>

(* addMonthsClamped: months later, on the anchor's day or the last one.     *)
AddMonthsClamped(anchor, months) ==
    LET month == anchor[1] + months
    IN <<month, IF anchor[2] > LastDay[month] THEN LastDay[month] ELSE anchor[2]>>

Step(type) == CASE type = "MONTHLY" -> 1 [] type = "QUARTERLY" -> 3 [] type = "ANNUAL" -> 12

(* The n with an n-th date not after the end; the calendar outlasts every   *)
(* contract.                                                                *)
Occurrences(t) ==
    {n \in 0..Len(LastDay) : /\ t.start[1] + n * Step(t.type) \in Month
                             /\ ~Before(t.end, AddMonthsClamped(t.start, n * Step(t.type)))}

(* buildScheduleDates: the dates, or none for an error.                     *)
BuildScheduleDates(t) ==
    IF t.start = NoDate \/ (t.end # NoDate /\ Before(t.end, t.start)) THEN << >>
    ELSE IF t.type = "ONE_TIME" THEN <<t.start>>
    ELSE IF t.end = NoDate \/ Cardinality(Occurrences(t)) > MaxScheduleEntries THEN << >>
    ELSE [n \in 1..Cardinality(Occurrences(t)) |-> AddMonthsClamped(t.start, (n - 1) * Step(t.type))]

(* splitScheduleAmount: the first rows carry the cents left over.           *)
SplitScheduleAmount(total, count) ==
    [i \in 1..count |-> (total \div count) + (IF i <= total % count THEN 1 ELSE 0)]

(* createRevenueSchedule                                                    *)
RevenueSchedule(t) ==
    LET dates == BuildScheduleDates(t)
        amounts == SplitScheduleAmount(t.amount, Len(dates))
    IN [i \in DOMAIN dates |-> [date |-> dates[i], amount |-> amounts[i], status |-> "PLANNED"]]

-----------------------------------------------------------------------------
(* Contracts                                                                *)

Open(k, errand) ==
    /\ Free(k) /\ clerk[k] = NoErrand /\ clerk' = [clerk EXCEPT ![k] = errand]
    /\ begun' = begun + 1 /\ UNCHANGED crmTables
Run(k, errand) == clerk' = [clerk EXCEPT ![k] = errand] /\ UNCHANGED begun
Finish(k) == Run(k, NoErrand)
Doing(k, op) == clerk[k].op = op

(* CreateContract reads the customer and checks the input ...               *)
ReadContractCustomer(k, c) ==
    /\ GetCustomer(c)
    /\ \E t \in Terms :
         /\ t.start # NoDate /\ t.end # NoDate => ~Before(t.end, t.start)
         /\ Open(k, [NoErrand EXCEPT !.op = "create", !.before = [NoContract EXCEPT
                      !.customer = c, !.terms = t, !.version = 1]])
    /\ UNCHANGED <<contract, schedule, sale, lock>>

(* ... and inserts the contract, ACTIVE with its schedule or DRAFT, in one  *)
(* transaction that a schedule error or a missing customer rolls back.      *)
CreateContract(k, c) ==
    /\ Doing(k, "create") /\ Finish(k) /\ contract[c].status = "none"
    /\ \E status \in {"DRAFT", "ACTIVE"} :
         LET new == [clerk[k].before EXCEPT !.status = status]
             rows == RevenueSchedule(new.terms)
         IN IF Refers(new.customer) /\ (status = "ACTIVE" => rows # << >>)
            THEN /\ contract' = [contract EXCEPT ![c] = new]
                 /\ schedule' = IF status = "ACTIVE" THEN [schedule EXCEPT ![c] = rows] ELSE schedule
            ELSE UNCHANGED <<contract, schedule>>
    /\ UNCHANGED <<crmVars, sale, lock>>

(* A request reads the contract, with the version of a form or its own.     *)
ReadContract(k, c, op, version, input) ==
    /\ contract[c].status # "none"
    /\ op = "activate" => contract[c].status = "DRAFT" /\ BuildScheduleDates(contract[c].terms) # << >>
    /\ Open(k, [NoErrand EXCEPT !.op = op, !.on = c, !.before = contract[c], !.input = input,
                  !.version = IF version = 0 THEN contract[c].version ELSE version])
    /\ UNCHANGED <<contract, schedule, sale, lock>>

Unchanged(k) == contract[clerk[k].on].version = clerk[k].version

(* ActivateContract: the row as read decides the schedule, WHERE status is  *)
(* still DRAFT and the version still the same decides whether it counts.    *)
ActivateContract(k) ==
    /\ Doing(k, "activate") /\ Finish(k)
    /\ LET c == clerk[k].on IN
         IF Unchanged(k) /\ contract[c].status = "DRAFT"
         THEN /\ contract[c].version < MaxContractVersion
              /\ contract' = [contract EXCEPT ![c].status = "ACTIVE", ![c].version = @ + 1]
              /\ schedule' = [schedule EXCEPT ![c] = @ \o RevenueSchedule(clerk[k].before.terms)]
         ELSE UNCHANGED <<contract, schedule>>
    /\ UNCHANGED <<crmVars, sale, lock>>

(* UpdateContractRenewal: an empty status keeps the one read.               *)
Renewal(errand) == IF errand.input = Blank THEN errand.before.renewal ELSE errand.input

UpdateContractRenewal(k) ==
    /\ Doing(k, "renew") /\ Finish(k)
    /\ LET c == clerk[k].on IN
         IF Unchanged(k)
         THEN /\ contract[c].version < MaxContractVersion
              /\ contract' = [contract EXCEPT ![c].renewal = Renewal(clerk[k]), ![c].version = @ + 1]
         ELSE UNCHANGED contract
    /\ UNCHANGED <<crmVars, schedule, sale, lock>>

-----------------------------------------------------------------------------
(* RecognizeRevenueSchedule                                                 *)

(* The contract is read first; it is where the sale's customer comes from.  *)
ReadRow(k, c, i) ==
    /\ i \in DOMAIN schedule[c]
    /\ Open(k, [NoErrand EXCEPT !.op = "recognize", !.on = c, !.row = i, !.before = contract[c]])
    /\ UNCHANGED <<contract, schedule, sale, lock>>

(* Mutant: the row is selected without FOR UPDATE.                          *)
LockRowNotWaiting(k) ==
    /\ Doing(k, "recognize")
    /\ IF schedule[clerk[k].on][clerk[k].row].status = "PLANNED"
       THEN /\ lock' = lock \cup {<<clerk[k].on, clerk[k].row>>}
            /\ Run(k, [clerk[k] EXCEPT !.op = "book"])
       ELSE Finish(k) /\ UNCHANGED lock
    /\ UNCHANGED <<crmVars, contract, schedule, sale>>

(* SELECT ... FOR UPDATE waits for another transaction's lock; a row that   *)
(* is no longer PLANNED ends the request.                                   *)
LockRow(k) ==
    /\ Doing(k, "recognize") /\ <<clerk[k].on, clerk[k].row>> \notin lock
    /\ IF schedule[clerk[k].on][clerk[k].row].status = "PLANNED"
       THEN /\ lock' = lock \cup {<<clerk[k].on, clerk[k].row>>}
            /\ Run(k, [clerk[k] EXCEPT !.op = "book"])
       ELSE Finish(k) /\ UNCHANGED lock
    /\ UNCHANGED <<crmVars, contract, schedule, sale>>

(* The sale and the row's new status are committed together; a customer     *)
(* deleted meanwhile would refuse the sale.                                 *)
BookSale(k, s) ==
    LET row == <<clerk[k].on, clerk[k].row>> IN
    /\ Doing(k, "book") /\ Finish(k) /\ sale[s] = NoSale
    /\ lock' = lock \ {row}
    /\ IF Refers(clerk[k].before.customer)
       THEN /\ sale' = [sale EXCEPT ![s] = [customer |-> clerk[k].before.customer, row |-> row]]
            /\ schedule' = [schedule EXCEPT ![row[1]][row[2]].status = "RECOGNIZED"]
       ELSE UNCHANGED <<sale, schedule>>
    /\ UNCHANGED <<crmVars, contract>>

(* The connection is lost before the commit: everything is rolled back.     *)
RollBack(k) ==
    /\ Doing(k, "book") /\ Finish(k)
    /\ lock' = lock \ {<<clerk[k].on, clerk[k].row>>}
    /\ UNCHANGED <<crmVars, contract, schedule, sale>>

(* CreateSale: a sale entered by hand.                                      *)
ReadSaleCustomer(k, c) ==
    /\ GetCustomer(c)
    /\ Open(k, [NoErrand EXCEPT !.op = "sell", !.before = [NoContract EXCEPT !.customer = c]])
    /\ UNCHANGED <<contract, schedule, sale, lock>>

CreateSale(k, s) ==
    /\ Doing(k, "sell") /\ Finish(k) /\ sale[s] = NoSale
    /\ sale' = IF Refers(clerk[k].before.customer)
               THEN [sale EXCEPT ![s] = [NoSale EXCEPT !.customer = clerk[k].before.customer]] ELSE sale
    /\ UNCHANGED <<crmVars, contract, schedule, lock>>

-----------------------------------------------------------------------------
(* The operations on customers, with the tables of this module              *)

HasContract(c) == \E x \in Contract : contract[x].customer = c
HasSale(c) == \E s \in Sale : sale[s].customer = c

(* The merge also moves contracts, a new version of each, and sales.        *)
Merge(k) ==
    LET target == client[k].on
        sources == client[k].sources
    IN /\ MergeCustomers(k)
       /\ \A x \in Contract : contract[x].customer \in sources => contract[x].version < MaxContractVersion
       /\ contract' = [x \in Contract |->
              IF contract[x].customer \in sources
              THEN [contract[x] EXCEPT !.customer = target, !.version = @ + 1] ELSE contract[x]]
       /\ sale' = [s \in Sale |-> IF sale[s].customer \in sources
                                  THEN [sale[s] EXCEPT !.customer = target] ELSE sale[s]]
       /\ UNCHANGED <<schedule, lock, clerk>>

Delete(k) ==
    /\ LET c == client[k].on
           other == HasContract(c) \/ HasSale(c)
       IN CountHistory(k, other) \/ DiscardCustomer(k, other)
    /\ UNCHANGED contractVars

OnCustomer(k) ==
    /\ UNCHANGED contractVars
    /\ \/ UpdateCustomer(k) \/ MergeRefused(k) \/ DeactivateCustomer(k)
       \/ FilingRefused(k) \/ CountVoices(k) \/ DeleteContact(k)
       \/ \E c \in Customer : ReadSource(k, c)
       \/ \E d \in Deal : CreateDeal(k, d)
       \/ \E p \in Contact : CreateContact(k, p)
       \/ \E v \in Voice : CreateVoice(k, v)

BeginOnCustomer(k) ==
    /\ clerk[k] = NoErrand /\ UNCHANGED contractVars
    /\ \/ \E c \in Customer : ReadCustomer(k, c) \/ ReadTarget(k, c) \/ ReadDeleted(k, c) \/ ReadFor(k, c)
       \/ \E p \in Contact : ReadContact(k, p)

NewCustomer == \E c \in Customer : CreateCustomer(c) /\ UNCHANGED contractVars

Next ==
    \/ NewCustomer
    \/ \E k \in Client :
         \/ BeginOnCustomer(k) \/ OnCustomer(k) \/ Merge(k) \/ Delete(k)
         \/ ActivateContract(k) \/ UpdateContractRenewal(k) \/ LockRow(k) \/ RollBack(k)
         \/ \E c \in Customer : ReadContractCustomer(k, c) \/ ReadSaleCustomer(k, c)
         \/ \E c \in Contract :
              \/ CreateContract(k, c) \/ \E i \in DOMAIN schedule[c] : ReadRow(k, c, i)
              \/ \E version \in 0..contract[c].version :
                   \/ ReadContract(k, c, "activate", version, Blank)
                   \/ \E input \in Kind \cup {Blank} : ReadContract(k, c, "renew", version, input)
         \/ \E s \in Sale : BookSale(k, s) \/ CreateSale(k, s)

Spec == Init /\ [][Next]_vars

-----------------------------------------------------------------------------
(* What the contracts promise                                               *)

(* The dates of a recurring schedule, without the loop: every due month     *)
(* from the start to the end, on the start's day or the month's last one.   *)
DueDates(t) ==
    IF t.type = "ONE_TIME" THEN {t.start}
    ELSE {d \in Date : /\ ~Before(d, t.start) /\ ~Before(t.end, d)
                       /\ (d[1] - t.start[1]) % Step(t.type) = 0
                       /\ \/ d[2] = t.start[2] /\ d[2] <= LastDay[d[1]]
                          \/ d[2] < t.start[2] /\ d[2] = LastDay[d[1]]}

Total(rows) ==
    LET sum[n \in 0..Len(rows)] == IF n = 0 THEN 0 ELSE sum[n-1] + rows[n].amount
    IN  sum[Len(rows)]

Scheduled(rows, terms) ==
    /\ {rows[i].date : i \in DOMAIN rows} = DueDates(terms)
    /\ Len(rows) = Cardinality(DueDates(terms))
    /\ \A i, j \in DOMAIN rows :
         i < j => Before(rows[i].date, rows[j].date) /\ rows[i].amount - rows[j].amount \in 0..1
    /\ Total(rows) = terms.amount

(* Activated exactly once: a contract that is ACTIVE has one row for every  *)
(* due date in order and nothing else, the rows add up to the contract's    *)
(* amount, and no row is more than a cent above another; a DRAFT has none.  *)
ScheduleMatches ==
    \A c \in Contract : IF contract[c].status # "ACTIVE" THEN schedule[c] = << >>
                        ELSE Scheduled(schedule[c], contract[c].terms)

(* Revenue is booked once: a schedule row is RECOGNIZED exactly when one    *)
(* sale was booked for it, however two requests for it interleave, and a    *)
(* PLANNED row has no sale.                                                 *)
RecognizedOnce ==
    \A c \in Contract : \A i \in DOMAIN schedule[c] :
      LET booked == {s \in Sale : sale[s].row = <<c, i>>}
      IN IF schedule[c][i].status = "RECOGNIZED"
         THEN \E s \in Sale : booked = {s}
         ELSE booked = {}

(* No update is lost: while a request may still write a row (its version is *)
(* the row's), the value it would write back for a field its caller left    *)
(* out is the row's value.                                                  *)
NothingOverwritten ==
    \A k \in Client :
      /\ client[k].op = "update" /\ customer[client[k].on].version = client[k].version =>
           client[k].kind = customer[client[k].on].kind
      /\ clerk[k].op = "renew" /\ Unchanged(k) =>
           clerk[k].before.renewal = contract[clerk[k].on].renewal

(* The record of an account survives its deletion: opportunities,           *)
(* quotations, contracts and sales never disappear and never point at a     *)
(* customer that is gone, whatever was filed after DeleteCustomer counted.  *)
(* Neither does a customer request, with one exception: a deletion takes    *)
(* those filed after it counted, by cascade.  contacts.go lines 176-178     *)
(* ("never silently discarded") and README.md line 49 know no exception.    *)
HistoryKept ==
    [][/\ \A d \in Deal : deal[d] # NoCustomer => deal'[d] \in Customer /\ Exists(deal[d])'
       /\ \A c \in Contract : contract[c].status # "none" =>
            contract'[c].status # "none" /\ Exists(contract[c].customer)'
       /\ \A s \in Sale : sale[s] # NoSale => sale'[s].row = sale[s].row /\ Exists(sale[s].customer)'
       /\ \A v \in Voice : voice[v].customer \in Customer =>
            IF voice'[v] = voice[v] THEN Exists(voice[v].customer)'
            ELSE \E k \in Client : /\ client[k].op = "discard" /\ client[k].on = voice[v].customer
                                   /\ v \notin client[k].counted
      ]_vars

(* Retired for good: a customer that was merged or hidden is never brought  *)
(* back nor merged into another target by a request that checked it before. *)
RetiredForGood ==
    [][\A c \in Customer : customer[c].state = "inactive" =>
         customer'[c].state \in {"inactive", "deleted"} /\ customer'[c].into = customer[c].into]_vars
=============================================================================
