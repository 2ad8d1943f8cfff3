----------------------------- MODULE Customers -----------------------------
(***************************************************************************)
(* Customer records (package crm): creating, editing, merging and deleting  *)
(* a customer while other requests file contacts, deals and customer        *)
(* requests on it.                                                          *)
(*                                                                          *)
(* Every handler first reads the customer (GetCustomer, which wants an      *)
(* active row) and writes in a later statement or transaction; a slot of    *)
(* Client is one request between its statements.  A transaction that only   *)
(* writes is one step.  deal stands for the tables whose foreign key        *)
(* refuses the deletion of their customer and whose rows a merge moves      *)
(* (opportunities, quotations); a customer request (voice) goes with its    *)
(* customer (ON DELETE CASCADE) and stays where it is on a merge.           *)
(* Row ids are never used twice: ids.New.                                   *)
(***************************************************************************)
EXTENDS Naturals, FiniteSets

CONSTANTS
    Customer,     \* ids of customers
    NoCustomer,   \* the customer of a row not yet inserted
    Gone,         \* the customer of a deleted row
    Contact,      \* ids of contacts
    NoContact,
    Deal,         \* ids of opportunities and quotations
    Voice,        \* ids of customer requests
    Kind,         \* values of an optional field: customer_type, renewal_status
    Blank,        \* the field left out of the input
    Client,       \* slots of requests
    MaxVersion,   \* bound on the versions of a row
    MaxRequests   \* bound on the requests of a behaviour

ASSUME CustomersAssumption ==
    /\ NoCustomer \notin Customer \cup {Gone} /\ Gone \notin Customer /\ NoContact \notin Contact /\ Blank \notin Kind
    /\ MaxVersion \in Nat \ {0} /\ MaxRequests \in Nat /\ Kind # {}

VARIABLES
    customer,   \* customers
    contact,    \* contacts.customer_id
    deal,       \* customer_id of opportunities and quotations
    voice,      \* customer_id and contact_id of customer_voices
    history,    \* customer_merge_history: <<target, source>>
    client,     \* the requests in progress
    begun       \* how many requests have begun

accounts  == <<customer, history>>
crmTables == <<accounts, contact, deal, voice, client>>
crmVars   == <<crmTables, begun>>

Row == [state : {"unborn", "active", "inactive", "deleted"},
        into : Customer \cup {NoCustomer}, version : 0..MaxVersion, kind : Kind]

Op == {"idle", "update", "merge", "delete", "discard", "deactivate", "file",
       "delete contact", "drop contact"}

(* A request: the row it is about, what it read (version and kind), its     *)
(* input and, for a merge, the sources checked so far.  counted is a        *)
(* history variable of a deletion: the requests filed when it counted.      *)
Request == [op : Op, on : Customer \cup Contact \cup {NoCustomer}, version : 0..MaxVersion, kind : Kind,
            input : Kind \cup {Blank}, sources : SUBSET Customer, counted : SUBSET Voice]

SomeKind == CHOOSE x \in Kind : TRUE
Idle == [op |-> "idle", on |-> NoCustomer, version |-> 0, kind |-> SomeKind,
         input |-> Blank, sources |-> {}, counted |-> {}]

CustomersTypeOK ==
    /\ customer \in [Customer -> Row]
    /\ contact \in [Contact -> Customer \cup {NoCustomer, Gone}]
    /\ deal \in [Deal -> Customer \cup {NoCustomer}]
    /\ voice \in [Voice -> [customer : Customer \cup {NoCustomer, Gone}, contact : Contact \cup {NoContact}]]
    /\ history \subseteq Customer \X Customer
    /\ client \in [Client -> Request]
    /\ begun \in 0..MaxRequests

Unborn == [state |-> "unborn", into |-> NoCustomer, version |-> 0, kind |-> SomeKind]
NoVoice == [customer |-> NoCustomer, contact |-> NoContact]
LostVoice == [customer |-> Gone, contact |-> NoContact]

CustomersInit ==
    /\ customer = [c \in Customer |-> Unborn]
    /\ contact = [p \in Contact |-> NoCustomer]
    /\ deal = [d \in Deal |-> NoCustomer]
    /\ voice = [v \in Voice |-> NoVoice]
    /\ history = {}
    /\ client = [k \in Client |-> Idle]
    /\ begun = 0

-----------------------------------------------------------------------------
(* Statements                                                               *)

Exists(c) == c \in Customer /\ customer[c].state \in {"active", "inactive"}

(* GetCustomer: the row is active.                                          *)
GetCustomer(c) == customer[c].state = "active"

(* A foreign key check on the customer takes no lock that conflicts with a  *)
(* merge; it only wants the row to exist.                                   *)
Refers(c) == Exists(c)

Free(k) == client[k] = Idle /\ begun < MaxRequests
Begin(k, request) == Free(k) /\ client' = [client EXCEPT ![k] = request] /\ begun' = begun + 1
Await(k, request) == client' = [client EXCEPT ![k] = request] /\ UNCHANGED begun
Done(k) == Await(k, Idle)
On(k, op) == client[k].op = op

(* The tables whose foreign key refuses DELETE FROM customers.              *)
HasDeal(c) == \E d \in Deal : deal[d] = c
HasVoice(c) == \E v \in Voice : voice[v].customer = c
InMerge(c) ==
    \/ \E h \in history : c \in {h[1], h[2]}
    \/ \E x \in Customer : customer[x].into = c

-----------------------------------------------------------------------------
(* Creating and editing a customer                                          *)

(* CreateCustomerIn: one INSERT.                                            *)
CreateCustomer(c) ==
    /\ customer[c].state = "unborn"
    /\ \E kind \in Kind :
         customer' = [customer EXCEPT ![c] =
             [state |-> "active", into |-> NoCustomer, version |-> 1, kind |-> kind]]
    /\ UNCHANGED <<contact, deal, voice, history, client, begun>>

(* UpdateCustomer reads the row; a form sends the version it was shown, a   *)
(* caller without one (version 0) gets the version just read.  A field left *)
(* out keeps the value read.                                                *)
ReadCustomer(k, c) ==
    /\ GetCustomer(c)
    /\ \E version \in 0..customer[c].version, input \in Kind \cup {Blank} :
         Begin(k, [Idle EXCEPT !.op = "update", !.on = c, !.kind = customer[c].kind, !.input = input,
                      !.version = IF version = 0 THEN customer[c].version ELSE version])
    /\ UNCHANGED <<accounts, contact, deal, voice>>

Chosen(request) == IF request.input = Blank THEN request.kind ELSE request.input

(* Mutant: the version is not advanced.                                     *)
UpdateCustomerSameVersion(k) ==
    /\ On(k, "update") /\ Done(k)
    /\ LET c == client[k].on IN
         IF Exists(c) /\ customer[c].version = client[k].version
         THEN customer' = [customer EXCEPT ![c].kind = Chosen(client[k])]
         ELSE UNCHANGED customer
    /\ UNCHANGED <<history, contact, deal, voice>>

(* UPDATE customers ... WHERE id AND version, whatever the row's state.     *)
UpdateCustomer(k) ==
    /\ On(k, "update") /\ Done(k)
    /\ LET c == client[k].on IN
         IF Exists(c) /\ customer[c].version = client[k].version
         THEN /\ customer[c].version < MaxVersion
              /\ customer' = [customer EXCEPT ![c].kind = Chosen(client[k]), ![c].version = @ + 1]
         ELSE UNCHANGED customer
    /\ UNCHANGED <<history, contact, deal, voice>>

-----------------------------------------------------------------------------
(* MergeCustomers                                                           *)

(* The target is read first, then each source, all before the transaction.  *)
ReadTarget(k, c) ==
    /\ GetCustomer(c)
    /\ Begin(k, [Idle EXCEPT !.op = "merge", !.on = c])
    /\ UNCHANGED <<accounts, contact, deal, voice>>

ReadSource(k, c) ==
    /\ On(k, "merge") /\ GetCustomer(c)
    /\ c # client[k].on /\ c \notin client[k].sources
    /\ Await(k, [client[k] EXCEPT !.sources = @ \cup {c}])
    /\ UNCHANGED <<accounts, contact, deal, voice>>

Moved(holder, sources, target) ==
    [x \in DOMAIN holder |-> IF holder[x] \in sources THEN target ELSE holder[x]]

(* Mutant: WHERE id, without AND active=true.                               *)
RetireAnyway(sources, target) ==
    [c \in Customer |-> IF c \in sources
                        THEN [customer[c] EXCEPT !.state = "inactive", !.into = target, !.version = @ + 1]
                        ELSE customer[c]]

(* A source is retired only if it is still active; its rows move and the    *)
(* history is written in any case.  A row that is gone fails the foreign    *)
(* key of the history.                                                      *)
Retire(sources, target) ==
    [c \in Customer |-> IF c \in sources /\ customer[c].state = "active"
                        THEN [customer[c] EXCEPT !.state = "inactive", !.into = target, !.version = @ + 1]
                        ELSE customer[c]]

Mergeable(k) ==
    /\ On(k, "merge") /\ client[k].sources # {}
    /\ \A c \in client[k].sources \cup {client[k].on} : Exists(c)
    /\ \A c \in client[k].sources : GetCustomer(c) => customer[c].version < MaxVersion

MergeRecords(k) ==
    LET target == client[k].on
        sources == client[k].sources
    IN /\ customer' = Retire(sources, target)
       /\ history' = history \cup ({target} \X sources)
       /\ contact' = Moved(contact, sources, target)
       /\ deal' = Moved(deal, sources, target)
       /\ UNCHANGED voice

MergeCustomers(k) ==
    /\ Mergeable(k) /\ MergeRecords(k) /\ Done(k)

(* A source that is not active when it is read, or a row that is gone when  *)
(* the transaction runs.                                                    *)
MergeRefused(k) ==
    /\ On(k, "merge")
    /\ \/ \E c \in Customer \ {client[k].on} : ~GetCustomer(c)
       \/ \E c \in client[k].sources \cup {client[k].on} : ~Exists(c)
    /\ Done(k) /\ UNCHANGED <<accounts, contact, deal, voice>>

-----------------------------------------------------------------------------
(* DeleteCustomer                                                           *)

ReadDeleted(k, c) ==
    /\ GetCustomer(c)
    /\ Begin(k, [Idle EXCEPT !.op = "delete", !.on = c])
    /\ UNCHANGED <<accounts, contact, deal, voice>>

Filings == {v \in Voice : voice[v] # NoVoice}

(* Mutant: customer_voices is left out of the count.                        *)
CountWithoutVoices(k, other) ==
    /\ On(k, "delete")
    /\ LET c == client[k].on IN
         Await(k, [client[k] EXCEPT !.op = IF HasDeal(c) \/ other THEN "deactivate" ELSE "discard",
                                    !.counted = IF HasDeal(c) \/ other THEN {} ELSE Filings])
    /\ UNCHANGED <<accounts, contact, deal, voice>>

(* One query counts the history; the customer is hidden if there is any     *)
(* and deleted if there is none.                                            *)
CountHistory(k, other) ==
    /\ On(k, "delete")
    /\ LET c == client[k].on IN
         Await(k, IF HasDeal(c) \/ HasVoice(c) \/ other
                  THEN [client[k] EXCEPT !.op = "deactivate"]
                  ELSE [client[k] EXCEPT !.op = "discard", !.counted = Filings])
    /\ UNCHANGED <<accounts, contact, deal, voice>>

DeactivateCustomer(k) ==
    /\ On(k, "deactivate") /\ Done(k)
    /\ LET c == client[k].on IN
         IF Exists(c)
         THEN /\ customer[c].version < MaxVersion
              /\ customer' = [customer EXCEPT ![c].state = "inactive", ![c].version = @ + 1]
         ELSE UNCHANGED customer
    /\ UNCHANGED <<history, contact, deal, voice>>

(* Mutant: foreign keys that cascade, trusting the count.                   *)
DeletableOnCount(c, other) == TRUE

(* What the database refuses to leave dangling: rows of the customer, and   *)
(* requests that name one of its contacts.                                  *)
Deletable(c, other) ==
    /\ ~HasDeal(c) /\ ~InMerge(c) /\ ~other
    /\ \A v \in Voice : voice[v].contact \in Contact => contact[voice[v].contact] # c

(* The transaction deletes the contacts and the customer; the requests go   *)
(* by cascade.  A refused statement rolls everything back.                  *)
DiscardCustomer(k, other) ==
    /\ On(k, "discard") /\ Done(k)
    /\ LET c == client[k].on IN
         IF Exists(c) /\ Deletable(c, other)
         THEN /\ customer' = [customer EXCEPT ![c].state = "deleted"]
              /\ contact' = Moved(contact, {c}, Gone)
              /\ voice' = [v \in Voice |-> IF voice[v].customer = c THEN LostVoice ELSE voice[v]]
         ELSE UNCHANGED <<customer, contact, voice>>
    /\ UNCHANGED <<history, deal>>

-----------------------------------------------------------------------------
(* What is filed on a customer                                              *)

(* CreateOpportunity, CreateQuotation, CreateContact and voice.Create read  *)
(* the customer; the INSERT only wants it to exist.                         *)
ReadFor(k, c) ==
    /\ GetCustomer(c)
    /\ Begin(k, [Idle EXCEPT !.op = "file", !.on = c])
    /\ UNCHANGED <<accounts, contact, deal, voice>>

CreateDeal(k, d) ==
    /\ On(k, "file") /\ Refers(client[k].on) /\ deal[d] = NoCustomer
    /\ deal' = [deal EXCEPT ![d] = client[k].on]
    /\ Done(k) /\ UNCHANGED <<accounts, contact, voice>>

CreateContact(k, p) ==
    /\ On(k, "file") /\ Refers(client[k].on) /\ contact[p] = NoCustomer
    /\ contact' = [contact EXCEPT ![p] = client[k].on]
    /\ Done(k) /\ UNCHANGED <<accounts, deal, voice>>

(* The contact is whatever the caller names: no check relates it to the     *)
(* customer.                                                                *)
CreateVoice(k, v) ==
    /\ On(k, "file") /\ Refers(client[k].on) /\ voice[v] = NoVoice
    /\ \E p \in {q \in Contact : contact[q] \in Customer} \cup {NoContact} :
         voice' = [voice EXCEPT ![v] = [customer |-> client[k].on, contact |-> p]]
    /\ Done(k) /\ UNCHANGED <<accounts, contact, deal>>

(* The customer was deleted in between: the INSERT is refused.              *)
FilingRefused(k) ==
    /\ On(k, "file") /\ ~Refers(client[k].on)
    /\ Done(k) /\ UNCHANGED <<accounts, contact, deal, voice>>

(* DeleteContact: the contact is read through its customer, the requests    *)
(* that name it are counted, and the row is deleted unless the database     *)
(* finds such a request after all.                                          *)
ReadContact(k, p) ==
    /\ contact[p] \in Customer /\ GetCustomer(contact[p])
    /\ Begin(k, [Idle EXCEPT !.op = "delete contact", !.on = p])
    /\ UNCHANGED <<accounts, contact, deal, voice>>

Named(p) == \E v \in Voice : voice[v].contact = p

CountVoices(k) ==
    /\ On(k, "delete contact")
    /\ Await(k, IF Named(client[k].on) THEN Idle ELSE [client[k] EXCEPT !.op = "drop contact"])
    /\ UNCHANGED <<accounts, contact, deal, voice>>

DeleteContact(k) ==
    /\ On(k, "drop contact") /\ Done(k)
    /\ contact' = IF Named(client[k].on) THEN contact
                  ELSE [contact EXCEPT ![client[k].on] = Gone]
    /\ UNCHANGED <<accounts, deal, voice>>
=============================================================================
