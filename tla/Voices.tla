------------------------------- MODULE Voices -------------------------------
(***************************************************************************)
(* The life of a customer request (package voice): its status, its SLA      *)
(* clocks, its history of events and the knowledge gate.                    *)
(*                                                                          *)
(* Update, Resolve and Review read the row (Get, with intakeFor) and write  *)
(* it in a later transaction: Update only the version it read, Review       *)
(* whatever is there.  A clock holds the version of the row at the moment   *)
(* it was set, 0 when NULL.  Events that no clock or status depends on      *)
(* (notes, assignments, reviews, satisfaction) are left out.  MaxRequests  *)
(* does not bound the requests on a filed one: MaxVersion does.             *)
(***************************************************************************)
EXTENDS Workspaces, Sequences

CONSTANT Verdicts   \* the judgements of reviewers

ASSUME VoicesAssumption == Verdicts \subseteq {"UNREVIEWED", "IN_REVIEW", "APPROVED", "EXCLUDED"}

VARIABLES
    voice,     \* customer_voices
    events     \* customer_voice_events

vars == <<wsVars, voice, events>>

Status == {"RECEIVED", "IN_REVIEW", "IN_PROGRESS", "PENDING_CUSTOMER", "RESOLVED", "CLOSED", "REJECTED"}
Terminal == {"RESOLVED", "CLOSED", "REJECTED"}
Knowledge == {"UNREVIEWED", "IN_REVIEW", "APPROVED", "EXCLUDED"}
Clock == 0..MaxVersion

VoiceRow == [status : Status, version : 0..MaxVersion, resolution : BOOLEAN, evidence : BOOLEAN,
             knowledge : Knowledge, responded : Clock, resolved : Clock, closed : Clock]
Event == [type : {"status", "contact"}, from : Status \cup {""}, to : Status \cup {""}, at : Clock]

Received == [status |-> "RECEIVED", version |-> 1, resolution |-> FALSE, evidence |-> FALSE,
             knowledge |-> "UNREVIEWED", responded |-> 0, resolved |-> 0, closed |-> 0]
Unfiled == [Received EXCEPT !.version = 0]

(* Requests as the steps below leave them in a slot.                        *)
Request ==
    {Idle}
    \cup [op : {"category"}, category : Category, workspace : Workspace \cup {NoWorkspace}]
    \cup [op : {"retire", "delete category"}, category : Category]
    \cup [op : {"check"}, workspace : Workspace, setting : Setting, rows : SUBSET Code]
    \cup [op : {"register"}, workspace : Workspace, setting : Setting, rows : SUBSET Code, code : Code]
    \cup [op : {"intake"}, category : Category, customer : Member, workspace : Workspace \cup {NoWorkspace},
          setting : AtMostOne(Setting)]
    \cup [op : {"file"}, row : FilingRow]
    \cup [op : {"update", "resolve", "start"}, voice : Voice, before : VoiceRow, gated : BOOLEAN]
    \cup [op : {"review"}, voice : Voice, finished : BOOLEAN]
    \cup [op : {"started"}, voice : Voice]

TypeOK ==
    /\ workspace \in [Workspace -> AtMostOne(Setting)]
    /\ category \in [Category -> AtMostOne(CategoryRow)]
    /\ member \in [Member -> AtMostOne(MemberRow)]
    /\ filing \in [Voice -> AtMostOne(FilingRow)]
    /\ voice \in [Voice -> VoiceRow]
    /\ events \in [Voice -> Seq(Event)]
    /\ client \in [Client -> Request]
    /\ begun \in 0..MaxRequests

Init ==
    /\ WorkspacesInit
    /\ voice = [v \in Voice |-> Unfiled]
    /\ events = [v \in Voice |-> <<>>]

-----------------------------------------------------------------------------
(* The lifecycle                                                            *)

AllowedTransitions ==
    [RECEIVED |-> {"IN_REVIEW", "IN_PROGRESS", "REJECTED"},
     IN_REVIEW |-> {"IN_PROGRESS", "PENDING_CUSTOMER", "RESOLVED", "REJECTED"},
     IN_PROGRESS |-> {"PENDING_CUSTOMER", "RESOLVED", "REJECTED"},
     PENDING_CUSTOMER |-> {"IN_PROGRESS", "RESOLVED", "REJECTED"},
     RESOLVED |-> {"CLOSED", "IN_PROGRESS"},
     CLOSED |-> {"IN_PROGRESS"},
     REJECTED |-> {"IN_PROGRESS"}]

CanTransition(from, to) == from = to \/ to \in AllowedTransitions[from]

Finished(status) == status \in {"RESOLVED", "CLOSED"}

(* Create: the row and its CREATED event, in one transaction.               *)
Create(k, v) ==
    /\ File(k, v)
    /\ voice' = [voice EXCEPT ![v] = Received]
    /\ events' = [events EXCEPT ![v] = <<[type |-> "status", from |-> "", to |-> "RECEIVED", at |-> 1]>>]

(* Get, and the gate of the workspace of the type (intakeFor), which wants  *)
(* the workspace active; the clocks are not looked at.                      *)
Home(v) == Row(category[Row(filing[v]).category]).workspace
Readable(v) == Given(filing[v]) /\ (Home(v) # NoWorkspace => Usable(Home(v)))
Reading(op, v) == [op |-> op, voice |-> v, before |-> [voice[v] EXCEPT !.responded = 0, !.resolved = 0, !.closed = 0],
                   gated |-> Home(v) # NoWorkspace /\ Row(workspace[Home(v)]).gate]

Read(k, v, op) ==
    /\ Readable(v) /\ client[k] = Idle /\ Await(k, Reading(op, v))
    /\ UNCHANGED <<desk, member, filing, voice, events>>

(* The clocks advance on the first entry into each state and go back to     *)
(* NULL when the state is left.                                             *)
ClocksLeftRunning(row, status) ==
    LET now == row.version + 1 IN
    [row EXCEPT !.responded = IF @ = 0 /\ status # "RECEIVED" THEN now ELSE @,
                !.resolved = IF @ = 0 /\ Finished(status) THEN now ELSE @,
                !.closed = IF @ = 0 /\ status = "CLOSED" THEN now ELSE @]

Clocks(row, status) ==
    LET now == row.version + 1 IN
    [row EXCEPT !.responded = IF @ = 0 /\ status # "RECEIVED" THEN now ELSE @,
                !.resolved = IF ~Finished(status) THEN 0 ELSE IF @ = 0 THEN now ELSE @,
                !.closed = IF status # "CLOSED" THEN 0 ELSE IF @ = 0 THEN now ELSE @]

(* What the transaction of Update writes to a row, for a request that read  *)
(* before: a reopened request goes back through the knowledge gate when it  *)
(* had been reviewed as far as the reading knew.                            *)
Saved(row, before, status, resolution, evidence) ==
    [Clocks(row, status) EXCEPT
        !.status = status,
        !.resolution = @ \/ resolution,
        !.evidence = @ \/ evidence,
        !.knowledge = IF before.status \in Terminal /\ status \notin Terminal /\ before.knowledge # "UNREVIEWED"
                      THEN "UNREVIEWED" ELSE @,
        !.version = @ + 1]

(* The checks of Update, all on the row as read and the input.              *)
Accepted(before, gated, status, resolution, evidence) ==
    /\ CanTransition(before.status, status)
    /\ status = "RESOLVED" => resolution \/ before.resolution
    /\ status = "RESOLVED" /\ before.status # "RESOLVED" /\ gated => evidence \/ before.evidence

(* UPDATE ... WHERE version = the version read.                             *)
UnchangedOrNot(q) == TRUE

Unchanged(q) == voice[q.voice].version = q.before.version

StatusEvent(q, status) ==
    IF status = q.before.status THEN events[q.voice]
    ELSE Append(events[q.voice], [type |-> "status", from |-> q.before.status, to |-> status,
                                  at |-> voice[q.voice].version + 1])

Save(k, status, resolution, evidence) ==
    LET q == client[k] IN
    /\ Accepted(q.before, q.gated, status, resolution, evidence)
    /\ Unchanged(q) /\ voice[q.voice].version < MaxVersion
    /\ voice' = [voice EXCEPT ![q.voice] = Saved(@, q.before, status, resolution, evidence)]
    /\ events' = [events EXCEPT ![q.voice] = StatusEvent(q, status)]

(* Update: any status, with or without a resolution and its evidence.       *)
Update(k) ==
    /\ At(k, "update") /\ Done(k)
    /\ \E status \in Status, resolution, evidence \in BOOLEAN : Save(k, status, resolution, evidence)
    /\ UNCHANGED <<desk, member, filing>>

(* A change of the type, within the workspace of the request.               *)
ChangeCategory(k, t) ==
    /\ At(k, "update") /\ Done(k) /\ Given(category[t])
    /\ LET v == client[k].voice IN
         /\ Row(category[t]).workspace = Row(filing[v]).workspace
         /\ filing' = [filing EXCEPT ![v] = {[Row(@) EXCEPT !.category = t]}]
    /\ Save(k, client[k].before.status, FALSE, FALSE)
    /\ UNCHANGED <<desk, member>>

(* The request is refused, or its connection is gone and it rolls back.     *)
Refused(k) ==
    /\ client[k].op \in {"update", "start", "resolve", "review"} /\ Done(k)
    /\ UNCHANGED <<desk, member, filing, voice, events>>

(* Resolve: a request still at intake is first moved into progress, by an   *)
(* Update of its own, and read again.                                       *)
ReadToResolve(k, v) ==
    /\ voice[v].status \notin Terminal
    /\ Read(k, v, IF voice[v].status = "RECEIVED" THEN "start" ELSE "resolve")

StartResolving(k) ==
    /\ At(k, "start") /\ Save(k, "IN_PROGRESS", FALSE, FALSE)
    /\ Await(k, [op |-> "started", voice |-> client[k].voice])
    /\ UNCHANGED <<desk, member, filing>>

ReadStarted(k) ==
    /\ At(k, "started")
    /\ LET v == client[k].voice IN IF Readable(v) THEN Await(k, Reading("resolve", v)) ELSE Done(k)
    /\ UNCHANGED <<desk, member, filing, voice, events>>

Resolve(k) ==
    /\ At(k, "resolve") /\ Done(k)
    /\ \E evidence \in BOOLEAN : Save(k, "RESOLVED", TRUE, evidence)
    /\ UNCHANGED <<desk, member, filing>>

(* Comment: a contact with the customer is a first response; the version    *)
(* stays.  A later contact changes nothing a clock depends on.              *)
Comment(v) ==
    /\ Given(filing[v]) /\ voice[v].responded = 0
    /\ voice' = [voice EXCEPT ![v].responded = voice[v].version]
    /\ events' = [events EXCEPT ![v] = Append(@, [type |-> "contact", from |-> "", to |-> "", at |-> voice[v].version])]
    /\ UNCHANGED wsVars

(* Review: the reviewer's judgement; the check is on the row as read, the   *)
(* UPDATE names only the id and leaves the version.                         *)
ReadToReview(k, v) ==
    /\ Given(filing[v]) /\ client[k] = Idle
    /\ Await(k, [op |-> "review", voice |-> v, finished |-> Finished(voice[v].status)])
    /\ UNCHANGED <<desk, member, filing, voice, events>>

Review(k) ==
    /\ At(k, "review") /\ Done(k)
    /\ LET q == client[k] IN
         \E knowledge \in Verdicts :
           /\ knowledge = "APPROVED" => q.finished
           /\ voice' = [voice EXCEPT ![q.voice].knowledge = knowledge]
    /\ UNCHANGED <<desk, member, filing, events>>

-----------------------------------------------------------------------------
Handle(k) ==
    \/ \E t \in Category, c \in Member : Intake(k, t, c) /\ UNCHANGED <<voice, events>>
    \/ (ReadMember(k) \/ FileRefused(k)) /\ UNCHANGED <<voice, events>>
    \/ \E v \in Voice : Create(k, v) \/ Read(k, v, "update") \/ ReadToResolve(k, v)
    \/ Update(k) \/ Refused(k) \/ StartResolving(k) \/ ReadStarted(k) \/ Resolve(k)
    \/ \E t \in Category : ChangeCategory(k, t)

Next ==
    \/ (Administer \/ \E k \in Client : Register(k)) /\ UNCHANGED <<voice, events>>
    \/ \E v \in Voice : Comment(v)
    \/ \E k \in Client : Handle(k) \/ Review(k) \/ \E v \in Voice : ReadToReview(k, v)

Spec == Init /\ [][Next]_vars

-----------------------------------------------------------------------------
(* Properties                                                               *)

(* Places in the history h of a request: the moves from status to status,   *)
(* the answers to the customer, the entries into one status.                *)
Moves(h) == {i \in DOMAIN h : h[i].type = "status"}
Answers(h) == {i \in DOMAIN h : h[i].type = "contact" \/ h[i].from # ""}
Entries(h, status) == {i \in DOMAIN h : h[i].to = status}
Oldest(i, S) == i \in S /\ \A j \in S : i <= j
Newest(i, S) == i \in S /\ \A j \in S : j <= i

(* The history of a request is an unbroken walk along the allowed           *)
(* transitions that ends at its status, and a request that was resolved or  *)
(* closed has a resolution, although every Update decides on a row it read  *)
(* before others may have moved it.                                         *)
LifecycleHonest ==
    \A v \in Voice : Given(filing[v]) =>
        LET h == events[v] IN
        /\ \E i \in Moves(h) : Newest(i, Moves(h)) /\ h[i].to = voice[v].status
        /\ \A i, j \in Moves(h) :
             i < j /\ (\A m \in Moves(h) : m <= i \/ j <= m)
               => h[j].from = h[i].to /\ h[j].to \in AllowedTransitions[h[j].from]
        /\ Finished(voice[v].status) => voice[v].resolution

(* The clocks say what the history says: a first response is the first      *)
(* contact or move out of intake, a resolution time is that of the last     *)
(* move into RESOLVED while the request stays resolved or closed, a closing *)
(* time that of the last move into CLOSED; later edits reset none of them.  *)
ClocksTold ==
    \A v \in Voice : Given(filing[v]) =>
        LET h == events[v]
            entered(status, at) == \E i \in DOMAIN h : Newest(i, Entries(h, status)) /\ at = h[i].at IN
        /\ IF Answers(h) = {} THEN voice[v].responded = 0
           ELSE \E i \in DOMAIN h : Oldest(i, Answers(h)) /\ voice[v].responded = h[i].at
        /\ IF Finished(voice[v].status) THEN entered("RESOLVED", voice[v].resolved) ELSE voice[v].resolved = 0
        /\ IF voice[v].status = "CLOSED" THEN entered("CLOSED", voice[v].closed) ELSE voice[v].closed = 0

(* A request stays inside the workspace of its customer, whatever           *)
(* administrators do to workspaces and types while it is filed and edited.  *)
FiledAtHome ==
    \A v \in Voice : \A row \in filing[v] :
        \A c \in member[row.customer] : row.workspace = c.home
=============================================================================
