------------------------------ MODULE Gateway ------------------------------
(***************************************************************************)
(* The door of the HTTP server (package server: requireAuth, the request    *)
(* limiter, idempotency keys) and of the MCP endpoint behind it (package    *)
(* mcp: batches of JSON-RPC messages).                                      *)
(*                                                                          *)
(* A slot of Client is one authenticated request.  The limiter is a map in  *)
(* memory under a mutex; the rate limit and the idempotency keys are rows   *)
(* of the database, read and written in statements of their own.  Time goes *)
(* in half minutes and is kept as ages: how long ago a window was opened    *)
(* or a request admitted.  A request refused before the limiter (no credentials, *)
(* channel or policy closed) changes nothing and is left out, and so are    *)
(* the effects of handlers: they are the actions of the other modules.      *)
(***************************************************************************)
EXTENDS Naturals, FiniteSets, Sequences

CONSTANTS
    User,         \* users
    Door,         \* channel, authentication method, key and address of a request
    Identity,     \* who the limiter tells apart: a user at a door
    Key,          \* idempotency keys
    Hash,         \* digests of method, URI and body
    Batches,      \* MCP batches: sequences of Message
    Limits,       \* values of rate_limit_per_minute; 0 is no limit
    Fallback,     \* the limit of a policy that cannot be read
    Client,       \* slots of requests
    MaxEntries,   \* entries of the limiter above which stale ones are evicted
    MaxRequests   \* bound on the requests of a behaviour

(* A JSON-RPC message: initialize; a call that succeeds, that fails (a tool *)
(* failure or an error), that panics; a notification; not JSON-RPC 2.0.     *)
Message == {"initialize", "call", "failing", "panic", "notification", "malformed"}

ASSUME GatewayAssumption ==
    /\ Identity \subseteq User \X Door /\ Limits \subseteq Nat
    /\ Fallback \in Limits /\ \E n \in Limits : \A m \in Limits : m <= n
    /\ Batches \subseteq Seq(Message) \ {<<>>}
    /\ MaxEntries \in Nat /\ MaxRequests \in Nat

Minute == 2

VARIABLES
    limit,      \* rate_limit_per_minute
    entries,    \* requestLimiter.entries
    kept,       \* idempotency_keys, by user and key: at most one row
    client,     \* the requests in progress
    begun,      \* how many requests have begun
    admitted    \* history: how many requests of whom were admitted under a
                \* limit, by age, in the last minute

vars == <<limit, entries, kept, client, begun, admitted>>

(* The age of a window, up to the first that eviction tells apart.          *)
Old == 2 * Minute + 1
Bucket == [age : 0..Old, count : Nat]
Plain == [kind |-> "plain"]
Keyed == [kind : {"keyed"}, key : Key, hash : Hash]
(* known: MCP-Protocol-Version is a version the server speaks, or is absent. *)
Work == {Plain} \cup Keyed \cup [kind : {"batch"}, batch : Batches, known : BOOLEAN]
Answer == [by : User \X Hash, body : {"json", "empty", "error"}]
Row == [hash : Hash, answer : Answer, expired : BOOLEAN]
Idle == [op |-> "idle"]

Request ==
    {Idle}
    \cup [op : {"arrived"}, who : Identity, limit : Limits, work : Work]
    \cup [op : {"look up", "run"}, who : Identity, work : Keyed]
    \cup [op : {"store", "replied"}, who : Identity, work : Keyed, answer : Answer]
    \cup [op : {"posted"}, who : Identity, batch : Batches, known : BOOLEAN]
    \cup [op : {"batch", "answered"}, who : Identity, batch : Batches, known : BOOLEAN, next : Nat, out : Seq(Nat)]
    \cup [op : {"logged"}, batch : Batches, known : BOOLEAN, out : Seq(Nat), success : BOOLEAN]

TypeOK ==
    /\ limit \in Limits /\ begun \in 0..MaxRequests
    /\ DOMAIN entries \subseteq Identity /\ \A i \in DOMAIN entries : entries[i] \in Bucket
    /\ kept \in [User \X Key -> SUBSET Row]
    /\ client \in [Client -> Request]
    /\ admitted \in [Identity -> [0..Minute-1 -> Nat]]

Init ==
    /\ limit \in Limits
    /\ entries = [i \in {} |-> [age |-> 0, count |-> 0]]
    /\ kept = [r \in User \X Key |-> {}]
    /\ client = [k \in Client |-> Idle]
    /\ begun = 0
    /\ admitted = [i \in Identity |-> [a \in 0..Minute-1 |-> 0]]

At(k, op) == client[k].op = op
Await(k, request) == client' = [client EXCEPT ![k] = request]
Done(k) == Await(k, Idle)

-----------------------------------------------------------------------------
(* Admission                                                                *)

Tick ==
    /\ entries' = [i \in DOMAIN entries |-> [entries[i] EXCEPT !.age = IF @ = Old THEN Old ELSE @ + 1]]
    /\ admitted' = [i \in Identity |-> [a \in 0..Minute-1 |-> IF a = 0 THEN 0 ELSE admitted[i][a-1]]]
    /\ UNCHANGED <<limit, kept, client, begun>>

(* An administrator saves rate_limit_per_minute.                            *)
SetLimit(n) == limit # n /\ limit' = n /\ UNCHANGED <<entries, kept, client, begun, admitted>>

(* The limit as it is read, or the fallback when the SELECT fails.          *)
PolicyLimit == {limit, Fallback}

(* The request is authenticated and the limit read.                         *)
Arrive(k, who, work) ==
    /\ client[k] = Idle /\ begun < MaxRequests /\ begun' = begun + 1
    /\ \E n \in PolicyLimit : Await(k, [op |-> "arrived", who |-> who, limit |-> n, work |-> work])
    /\ UNCHANGED <<limit, entries, kept, admitted>>

(* The bucket of a caller: a new one when its window is a minute old.       *)
Current(who) ==
    IF who \in DOMAIN entries /\ entries[who].age < Minute
    THEN entries[who] ELSE [age |-> 0, count |-> 0]

(* Entries whose window is older than two minutes go, once there are more   *)
(* than MaxEntries.                                                         *)
EvictedAll(e) == IF Cardinality(DOMAIN e) <= MaxEntries THEN e ELSE [i \in {} |-> e[i]]

Evicted(e) == IF Cardinality(DOMAIN e) <= MaxEntries THEN e
              ELSE [i \in {j \in DOMAIN e : e[j].age <= 2 * Minute} |-> e[i]]

With(e, who, bucket) == [i \in DOMAIN e \cup {who} |-> IF i = who THEN bucket ELSE e[i]]

(* What an admitted request does next; a password that must be changed or   *)
(* a wrong CSRF token ends it here.                                         *)
Enter(k) ==
    LET q == client[k] IN
    \/ Done(k)
    \/ /\ q.work.kind = "keyed" /\ Await(k, [op |-> "look up", who |-> q.who, work |-> q.work])
    \/ /\ q.work.kind = "batch"
       /\ Await(k, [op |-> "posted", who |-> q.who, batch |-> q.work.batch, known |-> q.work.known])

(* requestLimiter.allow with the limit read before.                         *)
Admit(k) ==
    /\ At(k, "arrived")
    /\ LET who == client[k].who
           b == Current(who) IN
         /\ client[k].limit = 0 \/ b.count < client[k].limit
         /\ entries' = IF client[k].limit = 0 THEN entries
                       ELSE Evicted(With(entries, who, [b EXCEPT !.count = @ + 1]))
         /\ admitted' = IF client[k].limit = 0 THEN admitted ELSE [admitted EXCEPT ![who][0] = @ + 1]
    /\ Enter(k)
    /\ UNCHANGED <<limit, kept, begun>>

(* 429; the bucket is stored as it is.                                      *)
Limited(k) ==
    /\ At(k, "arrived") /\ Done(k)
    /\ LET b == Current(client[k].who) IN
         /\ client[k].limit # 0 /\ b.count >= client[k].limit
         /\ entries' = With(entries, client[k].who, b)
    /\ UNCHANGED <<limit, kept, begun, admitted>>

-----------------------------------------------------------------------------
(* Idempotency keys                                                         *)

Kept(k) == kept[<<client[k].who[1], client[k].work.key>>]
Live(k) == {row \in Kept(k) : ~row.expired}

(* serveIdempotent: an unexpired row of the same request is replayed, one   *)
(* of another request is a conflict.                                        *)
ReplayableAnyRequest(k, row) == TRUE

Replayable(k, row) == row.hash = client[k].work.hash

LookUp(k) ==
    /\ At(k, "look up")
    /\ LET q == client[k] IN
         \/ Live(k) = {} /\ Await(k, [q EXCEPT !.op = "run"])
         \/ \E row \in Live(k) :
              IF Replayable(k, row)
              THEN Await(k, [op |-> "replied", who |-> q.who, work |-> q.work, answer |-> row.answer])
              ELSE Done(k)
    /\ UNCHANGED <<limit, entries, kept, begun, admitted>>

(* The handler answers with a JSON body, with none, or with a server error; *)
(* a panic ends the request in the outer middleware.                        *)
Run(k) ==
    /\ At(k, "run")
    /\ LET q == client[k] IN
         \/ Done(k)
         \/ \E body \in {"json", "empty", "error"} :
              Await(k, [op |-> IF body = "json" THEN "store" ELSE "replied", who |-> q.who, work |-> q.work,
                        answer |-> [by |-> <<q.who[1], q.work.hash>>, body |-> body]])
    /\ UNCHANGED <<limit, entries, kept, begun, admitted>>

(* INSERT ... ON CONFLICT DO NOTHING, whose error is ignored.               *)
Store(k) ==
    /\ At(k, "store") /\ Await(k, [client[k] EXCEPT !.op = "replied"])
    /\ LET q == client[k] IN
         \/ UNCHANGED kept
         \/ Kept(k) = {} /\ kept' = [kept EXCEPT ![<<q.who[1], q.work.key>>] =
                {[hash |-> q.work.hash, answer |-> q.answer, expired |-> FALSE]}]
    /\ UNCHANGED <<limit, entries, begun, admitted>>

(* A day later the row no longer counts; the maintenance run removes it.    *)
Expire(u, x) ==
    /\ \E row \in kept[<<u, x>>] : ~row.expired /\ kept' = [kept EXCEPT ![<<u, x>>] = {[row EXCEPT !.expired = TRUE]}]
    /\ UNCHANGED <<limit, entries, client, begun, admitted>>

RemoveExpired ==
    /\ \E u \in User, x \in Key : \E row \in kept[<<u, x>>] : row.expired
    /\ kept' = [r \in User \X Key |-> {row \in kept[r] : ~row.expired}]
    /\ UNCHANGED <<limit, entries, client, begun, admitted>>

-----------------------------------------------------------------------------
(* MCP                                                                      *)

(* ServeHTTP: the request is refused as a whole (no mcp:use, the origin, the *)
(* method, the Accept header or the body), or for a protocol version the    *)
(* server does not speak, unless all it does is initialize.                 *)
OnlyInitialize(batch) == \A i \in DOMAIN batch : batch[i] = "initialize"

Receive(k) ==
    /\ At(k, "posted")
    /\ LET q == client[k] IN
         \/ Done(k)
         \/ /\ q.known \/ OnlyInitialize(q.batch)
            /\ Await(k, [op |-> "batch", who |-> q.who, batch |-> q.batch, known |-> q.known,
                         next |-> 1, out |-> <<>>])
    /\ UNCHANGED <<limit, entries, kept, begun, admitted>>

(* One message of a batch.  A notification is acknowledged without an       *)
(* answer; a panic is contained to its message and answered.                *)
Answers(message) == message # "notification"

Dispatch(k) ==
    /\ At(k, "batch")
    /\ LET q == client[k] IN
         Await(k, [op |-> IF q.next = Len(q.batch) THEN "answered" ELSE "batch",
                   who |-> q.who, batch |-> q.batch, known |-> q.known, next |-> q.next + 1,
                   out |-> IF Answers(q.batch[q.next]) THEN Append(q.out, q.next) ELSE q.out])
    /\ UNCHANGED <<limit, entries, kept, begun, admitted>>

(* The answers are written, and the request log says how it went: a tool    *)
(* failure is a result, but not a success.                                  *)
Succeeded(message) == message \notin {"failing", "panic", "malformed"}

Log(k) ==
    /\ At(k, "answered")
    /\ LET q == client[k] IN
         Await(k, [op |-> "logged", batch |-> q.batch, known |-> q.known, out |-> q.out,
                   success |-> \A i \in DOMAIN q.out : Succeeded(q.batch[q.out[i]])])
    /\ UNCHANGED <<limit, entries, kept, begun, admitted>>

Leave(k) ==
    /\ client[k].op \in {"replied", "logged"} /\ Done(k)
    /\ UNCHANGED <<limit, entries, kept, begun, admitted>>

-----------------------------------------------------------------------------
Serve(k) == Admit(k) \/ Limited(k) \/ LookUp(k) \/ Run(k) \/ Store(k)
            \/ Receive(k) \/ Dispatch(k) \/ Log(k) \/ Leave(k)

Next ==
    \/ Tick \/ RemoveExpired
    \/ \E n \in Limits : SetLimit(n)
    \/ \E u \in User, x \in Key : Expire(u, x)
    \/ \E k \in Client : Serve(k)
    \/ \E k \in Client, who \in Identity, work \in Work : Arrive(k, who, work)

Spec == Init /\ [][Next]_vars

-----------------------------------------------------------------------------
(* Properties                                                               *)

Highest == CHOOSE n \in Limits : \A m \in Limits : m <= n

(* In no minute, wherever it begins, does a caller get more than twice the  *)
(* highest limit through, the one in place of a policy that cannot be read  *)
(* among them: windows are fixed, so a minute overlaps two of them, and     *)
(* neither a change of the limit nor an eviction by another caller's        *)
(* request opens a third.                                                   *)
BurstBounded == \A i \in Identity : admitted[i][0] + admitted[i][1] <= 2 * Highest

(* A keyed request is answered with what a run of that very request gave,   *)
(* its own or an earlier one of the same user, whatever duplicates run      *)
(* beside it and whenever rows expire.                                      *)
AnswersOwn ==
    \A k \in Client : At(k, "replied") =>
        client[k].answer.by = <<client[k].who[1], client[k].work.hash>>
=============================================================================
