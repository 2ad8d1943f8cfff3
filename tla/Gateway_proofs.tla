--------------------------- MODULE Gateway_proofs ---------------------------
(***************************************************************************)
(* Proofs about Gateway: for every set of users, doors, keys, batches and   *)
(* limits, and any number of slots and requests.                            *)
(***************************************************************************)
EXTENDS Gateway, TLAPS

-----------------------------------------------------------------------------
(* What a slot holds, by where its request is                               *)

AtDoor == [op : {"arrived"}, who : Identity, limit : Limits, work : Work]
AtKey == [op : {"look up", "run"}, who : Identity, work : Keyed]
Replying == [op : {"store", "replied"}, who : Identity, work : Keyed, answer : Answer]
Posted == [op : {"posted"}, who : Identity, batch : Batches, known : BOOLEAN]
InBatch == [op : {"batch", "answered"}, who : Identity, batch : Batches, known : BOOLEAN, next : Nat, out : Seq(Nat)]
Logged == [op : {"logged"}, batch : Batches, known : BOOLEAN, out : Seq(Nat), success : BOOLEAN]

LEMMA RequestParts ==
    ASSUME NEW q
    PROVE  q \in Request <=> \/ q = Idle \/ q \in AtDoor \/ q \in AtKey \/ q \in Replying
                             \/ q \in Posted \/ q \in InBatch \/ q \in Logged
BY DEF Request, AtDoor, AtKey, Replying, Posted, InBatch, Logged

LEMMA RequestOps ==
    /\ Idle.op = "idle"
    /\ \A q \in AtDoor : q.op = "arrived"
    /\ \A q \in AtKey : q.op \in {"look up", "run"}
    /\ \A q \in Replying : q.op \in {"store", "replied"}
    /\ \A q \in Posted : q.op = "posted"
    /\ \A q \in InBatch : q.op \in {"batch", "answered"}
    /\ \A q \in Logged : q.op = "logged"
BY DEF Idle, AtDoor, AtKey, Replying, Posted, InBatch, Logged

LEMMA RequestOf ==
    ASSUME NEW q \in Request
    PROVE  /\ q.op = "arrived" => q \in AtDoor
           /\ q.op \in {"look up", "run"} => q \in AtKey
           /\ q.op \in {"store", "replied"} => q \in Replying
           /\ q.op = "posted" => q \in Posted
           /\ q.op \in {"batch", "answered"} => q \in InBatch
           /\ q.op = "logged" => q \in Logged
BY RequestParts, RequestOps

LEMMA WorkOf ==
    ASSUME NEW w \in Work
    PROVE  /\ w.kind = "keyed" => w \in Keyed
           /\ w.kind = "batch" => w.batch \in Batches /\ w.known \in BOOLEAN
BY DEF Work, Keyed, Plain

LEMMA IdleRequest == Idle \in Request /\ Idle.op = "idle"
BY DEF Request, Idle

-----------------------------------------------------------------------------
(* The inductive invariant                                                  *)

SlotOK(q) ==
    q.op \in {"store", "replied"} => q.answer.by = <<q.who[1], q.work.hash>>

SlotsOK == \A k \in Client : SlotOK(client[k])

(* A row keeps the answer of its user's request with its digest.            *)
KeptOK == \A u \in User, x \in Key : \A row \in kept[<<u, x>>] : row.answer.by = <<u, row.hash>>

(* Whom the window of a caller has counted, by the window's age: the        *)
(* requests admitted in the current half minute and in the one before.      *)
Counted(b, now, before) ==
    /\ b.count <= Highest
    /\ b.age = 0 => now <= b.count /\ before <= Highest
    /\ b.age = 1 => now + before <= b.count
    /\ b.age = 2 => now = 0 /\ before <= Highest
    /\ b.age > 2 => now = 0 /\ before = 0

LimiterOK ==
    \A i \in Identity :
        /\ i \in DOMAIN entries => Counted(entries[i], admitted[i][0], admitted[i][1])
        /\ i \notin DOMAIN entries => admitted[i][0] = 0 /\ admitted[i][1] = 0

GatewayInv == TypeOK /\ SlotsOK /\ KeptOK /\ LimiterOK

LEMMA HighestIs == Highest \in Limits /\ Highest \in Nat /\ \A m \in Limits : m <= Highest
BY GatewayAssumption DEF Highest

LEMMA InitInv == Init => GatewayInv
<1> SUFFICES ASSUME Init PROVE GatewayInv
    OBVIOUS
<1>1. TypeOK
    BY IdleRequest, GatewayAssumption DEF Init, TypeOK, Minute
<1>2. SlotsOK
    BY IdleRequest DEF Init, SlotsOK, SlotOK
<1>3. KeptOK
    BY DEF Init, KeptOK
<1>4. LimiterOK
    BY DEF Init, LimiterOK, Minute
<1> QED
    BY <1>1, <1>2, <1>3, <1>4 DEF GatewayInv

-----------------------------------------------------------------------------
(* Steps of a slot                                                          *)

LEMMA SlotStep ==
    ASSUME NEW k \in Client, NEW q \in Request, SlotOK(q), client \in [Client -> Request], SlotsOK,
           Await(k, q)
    PROVE  client' \in [Client -> Request] /\ SlotsOK'
<1>1. client' \in [Client -> Request] /\ client'[k] = q /\ \A j \in Client \ {k} : client'[j] = client[j]
    BY DEF Await
<1> QED
    BY <1>1 DEF SlotsOK, SlotOK

LEMMA IdleOK == SlotOK(Idle)
BY IdleRequest DEF SlotOK

(* A step that leaves the limiter and the kept answers alone.               *)
LEMMA OwnStep ==
    ASSUME NEW k \in Client, NEW q \in Request, SlotOK(q), GatewayInv, Await(k, q),
           UNCHANGED <<limit, entries, kept, admitted>>, begun' \in 0..MaxRequests
    PROVE  GatewayInv'
<1>1. client' \in [Client -> Request] /\ SlotsOK'
    BY SlotStep DEF GatewayInv, TypeOK
<1> QED
    BY <1>1 DEF GatewayInv, TypeOK, KeptOK, LimiterOK

LEMMA ArriveInv ==
    ASSUME GatewayInv, NEW k \in Client, NEW who \in Identity, NEW work \in Work, Arrive(k, who, work)
    PROVE  GatewayInv'
<1>1. PICK n \in PolicyLimit : Await(k, [op |-> "arrived", who |-> who, limit |-> n, work |-> work])
    BY DEF Arrive
<1> DEFINE q == [op |-> "arrived", who |-> who, limit |-> n, work |-> work]
<1>2. q \in AtDoor
    BY GatewayAssumption DEF GatewayInv, TypeOK, AtDoor, PolicyLimit
<1>3. q \in Request /\ SlotOK(q)
    BY <1>2, RequestParts DEF SlotOK
<1>4. begun' \in 0..MaxRequests /\ Await(k, q) /\ UNCHANGED <<limit, entries, kept, admitted>>
    BY <1>1, GatewayAssumption DEF Arrive, GatewayInv, TypeOK
<1> HIDE DEF q
<1> QED
    BY <1>3, <1>4, OwnStep

LEMMA DoneInv ==
    ASSUME GatewayInv, NEW k \in Client, Done(k), UNCHANGED <<limit, entries, kept, begun, admitted>>
    PROVE  GatewayInv'
<1>1. begun' \in 0..MaxRequests /\ Await(k, Idle)
    BY DEF Done, GatewayInv, TypeOK
<1> QED
    BY <1>1, OwnStep, IdleRequest, IdleOK

LEMMA ReceiveInv ==
    ASSUME GatewayInv, NEW k \in Client, Receive(k)
    PROVE  GatewayInv'
<1> DEFINE c == client[k]
           q == [op |-> "batch", who |-> c.who, batch |-> c.batch, known |-> c.known, next |-> 1, out |-> <<>>]
<1>1. CASE Done(k)
    BY <1>1, DoneInv DEF Receive
<1>2. CASE ~Done(k)
  <2>1. c \in Posted /\ Await(k, q)
      BY <1>2, RequestOf DEF Receive, At, GatewayInv, TypeOK
  <2>2. q \in InBatch
      BY <2>1 DEF Posted, InBatch
  <2>3. q \in Request /\ SlotOK(q)
      BY <2>2, RequestParts DEF SlotOK
  <2>4. begun' \in 0..MaxRequests /\ UNCHANGED <<limit, entries, kept, admitted>>
      BY DEF Receive, GatewayInv, TypeOK
  <2> HIDE DEF q
  <2> QED
      BY <2>1, <2>3, <2>4, OwnStep
<1> QED
    BY <1>1, <1>2

LEMMA DispatchInv ==
    ASSUME GatewayInv, NEW k \in Client, Dispatch(k)
    PROVE  GatewayInv'
<1> DEFINE c == client[k]
           q == [op |-> IF c.next = Len(c.batch) THEN "answered" ELSE "batch",
                 who |-> c.who, batch |-> c.batch, known |-> c.known, next |-> c.next + 1,
                 out |-> IF Answers(c.batch[c.next]) THEN Append(c.out, c.next) ELSE c.out]
<1>1. c \in InBatch /\ Await(k, q)
    BY RequestOf DEF Dispatch, At, GatewayInv, TypeOK
<1>2. /\ c.who \in Identity /\ c.batch \in Batches /\ c.known \in BOOLEAN
      /\ c.next + 1 \in Nat /\ c.out \in Seq(Nat) /\ Append(c.out, c.next) \in Seq(Nat)
    BY <1>1 DEF InBatch
<1>3. q \in InBatch
    BY <1>2 DEF InBatch
<1>4. begun' \in 0..MaxRequests /\ UNCHANGED <<limit, entries, kept, admitted>>
    BY DEF Dispatch, GatewayInv, TypeOK
<1> HIDE DEF q
<1>5. q \in Request /\ SlotOK(q)
    BY <1>3, RequestParts, RequestOps DEF SlotOK
<1> QED
    BY <1>1, <1>4, <1>5, OwnStep

LEMMA LogInv ==
    ASSUME GatewayInv, NEW k \in Client, Log(k)
    PROVE  GatewayInv'
<1> DEFINE c == client[k]
           q == [op |-> "logged", batch |-> c.batch, known |-> c.known, out |-> c.out,
                 success |-> \A i \in DOMAIN c.out : Succeeded(c.batch[c.out[i]])]
<1>1. c \in InBatch /\ Await(k, q)
    BY RequestOf DEF Log, At, GatewayInv, TypeOK
<1>2. q \in Logged
    BY <1>1 DEF InBatch, Logged
<1>3. begun' \in 0..MaxRequests /\ UNCHANGED <<limit, entries, kept, admitted>>
    BY DEF Log, GatewayInv, TypeOK
<1> HIDE DEF q
<1>4. q \in Request /\ SlotOK(q)
    BY <1>2, RequestParts, RequestOps DEF SlotOK
<1> QED
    BY <1>1, <1>3, <1>4, OwnStep

LEMMA LeaveInv ==
    ASSUME GatewayInv, NEW k \in Client, Leave(k)
    PROVE  GatewayInv'
BY DoneInv DEF Leave

-----------------------------------------------------------------------------
(* Idempotency keys                                                         *)

LEMMA WhoIs == \A who \in Identity : who[1] \in User
BY GatewayAssumption

LEMMA LookUpInv ==
    ASSUME GatewayInv, NEW k \in Client, LookUp(k)
    PROVE  GatewayInv'
<1> DEFINE c == client[k]
<1>0. c \in AtKey
    BY RequestOf DEF LookUp, At, GatewayInv, TypeOK
<1>1. c \in AtKey /\ c.who \in Identity /\ c.who[1] \in User /\ c.work \in Keyed /\ c.work.key \in Key
    BY <1>0, WhoIs DEF AtKey, Keyed
<1>2. UNCHANGED <<limit, entries, kept, admitted>> /\ begun' = begun /\ begun' \in 0..MaxRequests
    BY DEF LookUp, GatewayInv, TypeOK
<1>3. CASE Await(k, [c EXCEPT !.op = "run"])
  <2> DEFINE q == [c EXCEPT !.op = "run"]
  <2>1. q \in AtKey /\ q.op = "run"
      BY <1>1 DEF AtKey
  <2> HIDE DEF q
  <2>2. q \in Request /\ SlotOK(q)
      BY <2>1, RequestParts DEF SlotOK
  <2> QED
      BY <1>2, <1>3, <2>2, OwnStep DEF q
<1>4. CASE Done(k)
    BY <1>2, <1>4, DoneInv
<1>5. ASSUME NEW row \in Live(k), Replayable(k, row),
             Await(k, [op |-> "replied", who |-> c.who, work |-> c.work, answer |-> row.answer])
      PROVE  GatewayInv'
  <2> DEFINE q == [op |-> "replied", who |-> c.who, work |-> c.work, answer |-> row.answer]
  <2>1. row \in kept[<<c.who[1], c.work.key>>] /\ row.hash = c.work.hash
      BY <1>5 DEF Live, Kept, Replayable
  <2>2. row \in Row /\ row.answer.by = <<c.who[1], row.hash>>
      BY <1>1, <2>1 DEF GatewayInv, TypeOK, KeptOK
  <2>3. q \in Replying /\ q.op = "replied" /\ q.answer.by = <<q.who[1], q.work.hash>>
      BY <1>1, <2>1, <2>2 DEF Replying, Row
  <2>4. Await(k, q)
      BY <1>5
  <2> HIDE DEF q
  <2>5. q \in Request /\ SlotOK(q)
      BY <2>3, RequestParts DEF SlotOK
  <2> QED
      BY <1>2, <2>4, <2>5, OwnStep
<1> QED
    BY <1>3, <1>4, <1>5 DEF LookUp

LEMMA RunInv ==
    ASSUME GatewayInv, NEW k \in Client, Run(k)
    PROVE  GatewayInv'
<1> DEFINE c == client[k]
           q(body) == [op |-> IF body = "json" THEN "store" ELSE "replied", who |-> c.who, work |-> c.work,
                       answer |-> [by |-> <<c.who[1], c.work.hash>>, body |-> body]]
<1>0. c \in AtKey
    BY RequestOf DEF Run, At, GatewayInv, TypeOK
<1>1. c \in AtKey /\ c.who \in Identity /\ c.who[1] \in User /\ c.work \in Keyed /\ c.work.hash \in Hash
    BY <1>0, WhoIs DEF AtKey, Keyed
<1>2. UNCHANGED <<limit, entries, kept, admitted>> /\ begun' = begun /\ begun' \in 0..MaxRequests
    BY DEF Run, GatewayInv, TypeOK
<1>3. CASE Done(k)
    BY <1>2, <1>3, DoneInv
<1>4. ASSUME NEW body \in {"json", "empty", "error"}, Await(k, q(body))
      PROVE  GatewayInv'
  <2>1. q(body) \in Replying
      BY <1>1 DEF Replying, Answer
  <2>2. q(body).op \in {"store", "replied"} /\ q(body).answer.by = <<q(body).who[1], q(body).work.hash>>
      OBVIOUS
  <2> HIDE DEF q
  <2>3. q(body) \in Request /\ SlotOK(q(body))
      BY <2>1, <2>2, RequestParts DEF SlotOK
  <2> QED
      BY <1>2, <1>4, <2>3, OwnStep
<1> QED
    BY <1>3, <1>4 DEF Run

LEMMA StoreInv ==
    ASSUME GatewayInv, NEW k \in Client, Store(k)
    PROVE  GatewayInv'
<1> DEFINE c == client[k]
           q == [c EXCEPT !.op = "replied"]
           row == [hash |-> c.work.hash, answer |-> c.answer, expired |-> FALSE]
<1>1. c \in Replying /\ c.answer.by = <<c.who[1], c.work.hash>>
    BY RequestOf DEF Store, At, GatewayInv, TypeOK, SlotsOK, SlotOK
<1>2. /\ c.who \in Identity /\ c.who[1] \in User /\ c.work \in Keyed /\ c.answer \in Answer
      /\ c.work.key \in Key /\ c.work.hash \in Hash
    BY <1>1, WhoIs DEF Replying, Keyed
<1>3. q \in Replying /\ q.op = "replied" /\ q.answer.by = <<q.who[1], q.work.hash>>
    BY <1>1 DEF Replying
<1>4. Await(k, q) /\ UNCHANGED <<limit, entries, admitted>> /\ begun' = begun
    BY DEF Store
<1>5. row \in Row /\ row.answer.by = <<c.who[1], row.hash>>
    BY <1>1, <1>2 DEF Row
<1>6. UNCHANGED kept \/ kept' = [kept EXCEPT ![<<c.who[1], c.work.key>>] = {row}]
    BY DEF Store
<1> HIDE DEF q, row
<1>7. q \in Request /\ SlotOK(q)
    BY <1>3, RequestParts DEF SlotOK
<1>8. client' \in [Client -> Request] /\ SlotsOK'
    BY <1>4, <1>7, SlotStep DEF GatewayInv, TypeOK
<1>9. kept' \in [User \X Key -> SUBSET Row]
    BY <1>5, <1>6 DEF GatewayInv, TypeOK
<1>10. KeptOK'
  <2>1. CASE UNCHANGED kept
      BY <2>1 DEF GatewayInv, KeptOK
  <2>2. CASE kept' = [kept EXCEPT ![<<c.who[1], c.work.key>>] = {row}]
    <3> SUFFICES ASSUME NEW u \in User, NEW x \in Key, NEW r \in kept'[<<u, x>>]
                 PROVE  r.answer.by = <<u, r.hash>>
        BY DEF KeptOK
    <3>1. kept \in [User \X Key -> SUBSET Row] /\ <<u, x>> \in User \X Key
        BY DEF GatewayInv, TypeOK
    <3>2. CASE <<u, x>> = <<c.who[1], c.work.key>>
      <4>1. kept'[<<u, x>>] = {row} /\ u = c.who[1]
          BY <2>2, <3>1, <3>2
      <4> QED
          BY <4>1, <1>5
    <3>3. CASE <<u, x>> # <<c.who[1], c.work.key>>
      <4>1. r \in kept[<<u, x>>]
          BY <2>2, <3>1, <3>3
      <4> QED
          BY <4>1 DEF GatewayInv, KeptOK
    <3> QED
        BY <3>2, <3>3
  <2> QED
      BY <1>6, <2>1, <2>2
<1> QED
    BY <1>4, <1>8, <1>9, <1>10 DEF GatewayInv, TypeOK, LimiterOK

(* A step that changes only whether rows are there or expired.              *)
LEMMA AgingStep ==
    ASSUME GatewayInv, kept' \in [User \X Key -> SUBSET Row],
           \A r \in User \X Key : \A new \in kept'[r] :
               \E row \in kept[r] : new.hash = row.hash /\ new.answer = row.answer,
           UNCHANGED <<limit, entries, client, begun, admitted>>
    PROVE  GatewayInv'
<1>1. KeptOK'
  <2> SUFFICES ASSUME NEW u \in User, NEW x \in Key, NEW new \in kept'[<<u, x>>]
               PROVE  new.answer.by = <<u, new.hash>>
      BY DEF KeptOK
  <2>1. PICK row \in kept[<<u, x>>] : new.hash = row.hash /\ new.answer = row.answer
      OBVIOUS
  <2> QED
      BY <2>1 DEF GatewayInv, KeptOK
<1>2. SlotsOK'
    BY DEF GatewayInv, SlotsOK, SlotOK
<1> QED
    BY <1>1, <1>2 DEF GatewayInv, TypeOK, LimiterOK

LEMMA ExpireInv ==
    ASSUME GatewayInv, NEW u \in User, NEW x \in Key, Expire(u, x)
    PROVE  GatewayInv'
<1>1. PICK row \in kept[<<u, x>>] : kept' = [kept EXCEPT ![<<u, x>>] = {[row EXCEPT !.expired = TRUE]}]
    BY DEF Expire
<1> DEFINE new == [row EXCEPT !.expired = TRUE]
<1>2. kept \in [User \X Key -> SUBSET Row] /\ row \in Row
    BY <1>1 DEF GatewayInv, TypeOK
<1>3. new \in Row /\ new.hash = row.hash /\ new.answer = row.answer
    BY <1>2 DEF Row
<1>4. kept' = [kept EXCEPT ![<<u, x>>] = {new}]
    BY <1>1
<1> HIDE DEF new
<1>5. kept' \in [User \X Key -> SUBSET Row]
    BY <1>2, <1>3, <1>4
<1>6. \A r \in User \X Key : \A n \in kept'[r] : \E o \in kept[r] : n.hash = o.hash /\ n.answer = o.answer
    BY <1>1, <1>2, <1>3, <1>4
<1> QED
    BY <1>5, <1>6, AgingStep DEF Expire

LEMMA RemoveExpiredInv ==
    ASSUME GatewayInv, RemoveExpired
    PROVE  GatewayInv'
<1>1. kept \in [User \X Key -> SUBSET Row]
    BY DEF GatewayInv, TypeOK
<1>2. kept' = [r \in User \X Key |-> {row \in kept[r] : ~row.expired}]
    BY DEF RemoveExpired
<1>3. kept' \in [User \X Key -> SUBSET Row]
    BY <1>1, <1>2
<1>4. \A r \in User \X Key : \A n \in kept'[r] : \E o \in kept[r] : n.hash = o.hash /\ n.answer = o.answer
    BY <1>2
<1> QED
    BY <1>3, <1>4, AgingStep DEF RemoveExpired

-----------------------------------------------------------------------------
(* The limiter                                                              *)

(* The counts of every caller, as numbers.                                  *)
LEMMA Counts ==
    ASSUME GatewayInv, NEW i \in Identity
    PROVE  /\ admitted[i] \in [0..1 -> Nat] /\ admitted[i][0] \in Nat /\ admitted[i][1] \in Nat
           /\ Highest \in Nat /\ \A m \in Limits : m \in Nat /\ m <= Highest
           /\ i \in DOMAIN entries => entries[i] \in Bucket /\ entries[i].age \in 0..5 /\ entries[i].count \in Nat
BY HighestIs, GatewayAssumption DEF GatewayInv, TypeOK, Minute, Bucket, Old

(* A step of the limiter: every caller keeps its window and counts, is      *)
(* forgotten when its window is old, or has them counted rightly.           *)
LEMMA LimiterStep ==
    ASSUME GatewayInv, NEW k \in Client, NEW q \in Request, SlotOK(q), Await(k, q), NEW who \in Identity,
           UNCHANGED <<limit, kept, begun>>,
           NEW now \in Nat, admitted' = [admitted EXCEPT ![who][0] = now],
           DOMAIN entries' \subseteq Identity,
           who \in DOMAIN entries' => entries'[who] \in Bucket /\ Counted(entries'[who], now, admitted[who][1]),
           who \notin DOMAIN entries' => now = 0 /\ admitted[who][1] = 0,
           \A i \in Identity \ {who} : i \in DOMAIN entries' => i \in DOMAIN entries /\ entries'[i] = entries[i],
           \A i \in Identity \ {who} : i \in DOMAIN entries \ DOMAIN entries' => entries[i].age > 2
    PROVE  GatewayInv'
<1>1. admitted \in [Identity -> [0..1 -> Nat]]
    BY DEF GatewayInv, TypeOK, Minute
<1>2. /\ admitted' \in [Identity -> [0..1 -> Nat]] /\ admitted'[who][0] = now /\ admitted'[who][1] = admitted[who][1]
      /\ \A i \in Identity \ {who} : admitted'[i] = admitted[i]
    BY <1>1
<1>3. client' \in [Client -> Request] /\ SlotsOK'
    BY SlotStep DEF GatewayInv, TypeOK
<1>4. \A i \in DOMAIN entries' : entries'[i] \in Bucket
    BY DEF GatewayInv, TypeOK
<1>5. LimiterOK'
  <2> SUFFICES ASSUME NEW i \in Identity
               PROVE  /\ i \in DOMAIN entries' => Counted(entries'[i], admitted'[i][0], admitted'[i][1])
                      /\ i \notin DOMAIN entries' => admitted'[i][0] = 0 /\ admitted'[i][1] = 0
      BY DEF LimiterOK, Counted
  <2>1. CASE i = who
      BY <2>1, <1>2
  <2>2. CASE i # who
    <3>1. /\ admitted'[i] = admitted[i]
          /\ i \in DOMAIN entries' => i \in DOMAIN entries /\ entries'[i] = entries[i]
          /\ i \in DOMAIN entries \ DOMAIN entries' => entries[i].age > 2
        BY <2>2, <1>2
    <3>2. /\ i \in DOMAIN entries => Counted(entries[i], admitted[i][0], admitted[i][1])
          /\ i \notin DOMAIN entries => admitted[i][0] = 0 /\ admitted[i][1] = 0
        BY DEF GatewayInv, LimiterOK
    <3>3. i \in DOMAIN entries \ DOMAIN entries' => admitted[i][0] = 0 /\ admitted[i][1] = 0
        BY <3>1, <3>2 DEF Counted
    <3> QED
        BY <3>1, <3>2, <3>3
  <2> QED
      BY <2>1, <2>2
<1>6. TypeOK'
    BY <1>2, <1>3, <1>4 DEF GatewayInv, TypeOK, Minute
<1>7. KeptOK'
    BY DEF GatewayInv, KeptOK
<1> QED
    BY <1>3, <1>5, <1>6, <1>7 DEF GatewayInv

(* The current bucket of a caller and what it has counted.                  *)
LEMMA CurrentIs ==
    ASSUME GatewayInv, NEW who \in Identity
    PROVE  /\ Current(who) \in Bucket /\ Current(who).age \in 0..1 /\ Current(who).count \in Nat
           /\ Counted(Current(who), admitted[who][0], admitted[who][1])
<1>1. /\ admitted[who][0] \in Nat /\ admitted[who][1] \in Nat /\ Highest \in Nat
      /\ who \in DOMAIN entries => entries[who] \in Bucket /\ entries[who].age \in 0..5 /\ entries[who].count \in Nat
    BY Counts
<1>2. /\ who \in DOMAIN entries => Counted(entries[who], admitted[who][0], admitted[who][1])
      /\ who \notin DOMAIN entries => admitted[who][0] = 0 /\ admitted[who][1] = 0
    BY DEF GatewayInv, LimiterOK
<1>3. CASE who \in DOMAIN entries /\ entries[who].age < 2
    BY <1>1, <1>2, <1>3 DEF Current, Minute
<1>4. CASE ~(who \in DOMAIN entries /\ entries[who].age < 2)
  <2>1. Current(who) = [age |-> 0, count |-> 0]
      BY <1>4 DEF Current, Minute
  <2>2. admitted[who][0] = 0 /\ admitted[who][1] <= Highest
      BY <1>1, <1>2, <1>4 DEF Counted
  <2> QED
      BY <1>1, <2>1, <2>2 DEF Counted, Bucket, Old, Minute
<1> QED
    BY <1>3, <1>4

(* The current bucket with one request more.                                *)
LEMMA CountedMore ==
    ASSUME NEW b \in Bucket, b.age \in 0..1, NEW now \in Nat, NEW before \in Nat, Highest \in Nat,
           Counted(b, now, before), b.count < Highest
    PROVE  /\ [b EXCEPT !.count = @ + 1] \in Bucket
           /\ [b EXCEPT !.count = @ + 1].age \in 0..1
           /\ Counted([b EXCEPT !.count = @ + 1], now + 1, before)
<1> DEFINE c == [b EXCEPT !.count = @ + 1]
<1>1. c \in Bucket /\ c.age = b.age /\ c.count = b.count + 1 /\ b.count \in Nat
    BY DEF Bucket
<1> HIDE DEF c
<1>2. Counted(c, now + 1, before)
    BY <1>1 DEF Counted
<1> QED
    BY <1>1, <1>2 DEF c

LEMMA EnterIs ==
    ASSUME GatewayInv, NEW k \in Client, At(k, "arrived"), Enter(k)
    PROVE  \E q \in Request : SlotOK(q) /\ Await(k, q)
<1> DEFINE c == client[k]
           asked == [op |-> "look up", who |-> c.who, work |-> c.work]
           posted == [op |-> "posted", who |-> c.who, batch |-> c.work.batch, known |-> c.work.known]
<1>1. c \in AtDoor
    BY RequestOf DEF At, GatewayInv, TypeOK
<1>2. c.who \in Identity /\ c.work \in Work
    BY <1>1 DEF AtDoor
<1>3. CASE Done(k)
    BY <1>3, IdleRequest, IdleOK DEF Done
<1>4. CASE c.work.kind = "keyed" /\ Await(k, asked)
  <2>1. asked \in AtKey
      BY <1>2, <1>4, WorkOf DEF AtKey
  <2>2. asked \in Request /\ SlotOK(asked)
      BY <2>1, RequestParts DEF SlotOK
  <2> QED
      BY <1>4, <2>2
<1>5. CASE c.work.kind = "batch" /\ Await(k, posted)
  <2>1. posted \in Posted
      BY <1>2, <1>5, WorkOf DEF Posted
  <2>2. posted \in Request /\ SlotOK(posted)
      BY <2>1, RequestParts DEF SlotOK
  <2> QED
      BY <1>5, <2>2
<1> QED
    BY <1>3, <1>4, <1>5 DEF Enter

(* Eviction forgets only windows older than two minutes.                    *)
LEMMA EvictedIs ==
    ASSUME NEW e
    PROVE  /\ DOMAIN Evicted(e) \subseteq DOMAIN e
           /\ \A i \in DOMAIN Evicted(e) : Evicted(e)[i] = e[i]
           /\ \A i \in DOMAIN e \ DOMAIN Evicted(e) : ~(e[i].age <= 4)
<1>1. CASE Cardinality(DOMAIN e) <= MaxEntries
    BY <1>1 DEF Evicted
<1>2. CASE ~(Cardinality(DOMAIN e) <= MaxEntries)
    BY <1>2 DEF Evicted, Minute
<1> QED
    BY <1>1, <1>2

LEMMA AdmitInv ==
    ASSUME GatewayInv, NEW k \in Client, Admit(k)
    PROVE  GatewayInv'
<1> DEFINE c == client[k]
           who == c.who
           b == Current(who)
           more == [b EXCEPT !.count = @ + 1]
           e == With(entries, who, more)
<1>1. c \in AtDoor
    BY RequestOf DEF Admit, At, GatewayInv, TypeOK
<1>2. who \in Identity /\ c.limit \in Limits
    BY <1>1 DEF AtDoor
<1>3. PICK q \in Request : SlotOK(q) /\ Await(k, q)
    BY EnterIs DEF Admit
<1>4. UNCHANGED <<limit, kept, begun>> /\ begun' \in 0..MaxRequests
    BY DEF Admit, GatewayInv, TypeOK
<1>5. CASE c.limit = 0
  <2>1. UNCHANGED <<entries, admitted>>
      BY <1>5 DEF Admit
  <2> QED
      BY <1>3, <1>4, <2>1, OwnStep
<1>6. CASE c.limit # 0
  <2>1. /\ b.count < c.limit /\ entries' = Evicted(e)
        /\ admitted' = [admitted EXCEPT ![who][0] = @ + 1]
      BY <1>6 DEF Admit
  <2>2. /\ admitted[who][0] \in Nat /\ admitted[who][1] \in Nat /\ Highest \in Nat
        /\ c.limit \in Nat /\ c.limit <= Highest
      BY <1>2, Counts
  <2>3. b \in Bucket /\ b.age \in 0..1 /\ b.count \in Nat /\ Counted(b, admitted[who][0], admitted[who][1])
      BY <1>2, CurrentIs
  <2> HIDE DEF b
  <2>4. b.count < Highest
      BY <2>1, <2>2, <2>3
  <2>5. more \in Bucket /\ more.age \in 0..1 /\ Counted(more, admitted[who][0] + 1, admitted[who][1])
      BY <2>2, <2>3, <2>4, CountedMore
  <2> HIDE DEF more
  <2>6. /\ DOMAIN e = DOMAIN entries \cup {who} /\ e[who] = more
        /\ \A i \in DOMAIN entries \ {who} : e[i] = entries[i]
      BY DEF With
  <2> HIDE DEF e
  <2>7. /\ DOMAIN entries' \subseteq DOMAIN e
        /\ \A i \in DOMAIN entries' : entries'[i] = e[i]
        /\ \A i \in DOMAIN e \ DOMAIN entries' : ~(e[i].age <= 4)
      BY <2>1, EvictedIs
  <2>8. who \in DOMAIN entries'
      BY <2>5, <2>6, <2>7
  <2>9. DOMAIN entries \subseteq Identity /\ \A i \in DOMAIN entries : entries[i].age \in 0..5
      BY Counts DEF GatewayInv, TypeOK
  <2>10. DOMAIN entries' \subseteq Identity
      BY <1>2, <2>6, <2>7, <2>9
  <2>11. \A i \in Identity \ {who} : i \in DOMAIN entries' => i \in DOMAIN entries /\ entries'[i] = entries[i]
      BY <2>6, <2>7
  <2>12. \A i \in Identity \ {who} : i \in DOMAIN entries \ DOMAIN entries' => entries[i].age > 2
      BY <2>6, <2>7, <2>9
  <2>13. admitted' = [admitted EXCEPT ![who][0] = admitted[who][0] + 1] /\ admitted[who][0] + 1 \in Nat
      BY <2>1, <2>2
  <2>14. entries'[who] \in Bucket /\ Counted(entries'[who], admitted[who][0] + 1, admitted[who][1])
      BY <2>5, <2>6, <2>7, <2>8
  <2> HIDE DEF who, c
  <2> QED
      BY <1>2, <1>3, <1>4, <2>8, <2>10, <2>11, <2>12, <2>13, <2>14, LimiterStep
<1> QED
    BY <1>5, <1>6

LEMMA LimitedInv ==
    ASSUME GatewayInv, NEW k \in Client, Limited(k)
    PROVE  GatewayInv'
<1> DEFINE c == client[k]
           who == c.who
           b == Current(who)
<1>1. c \in AtDoor
    BY RequestOf DEF Limited, At, GatewayInv, TypeOK
<1>2. who \in Identity /\ c.limit \in Limits
    BY <1>1 DEF AtDoor
<1>3. UNCHANGED <<limit, kept, begun, admitted>> /\ Await(k, Idle) /\ entries' = With(entries, who, b)
    BY DEF Limited, Done
<1>4. b \in Bucket /\ Counted(b, admitted[who][0], admitted[who][1])
    BY <1>2, CurrentIs
<1> HIDE DEF b
<1>5. /\ DOMAIN entries' = DOMAIN entries \cup {who} /\ entries'[who] = b
      /\ \A i \in DOMAIN entries \ {who} : entries'[i] = entries[i]
    BY <1>3 DEF With
<1>6. admitted \in [Identity -> [0..1 -> Nat]] /\ DOMAIN entries \subseteq Identity
    BY DEF GatewayInv, TypeOK, Minute
<1>7. admitted' = [admitted EXCEPT ![who][0] = admitted[who][0]] /\ admitted[who][0] \in Nat
    BY <1>2, <1>3, <1>6
<1>8. \A i \in Identity \ {who} : i \in DOMAIN entries' => i \in DOMAIN entries /\ entries'[i] = entries[i]
    BY <1>5
<1>9. \A i \in Identity \ {who} : i \in DOMAIN entries \ DOMAIN entries' => entries[i].age > 2
    BY <1>5
<1>10. DOMAIN entries' \subseteq Identity /\ who \in DOMAIN entries'
    BY <1>2, <1>5, <1>6
<1>11. entries'[who] \in Bucket /\ Counted(entries'[who], admitted[who][0], admitted[who][1])
    BY <1>4, <1>5
<1> HIDE DEF who, c
<1> QED
    BY <1>2, <1>3, <1>7, <1>8, <1>9, <1>10, <1>11, IdleRequest, IdleOK, LimiterStep

LEMMA TickInv ==
    ASSUME GatewayInv, Tick
    PROVE  GatewayInv'
<1>1. /\ admitted' \in [Identity -> [0..1 -> Nat]]
      /\ \A i \in Identity : admitted'[i][0] = 0 /\ admitted'[i][1] = admitted[i][0]
  <2>1. admitted \in [Identity -> [0..1 -> Nat]]
      BY DEF GatewayInv, TypeOK, Minute
  <2>2. admitted' = [i \in Identity |-> [a \in 0..1 |-> IF a = 0 THEN 0 ELSE admitted[i][a-1]]]
      BY DEF Tick, Minute
  <2>3. \A i \in Identity : \A a \in 0..1 : (IF a = 0 THEN 0 ELSE admitted[i][a-1]) \in Nat
      BY <2>1
  <2> QED
      BY <2>2, <2>3
<1>2. /\ DOMAIN entries' = DOMAIN entries
      /\ \A i \in DOMAIN entries : entries'[i] = [entries[i] EXCEPT !.age = IF @ = 5 THEN 5 ELSE @ + 1]
    BY DEF Tick, Old, Minute
<1>3. ASSUME NEW i \in DOMAIN entries
      PROVE  /\ entries'[i] \in Bucket /\ entries'[i].count = entries[i].count
             /\ entries'[i].age = IF entries[i].age = 5 THEN 5 ELSE entries[i].age + 1
  <2>1. entries[i] \in [age : 0..5, count : Nat]
      BY DEF GatewayInv, TypeOK, Bucket, Old, Minute
  <2> QED
      BY <1>2, <2>1 DEF Bucket, Old, Minute
<1>4. LimiterOK'
  <2> SUFFICES ASSUME NEW i \in Identity
               PROVE  /\ i \in DOMAIN entries' => Counted(entries'[i], admitted'[i][0], admitted'[i][1])
                      /\ i \notin DOMAIN entries' => admitted'[i][0] = 0 /\ admitted'[i][1] = 0
      BY DEF LimiterOK, Counted
  <2>1. /\ i \in DOMAIN entries => Counted(entries[i], admitted[i][0], admitted[i][1])
        /\ i \notin DOMAIN entries => admitted[i][0] = 0 /\ admitted[i][1] = 0
      BY DEF GatewayInv, LimiterOK
  <2>2. CASE i \notin DOMAIN entries
      BY <1>1, <1>2, <2>1, <2>2
  <2>3. CASE i \in DOMAIN entries
    <3>1. /\ admitted[i][0] \in Nat /\ admitted[i][1] \in Nat /\ Highest \in Nat
          /\ entries[i].age \in 0..5 /\ entries[i].count \in Nat
        BY <2>3, Counts
    <3>2. Counted(entries'[i], 0, admitted[i][0])
        BY <1>3, <2>1, <2>3, <3>1 DEF Counted
    <3> QED
        BY <1>1, <1>2, <2>3, <3>2
  <2> QED
      BY <2>2, <2>3
<1>5. TypeOK'
    BY <1>1, <1>2, <1>3 DEF GatewayInv, TypeOK, Tick, Minute
<1>6. SlotsOK' /\ KeptOK'
    BY DEF GatewayInv, Tick, KeptOK, SlotsOK, SlotOK
<1> QED
    BY <1>4, <1>5, <1>6 DEF GatewayInv

LEMMA SetLimitInv ==
    ASSUME GatewayInv, NEW n \in Limits, SetLimit(n)
    PROVE  GatewayInv'
<1>1. TypeOK' /\ KeptOK' /\ LimiterOK'
    BY DEF GatewayInv, SetLimit, TypeOK, KeptOK, LimiterOK
<1>2. SlotsOK'
    BY DEF GatewayInv, SetLimit, SlotsOK, SlotOK
<1> QED
    BY <1>1, <1>2 DEF GatewayInv

LEMMA StutterInv ==
    ASSUME GatewayInv, UNCHANGED vars
    PROVE  GatewayInv'
BY DEF vars, GatewayInv, TypeOK, KeptOK, LimiterOK, SlotsOK, SlotOK

-----------------------------------------------------------------------------
(* The invariant is kept, whatever requests run beside each other and       *)
(* however often the limit changes.                                         *)
THEOREM GatewayInvariant == Spec => []GatewayInv
<1>1. GatewayInv /\ [Next]_vars => GatewayInv'
  <2> SUFFICES ASSUME GatewayInv, [Next]_vars PROVE GatewayInv'
      OBVIOUS
  <2>1. CASE UNCHANGED vars
      BY <2>1, StutterInv
  <2>2. CASE Tick \/ RemoveExpired
      BY <2>2, TickInv, RemoveExpiredInv
  <2>3. ASSUME NEW n \in Limits, SetLimit(n) PROVE GatewayInv'
      BY <2>3, SetLimitInv
  <2>4. ASSUME NEW u \in User, NEW x \in Key, Expire(u, x) PROVE GatewayInv'
      BY <2>4, ExpireInv
  <2>5. ASSUME NEW k \in Client, Serve(k) PROVE GatewayInv'
    <3>1. CASE Admit(k) \/ Limited(k)
        BY <3>1, AdmitInv, LimitedInv
    <3>2. CASE LookUp(k) \/ Run(k) \/ Store(k)
        BY <3>2, LookUpInv, RunInv, StoreInv
    <3>3. CASE Receive(k) \/ Dispatch(k) \/ Log(k) \/ Leave(k)
        BY <3>3, ReceiveInv, DispatchInv, LogInv, LeaveInv
    <3> QED
        BY <2>5, <3>1, <3>2, <3>3 DEF Serve
  <2>6. ASSUME NEW k \in Client, NEW who \in Identity, NEW work \in Work, Arrive(k, who, work)
        PROVE  GatewayInv'
      BY <2>6, ArriveInv
  <2> QED
      BY <2>1, <2>2, <2>3, <2>4, <2>5, <2>6 DEF Next
<1> QED
    BY <1>1, InitInv, PTL DEF Spec

(* In no minute does a caller get more than twice the highest limit through, *)
(* for every size of the limiter and any number of callers and slots.       *)
THEOREM BurstsAreBounded == Spec => []BurstBounded
<1>1. GatewayInv => BurstBounded
  <2> SUFFICES ASSUME GatewayInv, NEW i \in Identity PROVE admitted[i][0] + admitted[i][1] <= 2 * Highest
      BY DEF BurstBounded
  <2>1. /\ admitted[i][0] \in Nat /\ admitted[i][1] \in Nat /\ Highest \in Nat
        /\ i \in DOMAIN entries => entries[i].age \in 0..5 /\ entries[i].count \in Nat
      BY Counts
  <2>2. /\ i \in DOMAIN entries => Counted(entries[i], admitted[i][0], admitted[i][1])
        /\ i \notin DOMAIN entries => admitted[i][0] = 0 /\ admitted[i][1] = 0
      BY DEF GatewayInv, LimiterOK
  <2>3. CASE i \notin DOMAIN entries
      BY <2>1, <2>2, <2>3
  <2>4. CASE i \in DOMAIN entries
      BY <2>1, <2>2, <2>4 DEF Counted
  <2> QED
      BY <2>3, <2>4
<1> QED
    BY <1>1, GatewayInvariant, PTL

(* A keyed request is answered with what a run of that very request gave.   *)
THEOREM KeyedAnswersAreOwn == Spec => []AnswersOwn
<1>1. GatewayInv => AnswersOwn
    BY DEF GatewayInv, SlotsOK, SlotOK, AnswersOwn, At
<1> QED
    BY <1>1, GatewayInvariant, PTL
=============================================================================
