--------------------------- MODULE Pipelines_proofs ---------------------------
(***************************************************************************)
(* Proofs about Pipelines, for any pipelines, stages, deals, criteria and   *)
(* number of requests.                                                      *)
(***************************************************************************)
EXTENDS Pipelines, TLAPS

(* What a request on a deal knows.  Nobody deletes a deal, and its version  *)
(* only grows: while it is the one read, the deal is in the stage read.     *)
ReadHolds(q) ==
    q.op \in {"read", "gate", "write"} =>
        /\ q.deal \in Deal /\ Exists(q.deal) /\ q.to \in Stage
        /\ q.version <= q.before.version /\ q.before.version <= deal[q.deal].version
        /\ deal[q.deal].version = q.before.version => deal[q.deal].stage = q.before.stage

(* Met, for the rules that last.                                            *)
Fits(fields, rule) == IF rule.rule = "present" THEN rule.field \in fields ELSE rule.field \notin fields

(* ... and when it is about to write: it stays in the stage it read, or its *)
(* gate judged the stage the deal is in.                                    *)
GateHolds(q) ==
    q.op = "write" /\ deal[q.deal].version = q.version =>
        \/ q.to = q.before.stage
        \/ /\ q.leaving = deal[q.deal].stage
           /\ \A rule \in q.gate : Lasting(rule) => Fits(deal[q.deal].fields, rule)

Informed == \A k \in Client : ReadHolds(client[k]) /\ GateHolds(client[k])
IInv == TypeOK /\ Informed

(* What StageChangeGated says of one step, and BoardOrderKept.              *)
Gated ==
    \A d \in Deal : Exists(d) /\ deal'[d].stage # deal[d].stage =>
        \E k \in Client :
            /\ client[k].op = "write" /\ client[k].deal = d
            /\ client[k].leaving = deal[d].stage
            /\ \A rule \in client[k].gate : Lasting(rule) => Met(deal[d], d, rule)
OrderKept ==
    \A s, t \in Stage :
        /\ stage[s].pipeline = stage[t].pipeline /\ stage[s].order < stage[t].order
        /\ stage'[s].pipeline = stage'[t].pipeline /\ stage'[s].pipeline # NoPipeline
        /\ stage'[t].order < stage'[s].order
        => \E k \in Client : client[k].op = "stage" /\ client[k].to \in {s, t}

(* How a deal may move on: to a later version, or by the field an activity  *)
(* fills.                                                                   *)
Grows ==
    \A d \in Deal : Exists(d) =>
        /\ Exists(d)'
        /\ \/ deal[d].version < deal'[d].version
           \/ /\ deal'[d].version = deal[d].version /\ deal'[d].stage = deal[d].stage
              /\ deal[d].fields \subseteq deal'[d].fields
              /\ deal'[d].fields \subseteq deal[d].fields \cup {"next action"}

-----------------------------------------------------------------------------
(* Blank rows are rows.                                                     *)
LEMMA BlankTypes ==
    /\ NoRow \in PipelineRow /\ Absent \in StageRow /\ NoDeal \in DealRow /\ Idle \in Request
<1>1. NoRow \in PipelineRow /\ Absent \in StageRow
    BY PipelinesAssumption DEF NoRow, PipelineRow, Absent, StageRow
<1>2. NoDeal \in DealRow
    BY PipelinesAssumption DEF NoDeal, DealRow, Status
<1> QED
    BY <1>1, <1>2, PipelinesAssumption DEF Idle, Request

(* For the rules that last, Met only looks at the fields.                   *)
LEMMA LastingMet ==
    ASSUME NEW row, NEW d, NEW rule, Lasting(rule)
    PROVE  Met(row, d, rule) <=> Fits(row.fields, rule)
BY DEF Lasting, Met, Fits

(* A step that begins, moves on or ends one request leaves the others as    *)
(* they were.                                                               *)
LEMMA OneRequest ==
    ASSUME TypeOK, NEW k \in Client, NEW q \in Request, client' = [client EXCEPT ![k] = q]
    PROVE  /\ client' \in [Client -> Request]
           /\ client'[k] = q /\ \A j \in Client \ {k} : client'[j] = client[j]
BY DEF TypeOK

LEMMA Counts ==
    ASSUME TypeOK, Count \/ UNCHANGED begun
    PROVE  begun' \in 0..MaxRequests
BY PipelinesAssumption DEF TypeOK, Count

(* What a request knows stays true while it waits and the deals move on.    *)
LEMMA Waiting ==
    ASSUME IInv, TypeOK', Grows, NEW k \in Client, client'[k] = client[k]
    PROVE  (ReadHolds(client[k]) /\ GateHolds(client[k]))'
<1> DEFINE q == client[k]
<1>0. q \in Request /\ ReadHolds(q) /\ GateHolds(q)
    BY DEF IInv, TypeOK, Informed
<1>1. CASE q.op \in {"read", "gate", "write"}
    <2>1. /\ q.deal \in Deal /\ Exists(q.deal) /\ q.to \in Stage
          /\ q.version <= q.before.version /\ q.before.version <= deal[q.deal].version
          /\ deal[q.deal].version = q.before.version => deal[q.deal].stage = q.before.stage
        BY <1>0, <1>1 DEF ReadHolds
    <2>2. /\ deal[q.deal].version \in Nat /\ deal'[q.deal].version \in Nat
          /\ q.version \in Nat /\ q.before.version \in Nat
          /\ q.gate \subseteq Criterion
        <3>1. deal[q.deal] \in DealRow /\ deal'[q.deal] \in DealRow /\ q.before \in DealRow
            BY <2>1, <1>0 DEF IInv, TypeOK, Request
        <3>2. q.version \in 0..MaxVersion /\ q.gate \subseteq Criterion
            BY <1>0 DEF Request
        <3> QED
            BY <3>1, <3>2, PipelinesAssumption DEF DealRow
    <2>3. Exists(q.deal)'
        BY <2>1 DEF Grows
    <2>4. CASE deal[q.deal].version < deal'[q.deal].version
        BY <2>1, <2>2, <2>3, <2>4 DEF ReadHolds, GateHolds
    <2>5. CASE /\ deal'[q.deal].version = deal[q.deal].version /\ deal'[q.deal].stage = deal[q.deal].stage
               /\ deal[q.deal].fields \subseteq deal'[q.deal].fields
               /\ deal'[q.deal].fields \subseteq deal[q.deal].fields \cup {"next action"}
        <3>1. ReadHolds(q)'
            BY <2>1, <2>3, <2>5 DEF ReadHolds
        <3>2. ASSUME NEW rule \in q.gate, Lasting(rule), Fits(deal[q.deal].fields, rule)
              PROVE  Fits(deal'[q.deal].fields, rule)
            BY <3>2, <2>5 DEF Fits, Lasting
        <3>3. GateHolds(q)'
            BY <3>2, <2>5, <1>0 DEF GateHolds
        <3> QED
            BY <3>1, <3>3
    <2> QED
        BY <2>1, <2>4, <2>5 DEF Grows
<1>2. CASE q.op \notin {"read", "gate", "write"}
    BY <1>2 DEF ReadHolds, GateHolds
<1> QED
    BY <1>1, <1>2

(* A step of one request that leaves every row alone.                       *)
LEMMA Moved ==
    ASSUME IInv, NEW k \in Client, NEW q \in Request, client' = [client EXCEPT ![k] = q],
           ReadHolds(q), GateHolds(q), UNCHANGED <<board, deals>>, Count \/ UNCHANGED begun
    PROVE  IInv' /\ Gated /\ OrderKept
<1>1. TypeOK
    BY DEF IInv
<1>2. client' \in [Client -> Request] /\ client'[k] = q /\ \A j \in Client \ {k} : client'[j] = client[j]
    BY <1>1, OneRequest
<1>3. TypeOK'
    BY <1>1, <1>2, Counts DEF TypeOK, board, deals
<1>4. Grows
    BY DEF Grows, Exists, deals
<1>5. (ReadHolds(client[k]) /\ GateHolds(client[k]))'
    BY <1>2 DEF ReadHolds, GateHolds, Exists, deals
<1>6. Informed'
    BY <1>2, <1>3, <1>4, <1>5, Waiting DEF Informed
<1> QED
    BY <1>1, <1>3, <1>6 DEF IInv, Gated, OrderKept, board, deals, TypeOK, StageRow

(* A step that ends one request, or leaves them all alone, and rewrites the *)
(* board.                                                                   *)
LEMMA Rebuilt ==
    ASSUME IInv, UNCHANGED deal, Count \/ UNCHANGED begun,
           UNCHANGED client \/ \E k \in Client : client' = [client EXCEPT ![k] = Idle],
           pipeline' \in [Pipeline -> PipelineRow], stage' \in [Stage -> StageRow],
           criteria' \in [Stage -> SUBSET Criterion], items' \subseteq Stage, done' \subseteq Deal \X Stage
    PROVE  IInv' /\ Gated
<1>1. TypeOK
    BY DEF IInv
<1>2. client' \in [Client -> Request] /\ \A j \in Client : client'[j] \in {client[j], Idle}
    BY <1>1, OneRequest, BlankTypes DEF TypeOK
<1>3. TypeOK'
    BY <1>1, <1>2, Counts DEF TypeOK
<1>4. Grows
    BY DEF Grows, Exists
<1>5. ASSUME NEW j \in Client, client'[j] = Idle
      PROVE  (ReadHolds(client[j]) /\ GateHolds(client[j]))'
    BY <1>5 DEF ReadHolds, GateHolds, Idle
<1>6. Informed'
    BY <1>2, <1>3, <1>4, <1>5, Waiting DEF Informed
<1> QED
    BY <1>3, <1>6 DEF IInv, Gated

(***************************************************************************)
(* Requests on deals                                                        *)
(***************************************************************************)

(* A request that does not wait to write knows nothing it could be wrong    *)
(* about.                                                                   *)
LEMMA NothingToHold ==
    ASSUME NEW q, q.op \notin {"read", "gate", "write"}
    PROVE  ReadHolds(q) /\ GateHolds(q)
BY DEF ReadHolds, GateHolds

LEMMA ReadSteps ==
    ASSUME IInv, NEW k \in Client,
           \/ \E s \in Stage : ReadStage(k, s) \/ ReadDeletedStage(k, s)
                               \/ \E active \in BOOLEAN : ReadStageRow(k, s, active)
           \/ \E p \in Pipeline : ReadPipeline(k, p) \/ ReadDeleted(k, p)
    PROVE  IInv' /\ Gated /\ OrderKept
<1>0. TypeOK /\ Idle \in Request
    BY BlankTypes DEF IInv
<1>1. UNCHANGED <<board, deals>> /\ Count
    BY DEF ReadStage, ReadDeletedStage, ReadStageRow, ReadPipeline, ReadDeleted, Begin
<1>2. ASSUME NEW q \in Request, client' = [client EXCEPT ![k] = q], q.op \notin {"read", "gate", "write"}
      PROVE  IInv' /\ Gated /\ OrderKept
    BY <1>1, <1>2, Moved, NothingToHold
<1>3. ASSUME NEW s \in Stage, ReadStage(k, s)
      PROVE  IInv' /\ Gated /\ OrderKept
    <2>1. PICK fields \in SUBSET Field :
              client' = [client EXCEPT ![k] =
                  [Idle EXCEPT !.op = "create", !.to = s, !.target = stage[s], !.fields = fields]]
        BY <1>3 DEF ReadStage, Begin
    <2>2. [Idle EXCEPT !.op = "create", !.to = s, !.target = stage[s], !.fields = fields] \in Request
        BY <1>0 DEF TypeOK, Request
    <2> QED
        BY <1>2, <2>1, <2>2 DEF Idle
<1>4. ASSUME NEW s \in Stage, ReadDeletedStage(k, s)
      PROVE  IInv' /\ Gated /\ OrderKept
    <2>1. client' = [client EXCEPT ![k] = [Idle EXCEPT !.op = "drop stage", !.to = s, !.target = stage[s]]]
        BY <1>4 DEF ReadDeletedStage, Begin
    <2>2. [Idle EXCEPT !.op = "drop stage", !.to = s, !.target = stage[s]] \in Request
        BY <1>0 DEF TypeOK, Request
    <2> QED
        BY <1>2, <2>1, <2>2 DEF Idle
<1>5. ASSUME NEW s \in Stage, NEW active \in BOOLEAN, ReadStageRow(k, s, active)
      PROVE  IInv' /\ Gated /\ OrderKept
    <2>1. client' = [client EXCEPT ![k] =
              [Idle EXCEPT !.op = "stage", !.to = s, !.target = [stage[s] EXCEPT !.active = active]]]
        BY <1>5 DEF ReadStageRow, Begin
    <2>2. [stage[s] EXCEPT !.active = active] \in StageRow
        BY <1>0 DEF TypeOK, StageRow
    <2>3. [Idle EXCEPT !.op = "stage", !.to = s, !.target = [stage[s] EXCEPT !.active = active]] \in Request
        BY <1>0, <2>2 DEF Request
    <2> QED
        BY <1>2, <2>1, <2>3 DEF Idle
<1>6. ASSUME NEW p \in Pipeline, ReadPipeline(k, p)
      PROVE  IInv' /\ Gated /\ OrderKept
    <2>1. client' = [client EXCEPT ![k] = [Idle EXCEPT !.op = "pipeline", !.on = p, !.row = pipeline[p]]]
        BY <1>6 DEF ReadPipeline, Begin
    <2>2. [Idle EXCEPT !.op = "pipeline", !.on = p, !.row = pipeline[p]] \in Request
        BY <1>0 DEF TypeOK, Request
    <2> QED
        BY <1>2, <2>1, <2>2 DEF Idle
<1>7. ASSUME NEW p \in Pipeline, ReadDeleted(k, p)
      PROVE  IInv' /\ Gated /\ OrderKept
    <2>1. client' = [client EXCEPT ![k] = [Idle EXCEPT !.op = "drop pipeline", !.on = p]]
        BY <1>7 DEF ReadDeleted, Begin
    <2>2. [Idle EXCEPT !.op = "drop pipeline", !.on = p] \in Request
        BY <1>0 DEF Request
    <2> QED
        BY <1>2, <2>1, <2>2 DEF Idle
<1> QED
    BY <1>3, <1>4, <1>5, <1>6, <1>7

LEMMA ReadDealStep ==
    ASSUME IInv, NEW k \in Client, NEW d \in Deal, NEW to \in Stage, NEW fields \in SUBSET Field,
           NEW version \in 0..deal[d].version, ReadDeal(k, d, to, fields, version)
    PROVE  IInv' /\ Gated /\ OrderKept
<1> DEFINE read == IF version = 0 THEN deal[d].version ELSE version
           q == [Idle EXCEPT !.op = "read", !.deal = d, !.before = deal[d], !.to = to, !.fields = fields,
                     !.version = read]
<1>1. client' = [client EXCEPT ![k] = q] /\ Exists(d) /\ UNCHANGED <<board, deals>> /\ Count
    BY DEF ReadDeal, Begin
<1>2. deal[d] \in DealRow /\ deal[d].version \in 0..MaxVersion
    BY DEF IInv, TypeOK, DealRow
<1>3. read \in 0..MaxVersion /\ read <= deal[d].version
    BY <1>2, PipelinesAssumption
<1>4. q \in Request
    BY <1>2, <1>3, BlankTypes DEF Request
<1>5. q.op = "read" /\ q.deal = d /\ q.to = to /\ q.before = deal[d] /\ q.version = read
    BY BlankTypes DEF Request
<1>6. ReadHolds(q) /\ GateHolds(q)
    <2> HIDE DEF q, read
    <2> QED
        BY <1>1, <1>2, <1>3, <1>5, PipelinesAssumption DEF ReadHolds, GateHolds
<1> HIDE DEF q
<1> QED
    BY <1>1, <1>4, <1>6, Moved

(* A request that ends changes nothing more.                                *)
LEMMA Ends ==
    ASSUME IInv, NEW k \in Client, Done(k), UNCHANGED <<board, deals>>
    PROVE  IInv' /\ Gated /\ OrderKept
<1>1. ReadHolds(Idle) /\ GateHolds(Idle)
    BY NothingToHold DEF Idle
<1> QED
    BY <1>1, Moved, BlankTypes DEF Done, Await

LEMMA ReadTargetStep ==
    ASSUME IInv, NEW k \in Client, ReadTarget(k)
    PROVE  IInv' /\ Gated /\ OrderKept
<1> DEFINE q == client[k]
           r == [q EXCEPT !.op = IF q.to = q.before.stage THEN "write" ELSE "gate", !.target = stage[q.to]]
<1>1. q \in Request /\ q.op = "read" /\ ReadHolds(q) /\ UNCHANGED <<board, deals>>
    BY DEF IInv, TypeOK, Informed, ReadTarget, At
<1>2. CASE Done(k)
    BY <1>1, <1>2, Ends
<1>3. CASE Await(k, r)
    <2>1. q.to \in Stage /\ stage[q.to] \in StageRow
        BY <1>1 DEF ReadHolds, IInv, TypeOK
    <2>2. r \in Request
        BY <1>1, <2>1 DEF Request
    <2>3. /\ r.op = IF q.to = q.before.stage THEN "write" ELSE "gate"
          /\ r.deal = q.deal /\ r.to = q.to /\ r.before = q.before /\ r.version = q.version
        BY <1>1 DEF Request
    <2>4. ReadHolds(r) /\ GateHolds(r)
        <3> HIDE DEF r, q
        <3> QED
            BY <1>1, <2>3 DEF ReadHolds, GateHolds
    <2> HIDE DEF r
    <2> QED
        BY <1>1, <1>3, <2>2, <2>4, Moved DEF Await
<1> QED
    BY <1>2, <1>3 DEF ReadTarget

(* The gate judges the stage the deal is in.                                *)
LEMMA GateStep ==
    ASSUME IInv, NEW k \in Client, ValidateStageTransition(k)
    PROVE  IInv' /\ Gated /\ OrderKept
<1> DEFINE q == client[k]
           row == deal[q.deal]
           r == [q EXCEPT !.op = "write", !.leaving = row.stage, !.gate = criteria[row.stage]]
<1>1. q \in Request /\ q.op = "gate" /\ ReadHolds(q) /\ UNCHANGED <<board, deals>>
    BY DEF IInv, TypeOK, Informed, ValidateStageTransition, At
<1>2. CASE Done(k)
    BY <1>1, <1>2, Ends
<1>3. CASE Await(k, r) /\ \A rule \in criteria[row.stage] : Met(row, q.deal, rule)
    <2>1. row \in DealRow /\ row.stage \in Stage
        BY <1>1 DEF ReadHolds, IInv, TypeOK, DealRow, Exists
    <2>2. criteria[row.stage] \subseteq Criterion
        BY <2>1 DEF IInv, TypeOK
    <2>3. r \in Request
        BY <1>1, <2>1, <2>2 DEF Request
    <2>4. /\ r.op = "write" /\ r.leaving = row.stage /\ r.gate = criteria[row.stage]
          /\ r.deal = q.deal /\ r.to = q.to /\ r.before = q.before /\ r.version = q.version
        BY <1>1 DEF Request
    <2>5. \A rule \in criteria[row.stage] : Lasting(rule) => Fits(row.fields, rule)
        BY <1>3, LastingMet
    <2>6. ReadHolds(r) /\ GateHolds(r)
        <3> HIDE DEF r, q
        <3> QED
            BY <1>1, <2>4, <2>5 DEF ReadHolds, GateHolds
    <2> HIDE DEF r
    <2> QED
        BY <1>1, <1>3, <2>3, <2>6, Moved DEF Await
<1> QED
    BY <1>2, <1>3 DEF ValidateStageTransition

(* A step that ends one request at most, leaves the board alone and makes   *)
(* the deals grow.                                                          *)
LEMMA Grown ==
    ASSUME IInv, Grows, Gated, UNCHANGED board, deal' \in [Deal -> DealRow], done' \subseteq Deal \X Stage,
           Count \/ UNCHANGED begun,
           UNCHANGED client \/ \E k \in Client : client' = [client EXCEPT ![k] = Idle]
    PROVE  IInv' /\ Gated /\ OrderKept
<1>1. TypeOK
    BY DEF IInv
<1>2. client' \in [Client -> Request] /\ \A j \in Client : client'[j] \in {client[j], Idle}
    BY <1>1, OneRequest, BlankTypes DEF TypeOK
<1>3. TypeOK'
    BY <1>1, <1>2, Counts DEF TypeOK, board
<1>4. ASSUME NEW j \in Client, client'[j] = Idle
      PROVE  (ReadHolds(client[j]) /\ GateHolds(client[j]))'
    BY <1>4 DEF ReadHolds, GateHolds, Idle
<1>5. Informed'
    BY <1>2, <1>3, <1>4, Waiting DEF Informed
<1> QED
    BY <1>1, <1>3, <1>5 DEF IInv, OrderKept, board, TypeOK, StageRow

LEMMA DealsKept ==
    ASSUME \A d \in Deal : Exists(d) => deal'[d] = deal[d]
    PROVE  Grows /\ Gated
<1>1. Gated
    BY DEF Gated
<1>2. ASSUME NEW d \in Deal, Exists(d)
      PROVE  deal'[d] = deal[d] /\ Exists(d)'
    BY <1>2 DEF Exists
<1>3. Grows
    BY <1>2 DEF Grows
<1> QED
    BY <1>1, <1>3

LEMMA CreateStep ==
    ASSUME IInv, NEW k \in Client, NEW d \in Deal, CreateOpportunity(k, d)
    PROVE  IInv' /\ Gated /\ OrderKept
<1> DEFINE q == client[k]
           new == [stage |-> q.to, pipeline |-> q.target.pipeline,
                   status |-> StageStatus(q.target, "OPEN"), fields |-> q.fields, version |-> 1]
<1>1. q \in Request /\ deal \in [Deal -> DealRow] /\ done \subseteq Deal \X Stage
    BY DEF IInv, TypeOK
<1>2. new \in DealRow
    <2>1. /\ q.to \in Stage \cup {NoStage} /\ q.target.pipeline \in Pipeline \cup {NoPipeline}
          /\ q.fields \in SUBSET Field
        BY <1>1 DEF Request, StageRow
    <2>2. StageStatus(q.target, "OPEN") \in Status
        BY DEF StageStatus, Status
    <2>3. 1 \in 0..MaxVersion
        BY PipelinesAssumption
    <2> QED
        BY <2>1, <2>2, <2>3 DEF DealRow
<1>3. ~Exists(d) /\ (deal' = deal \/ deal' = [deal EXCEPT ![d] = new])
    <2>1. ~Exists(d)
        BY DEF CreateOpportunity
    <2>2. deal' = deal \/ deal' = [deal EXCEPT ![d] = new]
        BY DEF CreateOpportunity
    <2> QED
        BY <2>1, <2>2
<1>4. deal' \in [Deal -> DealRow]
    <2> HIDE DEF new
    <2> QED
        BY <1>1, <1>2, <1>3
<1>5. \A e \in Deal : Exists(e) => deal'[e] = deal[e]
    <2> HIDE DEF new
    <2> QED
        BY <1>1, <1>3 DEF Exists
<1>6. Grows /\ Gated
    BY <1>5, DealsKept
<1>7. UNCHANGED <<board, done, begun>> /\ client' = [client EXCEPT ![k] = Idle]
    BY DEF CreateOpportunity, Done, Await
<1> QED
    BY <1>1, <1>4, <1>6, <1>7, Grown

(* Only this step takes a deal out of its stage.                            *)
LEMMA UpdateStep ==
    ASSUME IInv, NEW k \in Client, UpdateOpportunity(k)
    PROVE  IInv' /\ Gated /\ OrderKept
<1> DEFINE q == client[k]
           new(version) == [stage |-> q.to, pipeline |-> q.target.pipeline,
                            status |-> StageStatus(q.target, q.before.status), fields |-> q.fields,
                            version |-> version]
<1>1. q \in Request /\ deal \in [Deal -> DealRow] /\ done \subseteq Deal \X Stage
    BY DEF IInv, TypeOK
<1>2. q.op = "write" /\ ReadHolds(q) /\ GateHolds(q)
    BY DEF IInv, Informed, UpdateOpportunity, At
<1>3. UNCHANGED <<board, done, begun>> /\ client' = [client EXCEPT ![k] = Idle]
    BY DEF UpdateOpportunity, Done, Await
<1>4. CASE UNCHANGED deal
    <2>1. Grows /\ Gated
        BY <1>4, DealsKept
    <2> QED
        BY <1>1, <1>3, <1>4, <2>1, Grown
<1>5. CASE /\ deal[q.deal].version = q.version /\ deal[q.deal].version < MaxVersion
           /\ deal' = [deal EXCEPT ![q.deal] = new(deal[q.deal].version + 1)]
    <2>1. /\ q.deal \in Deal /\ Exists(q.deal) /\ q.to \in Stage
          /\ q.version <= q.before.version /\ q.before.version <= deal[q.deal].version
          /\ deal[q.deal].version = q.before.version => deal[q.deal].stage = q.before.stage
        BY <1>2 DEF ReadHolds
    <2>2. deal[q.deal].version \in 0..MaxVersion /\ q.before \in DealRow /\ q.before.version \in 0..MaxVersion
        BY <1>1, <2>1 DEF DealRow, Request
    <2>3. q.target.pipeline \in Pipeline \cup {NoPipeline} /\ q.before.status \in Status /\ q.fields \in SUBSET Field
        BY <1>1, <2>2 DEF DealRow, Request, StageRow
    <2>4. deal[q.deal].version + 1 \in 0..MaxVersion
        BY <1>5, <2>2, PipelinesAssumption
    <2>5. new(deal[q.deal].version + 1) \in DealRow
        BY <2>1, <2>3, <2>4 DEF DealRow, StageStatus, Status
    <2>6. /\ deal' \in [Deal -> DealRow]
          /\ deal'[q.deal].version = deal[q.deal].version + 1 /\ deal'[q.deal].stage = q.to
          /\ \A e \in Deal \ {q.deal} : deal'[e] = deal[e]
        <3>1. deal' \in [Deal -> DealRow]
            <4> HIDE DEF new
            <4> QED
                BY <1>1, <1>5, <2>5
        <3> QED
            BY <1>1, <1>5, <2>1, <3>1
    <2>7. Grows
        <3> SUFFICES ASSUME NEW e \in Deal, Exists(e)
                     PROVE  /\ Exists(e)'
                            /\ \/ deal[e].version < deal'[e].version
                               \/ /\ deal'[e].version = deal[e].version /\ deal'[e].stage = deal[e].stage
                                  /\ deal[e].fields \subseteq deal'[e].fields
                                  /\ deal'[e].fields \subseteq deal[e].fields \cup {"next action"}
            BY DEF Grows
        <3> HIDE DEF q
        <3>1. CASE e = q.deal
            <4>1. deal'[q.deal].stage # NoStage
                BY <2>1, <2>6, PipelinesAssumption
            <4>2. deal[q.deal].version < deal'[q.deal].version
                BY <2>2, <2>6, PipelinesAssumption
            <4> QED
                BY <3>1, <4>1, <4>2 DEF Exists
        <3>2. CASE e # q.deal
            <4>1. deal'[e] = deal[e]
                BY <2>6, <3>2
            <4> QED
                BY <2>6, <4>1 DEF Exists
        <3> QED
            BY <3>1, <3>2
    <2>8. q.to # deal[q.deal].stage => /\ q.leaving = deal[q.deal].stage
                                       /\ \A rule \in q.gate : Lasting(rule) => Fits(deal[q.deal].fields, rule)
        <3>1. q.version = q.before.version
            BY <1>5, <2>1, <2>2, PipelinesAssumption
        <3> QED
            BY <1>2, <1>5, <2>1, <3>1 DEF GateHolds
    <2>9. Gated
        BY <1>2, <2>6, <2>8, LastingMet DEF Gated
    <2> HIDE DEF q
    <2> QED
        BY <1>1, <1>3, <2>6, <2>7, <2>9, Grown
<1> QED
    BY <1>4, <1>5 DEF UpdateOpportunity

(* An activity, and the items of a playbook.                                *)
LEMMA ActivityStep ==
    ASSUME IInv, NEW d \in Deal, AddActivity(d) \/ SetPlaybookProgress(d)
    PROVE  IInv' /\ Gated /\ OrderKept
<1>1. deal \in [Deal -> DealRow] /\ done \subseteq Deal \X Stage /\ items \subseteq Stage
    BY DEF IInv, TypeOK
<1>2. UNCHANGED <<board, client>> /\ Count /\ Exists(d)
    BY DEF AddActivity, SetPlaybookProgress
<1>3. deal' \in [Deal -> DealRow] /\ Grows /\ Gated
    <2>1. CASE UNCHANGED deal
        BY <1>1, <2>1, DealsKept
    <2>2. CASE deal' = [deal EXCEPT ![d].fields = @ \cup {"next action"}]
        <3>1. deal[d] \in DealRow /\ deal[d].fields \cup {"next action"} \in SUBSET Field
            BY <1>1 DEF DealRow, Field
        <3>2. [deal[d] EXCEPT !.fields = @ \cup {"next action"}] \in DealRow
            BY <3>1 DEF DealRow
        <3>3. deal' \in [Deal -> DealRow]
            BY <1>1, <2>2, <3>2
        <3>4. /\ deal'[d].stage = deal[d].stage /\ deal'[d].version = deal[d].version
              /\ deal'[d].fields = deal[d].fields \cup {"next action"}
              /\ \A e \in Deal \ {d} : deal'[e] = deal[e]
            BY <1>1, <2>2, <3>1 DEF DealRow
        <3>5. Gated
            BY <3>4 DEF Gated
        <3>6. Grows
            <4>1. ASSUME NEW e \in Deal \ {d}, Exists(e)
                  PROVE  deal'[e] = deal[e] /\ Exists(e)'
                BY <3>4, <4>1 DEF Exists
            <4>2. Exists(d)'
                BY <1>2, <3>4 DEF Exists
            <4> QED
                BY <3>4, <4>1, <4>2 DEF Grows
        <3> QED
            BY <3>3, <3>5, <3>6
    <2> QED
        BY <2>1, <2>2 DEF AddActivity, SetPlaybookProgress
<1>4. done' \subseteq Deal \X Stage
    <2>1. <<d, deal[d].stage>> \in Deal \X Stage
        BY <1>1, <1>2 DEF Exists, DealRow
    <2> QED
        BY <1>1, <2>1 DEF AddActivity, SetPlaybookProgress
<1> QED
    BY <1>2, <1>3, <1>4, Grown

(***************************************************************************)
(* Requests on the board                                                    *)
(***************************************************************************)

(* A move of rows that keeps each in its pipeline or takes it out of it,    *)
(* and never lets one pass another of its pipeline.                         *)
Shifts(moved) ==
    \A s, t \in Stage \ moved :
        /\ stage'[s].pipeline = stage'[t].pipeline /\ stage'[s].pipeline # NoPipeline
        /\ stage[s].pipeline = stage[t].pipeline /\ stage[s].order < stage[t].order
        => stage'[s].order <= stage'[t].order

LEMMA ShiftsKeepOrder ==
    ASSUME TypeOK, TypeOK', NEW moved, Shifts(moved),
           \A s \in Stage \cap moved : \/ stage'[s].pipeline = NoPipeline
                                       \/ \E k \in Client : client[k].op = "stage" /\ client[k].to = s
    PROVE  OrderKept
<1> SUFFICES ASSUME NEW s \in Stage, NEW t \in Stage,
                    stage[s].pipeline = stage[t].pipeline, stage[s].order < stage[t].order,
                    stage'[s].pipeline = stage'[t].pipeline, stage'[s].pipeline # NoPipeline,
                    stage'[t].order < stage'[s].order
             PROVE  \E k \in Client : client[k].op = "stage" /\ client[k].to \in {s, t}
    BY DEF OrderKept
<1>1. stage'[s].order \in Int /\ stage'[t].order \in Int
    BY PipelinesAssumption DEF TypeOK, StageRow
<1>2. s \in moved \/ t \in moved
    BY <1>1 DEF Shifts
<1> QED
    BY <1>2

LEMMA SameOrder ==
    ASSUME TypeOK, UNCHANGED stage
    PROVE  OrderKept
<1>1. \A s \in Stage : stage[s].order \in Int
    BY PipelinesAssumption DEF TypeOK, StageRow
<1> QED
    BY <1>1 DEF OrderKept

LEMMA SaveStep ==
    ASSUME IInv, NEW s \in Stage, NEW input \in Executions, SaveStageExecution(s, input)
    PROVE  IInv' /\ Gated /\ OrderKept
<1>1. TypeOK /\ input[2] \in SUBSET Criterion
    BY ExecutionsAssumption DEF IInv
<1>2. criteria' \in [Stage -> SUBSET Criterion] /\ items' \subseteq Stage /\ done' \subseteq Deal \X Stage
    BY <1>1 DEF SaveStageExecution, TypeOK
<1>3. UNCHANGED <<pipeline, stage, deal, client>> /\ Count
    BY DEF SaveStageExecution
<1> QED
    BY <1>1, <1>2, <1>3, Rebuilt, SameOrder DEF TypeOK

LEMMA PipelineStep ==
    ASSUME IInv,
           \/ \E p \in Pipeline : CreatePipeline(p)
           \/ \E k \in Client, state \in {"active", "inactive"}, default \in BOOLEAN :
                  UpdatePipeline(k, state, default)
    PROVE  IInv' /\ Gated /\ OrderKept
<1>1. TypeOK /\ pipeline \in [Pipeline -> PipelineRow]
    BY DEF IInv, TypeOK
<1>2. ASSUME NEW p
      PROVE  Others(p) \in [Pipeline -> PipelineRow]
    <2>1. \A q \in Pipeline : [pipeline[q] EXCEPT !.default = FALSE] \in PipelineRow
        BY <1>1 DEF PipelineRow
    <2> QED
        BY <1>1, <2>1 DEF Others
<1>3. pipeline' \in [Pipeline -> PipelineRow]
    <2>1. ASSUME NEW rows, rows \in [Pipeline -> PipelineRow], NEW p,
                 NEW state \in {"active", "inactive"}, NEW default \in BOOLEAN
          PROVE  [rows EXCEPT ![p] = [state |-> state, default |-> default]] \in [Pipeline -> PipelineRow]
        BY <2>1 DEF PipelineRow
    <2>2. CASE \E p \in Pipeline : CreatePipeline(p)
        BY <1>1, <1>2, <2>1, <2>2 DEF CreatePipeline
    <2>3. ASSUME NEW k \in Client, NEW state \in {"active", "inactive"}, NEW default \in BOOLEAN,
                 UpdatePipeline(k, state, default)
          PROVE  pipeline' \in [Pipeline -> PipelineRow]
        <3>1. \/ pipeline' = pipeline
              \/ pipeline' = [Others(client[k].on) EXCEPT ![client[k].on] = [state |-> state, default |-> default]]
              \/ pipeline' = [pipeline EXCEPT ![client[k].on] = [state |-> state, default |-> default]]
            BY <2>3 DEF UpdatePipeline
        <3>2. Others(client[k].on) \in [Pipeline -> PipelineRow]
            BY <1>2
        <3> QED
            BY <1>1, <2>1, <3>1, <3>2
    <2> QED
        BY <2>2, <2>3
<1>4. /\ UNCHANGED <<stage, criteria, items, deal, done>> /\ (Count \/ UNCHANGED begun)
      /\ UNCHANGED client \/ \E k \in Client : client' = [client EXCEPT ![k] = Idle]
    BY DEF CreatePipeline, UpdatePipeline, Done, Await, deals
<1> QED
    BY <1>1, <1>3, <1>4, Rebuilt, SameOrder DEF TypeOK

(* A pipeline goes with its stages.                                         *)
LEMMA DeletePipelineStep ==
    ASSUME IInv, NEW k \in Client, DeletePipeline(k)
    PROVE  IInv' /\ Gated /\ OrderKept
<1> DEFINE p == client[k].on
<1>1. TypeOK /\ UNCHANGED <<deal, begun>> /\ client' = [client EXCEPT ![k] = Idle]
    BY DEF IInv, DeletePipeline, Done, Await
<1>2. CASE UNCHANGED <<board, done>>
    BY <1>1, <1>2, Rebuilt, SameOrder DEF board, TypeOK
<1>3. CASE /\ pipeline' = [pipeline EXCEPT ![p] = NoRow]
           /\ stage' = [s \in Stage |-> IF s \in Stages(p) THEN Absent ELSE stage[s]]
           /\ criteria' = [s \in Stage |-> IF s \in Stages(p) THEN {} ELSE criteria[s]]
           /\ items' = items \ Stages(p)
           /\ done' = {mark \in done : mark[2] \notin Stages(p)}
    <2>1. /\ pipeline' \in [Pipeline -> PipelineRow] /\ stage' \in [Stage -> StageRow]
          /\ criteria' \in [Stage -> SUBSET Criterion] /\ items' \subseteq Stage /\ done' \subseteq Deal \X Stage
        <3> HIDE DEF p
        <3>1. pipeline' \in [Pipeline -> PipelineRow] /\ stage' \in [Stage -> StageRow]
            BY <1>1, <1>3, BlankTypes DEF TypeOK
        <3> QED
            BY <1>1, <1>3, <3>1 DEF TypeOK
    <2>2. IInv' /\ Gated
        BY <1>1, <2>1, Rebuilt
    <2>3. \A s \in Stage : stage'[s].pipeline = NoPipeline \/ stage'[s] = stage[s]
        BY <1>3 DEF Absent
    <2>4. \A s \in Stage : stage[s].order \in Int
        BY <1>1, PipelinesAssumption DEF TypeOK, StageRow
    <2>5. Shifts({})
        BY <2>3, <2>4 DEF Shifts
    <2> QED
        BY <1>1, <2>2, <2>5, ShiftsKeepOrder DEF IInv
<1> QED
    BY <1>2, <1>3 DEF DeletePipeline

LEMMA CreateStageStep ==
    ASSUME IInv, NEW s \in Stage, NEW p \in Pipeline, NEW order \in 1..MaxOrder, CreateStage(s, p, order)
    PROVE  IInv' /\ Gated /\ OrderKept
<1>1. TypeOK /\ UNCHANGED <<pipeline, criteria, items, deal, done, client>> /\ Count /\ stage[s] = Absent
    BY DEF IInv, CreateStage, deals
<1>2. PICK won \in BOOLEAN :
          stage' = [stage EXCEPT ![s] = [pipeline |-> p, order |-> order, won |-> won, active |-> TRUE]]
    BY DEF CreateStage
<1>3. stage' \in [Stage -> StageRow]
    <2>1. [pipeline |-> p, order |-> order, won |-> won, active |-> TRUE] \in StageRow
        BY PipelinesAssumption DEF StageRow
    <2> QED
        BY <1>1, <1>2, <2>1 DEF TypeOK
<1>4. IInv' /\ Gated
    BY <1>1, <1>3, Rebuilt DEF TypeOK
<1>5. \A t \in Stage \ {s} : stage'[t] = stage[t]
    BY <1>1, <1>2 DEF TypeOK
<1>6. Shifts({})
    <2>1. stage[s].pipeline = NoPipeline /\ stage'[s].pipeline = p /\ p # NoPipeline
        BY <1>1, <1>2, PipelinesAssumption DEF TypeOK, Absent
    <2>2. \A t \in Stage : stage[t].order \in Int
        BY <1>1, PipelinesAssumption DEF TypeOK, StageRow
    <2> QED
        BY <1>5, <2>1, <2>2 DEF Shifts
<1> QED
    BY <1>1, <1>4, <1>6, ShiftsKeepOrder DEF IInv

(* Between the two positions everybody moves one place the same way.        *)
LEMMA ReorderedShifts ==
    ASSUME TypeOK, NEW p, NEW s, NEW from \in -1..MaxOrder, NEW to \in 1..MaxOrder
    PROVE  /\ Reordered(p, s, from, to) \in [Stage -> StageRow]
           /\ \A t \in Stage : Reordered(p, s, from, to)[t].pipeline = stage[t].pipeline
           /\ \A t, u \in Stage \ {s} :
                  stage[t].pipeline = stage[u].pipeline /\ stage[t].order < stage[u].order
                  => Reordered(p, s, from, to)[t].order <= Reordered(p, s, from, to)[u].order
<1> DEFINE at(t) == stage[t].order
           new(t) == IF from < to /\ at(t) > from /\ at(t) <= to THEN at(t) - 1
                     ELSE IF to < from /\ at(t) >= to /\ at(t) < from THEN at(t) + 1 ELSE at(t)
<1>1. \A t \in Stage : stage[t] \in StageRow /\ at(t) \in -1..MaxOrder
    BY DEF TypeOK, StageRow
<1>2. \A t \in Stage : new(t) \in -1..MaxOrder
    BY <1>1, PipelinesAssumption
<1>3. \A t, u \in Stage : at(t) < at(u) => new(t) <= new(u)
    BY <1>1, PipelinesAssumption
<1> HIDE DEF new
<1>4. Reordered(p, s, from, to) =
          [t \in Stage |-> IF t \in Stages(p) \ {s} THEN [stage[t] EXCEPT !.order = new(t)] ELSE stage[t]]
    BY DEF Reordered, new
<1>5. \A t \in Stage : [stage[t] EXCEPT !.order = new(t)] \in StageRow
    BY <1>1, <1>2 DEF StageRow
<1>6. \A t \in Stage : /\ Reordered(p, s, from, to)[t] \in StageRow
                       /\ Reordered(p, s, from, to)[t].pipeline = stage[t].pipeline
                       /\ Reordered(p, s, from, to)[t].order = IF t \in Stages(p) \ {s} THEN new(t) ELSE at(t)
    <2> SUFFICES ASSUME NEW t \in Stage
                 PROVE  /\ Reordered(p, s, from, to)[t] \in StageRow
                        /\ Reordered(p, s, from, to)[t].pipeline = stage[t].pipeline
                        /\ Reordered(p, s, from, to)[t].order = IF t \in Stages(p) \ {s} THEN new(t) ELSE at(t)
        OBVIOUS
    <2>1. CASE t \in Stages(p) \ {s}
        <3>1. Reordered(p, s, from, to)[t] = [stage[t] EXCEPT !.order = new(t)]
            BY <1>4, <2>1
        <3> QED
            BY <3>1, <2>1, <1>1, <1>5 DEF StageRow
    <2>2. CASE t \notin Stages(p) \ {s}
        BY <1>1, <1>4, <2>2
    <2> QED
        BY <2>1, <2>2
<1>7. Reordered(p, s, from, to) \in [Stage -> StageRow]
    BY <1>4, <1>5, <1>1
<1>8. ASSUME NEW t \in Stage \ {s}, NEW u \in Stage \ {s},
             stage[t].pipeline = stage[u].pipeline, at(t) < at(u)
      PROVE  Reordered(p, s, from, to)[t].order <= Reordered(p, s, from, to)[u].order
    <2>1. CASE stage[t].pipeline = p
        BY <1>3, <1>6, <1>8, <2>1 DEF Stages
    <2>2. CASE stage[t].pipeline # p
        <3>1. Reordered(p, s, from, to)[t].order = at(t) /\ Reordered(p, s, from, to)[u].order = at(u)
            BY <1>6, <1>8, <2>2 DEF Stages
        <3> QED
            BY <1>1, <1>8, <3>1
    <2> QED
        BY <2>1, <2>2
<1> QED
    BY <1>6, <1>7, <1>8

LEMMA UpdateStageStep ==
    ASSUME IInv, NEW k \in Client, NEW order \in 1..MaxOrder, NEW won \in BOOLEAN, UpdateStage(k, order, won)
    PROVE  IInv' /\ Gated /\ OrderKept
<1> DEFINE s == client[k].to
           p == client[k].target.pipeline
           from == client[k].target.order
           moved == IF order # from THEN Reordered(p, s, from, order) ELSE stage
           rows == [t \in Stage |->
                      IF t = s THEN [pipeline |-> p, order |-> order, won |-> won,
                                     active |-> client[k].target.active]
                      ELSE IF t \in Stages(p) THEN [moved[t] EXCEPT !.won = @ /\ ~won]
                      ELSE moved[t]]
<1>1. TypeOK /\ client[k] \in Request /\ client[k].op = "stage"
    BY DEF IInv, TypeOK, UpdateStage, At
<1>2. UNCHANGED <<pipeline, criteria, items, deal, done, begun>> /\ client' = [client EXCEPT ![k] = Idle]
    BY DEF UpdateStage, deals, Done, Await
<1>3. CASE UNCHANGED stage
    BY <1>1, <1>2, <1>3, Rebuilt, SameOrder DEF TypeOK
<1>4. CASE stage' = rows
    <2>1. p \in Pipeline \cup {NoPipeline} /\ from \in -1..MaxOrder /\ client[k].target.active \in BOOLEAN
        BY <1>1 DEF Request, StageRow
    <2>2. /\ moved \in [Stage -> StageRow] /\ \A t \in Stage : moved[t].pipeline = stage[t].pipeline
          /\ \A t, u \in Stage \ {s} :
                 stage[t].pipeline = stage[u].pipeline /\ stage[t].order < stage[u].order
                 => moved[t].order <= moved[u].order
        <3>1. CASE order # from
            BY <1>1, <2>1, <3>1, ReorderedShifts
        <3>2. CASE order = from
            <4>1. \A t \in Stage : stage[t].order \in Int
                BY <1>1, PipelinesAssumption DEF TypeOK, StageRow
            <4> QED
                BY <1>1, <3>2, <4>1 DEF TypeOK
        <3> QED
            BY <3>1, <3>2
    <2> HIDE DEF moved
    <2>3. /\ stage' \in [Stage -> StageRow]
          /\ \A t \in Stage \ {s} : stage'[t].pipeline = stage[t].pipeline /\ stage'[t].order = moved[t].order
        <3>1. order \in -1..MaxOrder
            BY PipelinesAssumption
        <3>2. [pipeline |-> p, order |-> order, won |-> won, active |-> client[k].target.active] \in StageRow
            BY <2>1, <3>1 DEF StageRow
        <3>3. ASSUME NEW t \in Stage
              PROVE  /\ moved[t] \in StageRow /\ [moved[t] EXCEPT !.won = @ /\ ~won] \in StageRow
                     /\ [moved[t] EXCEPT !.won = @ /\ ~won].pipeline = moved[t].pipeline
                     /\ [moved[t] EXCEPT !.won = @ /\ ~won].order = moved[t].order
            <4>1. moved[t] \in StageRow
                BY <2>2
            <4>2. (moved[t].won /\ ~won) \in BOOLEAN
                BY <4>1 DEF StageRow
            <4> QED
                BY <4>1, <4>2 DEF StageRow
        <3>4. \A t \in Stage : stage'[t] \in StageRow
            BY <1>4, <3>2, <3>3
        <3>5. \A t \in Stage \ {s} : \/ stage'[t] = moved[t]
                                     \/ stage'[t] = [moved[t] EXCEPT !.won = @ /\ ~won]
            BY <1>4
        <3> QED
            BY <1>4, <2>2, <3>3, <3>4, <3>5
    <2>4. IInv' /\ Gated
        BY <1>1, <1>2, <2>3, Rebuilt DEF TypeOK
    <2>5. Shifts({s})
        BY <2>2, <2>3 DEF Shifts
    <2> QED
        BY <1>1, <2>4, <2>5, ShiftsKeepOrder DEF IInv
<1> QED
    BY <1>3, <1>4 DEF UpdateStage

(* A stage goes and the later ones move up; nothing passes another.         *)
LEMMA DeleteStageStep ==
    ASSUME IInv, NEW k \in Client, DeleteStage(k)
    PROVE  IInv' /\ Gated /\ OrderKept
<1> DEFINE s == client[k].to
           p == client[k].target.pipeline
           from == client[k].target.order
           up(t) == t \in Stages(p) /\ stage[t].order > from
           rows == [t \in Stage |->
                      IF t = s THEN Absent
                      ELSE IF up(t) THEN [stage[t] EXCEPT !.order = @ - 1] ELSE stage[t]]
<1>1. TypeOK /\ UNCHANGED <<deal, begun>> /\ client' = [client EXCEPT ![k] = Idle]
    BY DEF IInv, DeleteStage, Done, Await
<1>2. CASE UNCHANGED <<board, done>>
    BY <1>1, <1>2, Rebuilt, SameOrder DEF board, TypeOK
<1>3. CASE /\ stage' = rows /\ UNCHANGED pipeline
           /\ criteria' = [criteria EXCEPT ![s] = {}]
           /\ items' = items \ {s}
           /\ done' = {mark \in done : mark[2] # s}
    <2>1. from \in -1..MaxOrder
        BY <1>1 DEF TypeOK, Request, StageRow
    <2>2. ASSUME NEW t \in Stage
          PROVE  /\ stage[t] \in StageRow /\ stage[t].order \in -1..MaxOrder
                 /\ up(t) => stage[t].order - 1 \in -1..MaxOrder /\ stage[t].order - 1 >= from
        <3>1. stage[t] \in StageRow /\ stage[t].order \in -1..MaxOrder
            BY <1>1 DEF TypeOK, StageRow
        <3> HIDE DEF from, p
        <3> QED
            BY <2>1, <3>1, PipelinesAssumption
    <2>3. ASSUME NEW t \in Stage, t # s
          PROVE  /\ stage'[t] \in StageRow /\ stage'[t].pipeline = stage[t].pipeline
                 /\ stage'[t].order = IF up(t) THEN stage[t].order - 1 ELSE stage[t].order
        <3>1. CASE up(t)
            <4>1. stage'[t] = [stage[t] EXCEPT !.order = @ - 1]
                BY <1>3, <2>3, <3>1
            <4> HIDE DEF up
            <4> QED
                BY <2>2, <3>1, <4>1 DEF StageRow
        <3>2. CASE ~up(t)
            <4>1. stage'[t] = stage[t]
                BY <1>3, <2>3, <3>2
            <4> QED
                BY <2>2, <3>2, <4>1
        <3> QED
            BY <3>1, <3>2
    <2>4. stage' \in [Stage -> StageRow]
        <3>1. \A t \in Stage : stage'[t] \in StageRow
            BY <1>3, <2>3, BlankTypes
        <3> QED
            BY <1>3, <3>1
    <2>5. criteria' \in [Stage -> SUBSET Criterion] /\ items' \subseteq Stage /\ done' \subseteq Deal \X Stage
        <3> HIDE DEF s
        <3> QED
            BY <1>1, <1>3 DEF TypeOK
    <2>6. IInv' /\ Gated
        BY <1>1, <1>3, <2>4, <2>5, Rebuilt DEF TypeOK
    <2>7. Shifts({s})
        <3> SUFFICES ASSUME NEW t \in Stage \ {s}, NEW u \in Stage \ {s},
                            stage[t].pipeline = stage[u].pipeline, stage[t].order < stage[u].order
                     PROVE  stage'[t].order <= stage'[u].order
            BY DEF Shifts
        <3>1. stage[t].order \in -1..MaxOrder /\ stage[u].order \in -1..MaxOrder
            BY <2>2
        <3>2. up(t) => up(u)
            BY <2>1, <3>1, PipelinesAssumption DEF Stages
        <3>3. /\ stage'[t].order = IF up(t) THEN stage[t].order - 1 ELSE stage[t].order
              /\ stage'[u].order = IF up(u) THEN stage[u].order - 1 ELSE stage[u].order
            BY <2>3
        <3> HIDE DEF up
        <3> QED
            BY <3>1, <3>2, <3>3, PipelinesAssumption
    <2>8. s \in Stage => stage'[s].pipeline = NoPipeline
        BY <1>3 DEF Absent
    <2> QED
        BY <1>1, <2>6, <2>7, <2>8, ShiftsKeepOrder DEF IInv
<1> QED
    BY <1>2, <1>3 DEF DeleteStage

-----------------------------------------------------------------------------
LEMMA InitInv == Init => IInv
<1> SUFFICES ASSUME Init
             PROVE  IInv
    OBVIOUS
<1>1. pipeline \in [Pipeline -> PipelineRow]
    BY BlankTypes DEF Init, PipelineRow
<1>2. stage \in [Stage -> StageRow]
    <2>1. 1 \in -1..MaxOrder /\ 2 \in -1..MaxOrder
        BY PipelinesAssumption
    <2>2. \A order \in -1..MaxOrder, won \in BOOLEAN :
              [pipeline |-> First, order |-> order, won |-> won, active |-> TRUE] \in StageRow
        BY PipelinesAssumption DEF StageRow
    <2> QED
        BY <2>1, <2>2, BlankTypes DEF Init
<1>3. deal \in [Deal -> DealRow] /\ client \in [Client -> Request]
    BY BlankTypes DEF Init
<1>4. TypeOK
    BY <1>1, <1>2, <1>3, PipelinesAssumption DEF Init, TypeOK
<1>5. Informed
    BY DEF Init, Informed, ReadHolds, GateHolds, Idle
<1> QED
    BY <1>4, <1>5 DEF IInv

(* One step of the system: the invariant stays, a deal leaves its stage     *)
(* through the gate, and the stages keep their order.                       *)
LEMMA NextInv == IInv /\ [Next]_vars => IInv' /\ Gated /\ OrderKept
<1> SUFFICES ASSUME IInv, [Next]_vars
             PROVE  IInv' /\ Gated /\ OrderKept
    OBVIOUS
<1>1. ASSUME NEW k \in Client, OnDeal(k)
      PROVE  IInv' /\ Gated /\ OrderKept
    BY <1>1, ReadSteps, ReadDealStep, ReadTargetStep, GateStep, CreateStep, UpdateStep DEF OnDeal
<1>2. ASSUME NEW k \in Client, OnBoard(k)
      PROVE  IInv' /\ Gated /\ OrderKept
    BY <1>2, ReadSteps, PipelineStep, DeletePipelineStep, UpdateStageStep, DeleteStageStep DEF OnBoard
<1>3. CASE \E d \in Deal : AddActivity(d) \/ SetPlaybookProgress(d)
    BY <1>3, ActivityStep
<1>4. CASE \E p \in Pipeline : CreatePipeline(p)
    BY <1>4, PipelineStep
<1>5. CASE \E s \in Stage, p \in Pipeline, order \in 1..MaxOrder : CreateStage(s, p, order)
    BY <1>5, CreateStageStep
<1>6. CASE \E s \in Stage, input \in Executions : SaveStageExecution(s, input)
    BY <1>6, SaveStep
<1>7. CASE UNCHANGED vars
    <2>1. UNCHANGED <<board, deals, client, begun>>
        BY <1>7 DEF vars
    <2> QED
        BY <2>1, Rebuilt, SameOrder DEF board, deals, IInv, TypeOK
<1> QED
    BY <1>1, <1>2, <1>3, <1>4, <1>5, <1>6, <1>7 DEF Next

(* What every behaviour keeps: types, and what the requests in progress     *)
(* know of their deals.                                                     *)
THEOREM Invariance == Spec => []IInv
<1>1. Init => IInv
    BY InitInv
<1>2. IInv /\ [Next]_vars => IInv'
    BY NextInv
<1> QED
    BY <1>1, <1>2, PTL DEF Spec

(* Rows, requests and counters keep their types, positions and versions     *)
(* their bounds.                                                            *)
THEOREM TypeCorrect == Spec => []TypeOK
<1>1. IInv => TypeOK
    BY DEF IInv
<1> QED
    BY <1>1, Invariance, PTL

(* A deal leaves its stage through the gate of that very stage, with every  *)
(* field criterion found there still met (crm UpdateOpportunity,            *)
(* intelligence ValidateStageTransition).                                   *)
THEOREM StageChangesAreGated == Spec => StageChangeGated
<1>1. IInv /\ [Next]_vars => [Gated]_vars
    BY NextInv
<1> QED
    BY <1>1, Invariance, PTL DEF Spec, StageChangeGated, Gated

(* Moving or deleting a stage never lets two other stages of a board pass   *)
(* each other (server reorderStage, deleteStage).                           *)
THEOREM BoardsKeepOrder == Spec => BoardOrderKept
<1>1. IInv /\ [Next]_vars => [OrderKept]_vars
    BY NextInv
<1> QED
    BY <1>1, Invariance, PTL DEF Spec, BoardOrderKept, OrderKept

===============================================================================
